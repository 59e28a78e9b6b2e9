\* Three committees of four servers, two clients, two messages.
CONSTANTS
    x = x  y = y  a1 = a1  a2 = a2  b1 = b1  d1 = d1  A = A  B = B  D = D
    m1 = m1  m2 = m2  entrance = entrance
    Servers = {a1, a2, b1, d1}
    Clients = {x, y}
    Messages = {m1, m2}
    From <- MCFrom
    To <- MCTo
    Committee <- MCCommittee
    Rings <- MCRings
    Reachable <- MCReachable
    ExitClients <- MCExitClients
    CommitteeClients <- MCCommitteeClients
    Entrance <- MCEntrance
    Group = entrance
    Connected <- MCConnected
    FloodingFactor = 2
    MaxStale = 0
    MaxFlooded = 1
    MaxSeen = 1
    MaxFaults = 1
SPECIFICATION FairSpec
INVARIANTS TypeOK PresentedOnce
PROPERTY Settles
CHECK_DEADLOCK FALSE
