-------------------------------- MODULE Routing --------------------------------
(***************************************************************************)
(* The routing of messages by the network manager plugins: clients send to *)
(* their entrance committee, the servers of a committee pass a message     *)
(* around their rings, the server where it has gone round hands it to the  *)
(* client or sends it to other committees, and the client presents it.     *)
(*                                                                         *)
(* Each node's plugin runs on one handler thread, so a callback is one     *)
(* step.  A step sends packages, each on the connection of the rank the    *)
(* code picks; the SDK may refuse a send, a package may fail before or     *)
(* after it is delivered, and connections close and are replaced.          *)
(*                                                                         *)
(* A connection is known by its place in the ranked list of its            *)
(* destination, so that the list is its length.  Encryption, personas,     *)
(* link selection and hints, receive connections and readiness are left    *)
(* out; link and bootstrap messages are not routed and have no action, and *)
(* a message to oneself, presented at once, is not a message here.         *)
(***************************************************************************)
EXTENDS Integers, Sequences, FiniteSets, SequencesExt

CONSTANTS
    Servers, Clients, Messages,
    From, To,           \* the clients of each message
    Committee,          \* of each server
    Rings,              \* of each server: a sequence of [length, next]
    Reachable,          \* of each server: committee |-> the server it sends to
    ExitClients, CommitteeClients,
    Entrance,           \* of each client: the servers it sends to
    Group,              \* stands for the entrance committee as a destination
    FloodingFactor,
    Connected,          \* connections of each node to each destination
    MaxStale, MaxFlooded, MaxSeen,
    MaxFaults           \* bound: refusals, failures and closings together

FullFlooding == 0
Unset == -1

Nodes == Servers \union Clients
Destinations == Nodes \union {Group}
Committees == {Committee[s] : s \in Servers}

ASSUME RoutingAssumption ==
    /\ From \in [Messages -> Clients] /\ To \in [Messages -> Clients]
    /\ \A m \in Messages : From[m] # To[m]
    /\ Servers \intersect Clients = {} /\ Group \notin Nodes
    /\ \A s \in Servers :
           /\ Committee[s] \notin DOMAIN Reachable[s]
           /\ DOMAIN Reachable[s] \subseteq Committees /\ IsFiniteSet(DOMAIN Reachable[s])
           /\ \A c \in DOMAIN Reachable[s] :
                  Reachable[s][c] \in Servers /\ Committee[Reachable[s][c]] = c
           /\ Rings[s] \in Seq([length : Nat \ {0}, next : Servers])
           /\ \A i \in DOMAIN Rings[s] : Committee[Rings[s][i].next] = Committee[s]
           \* The servers of a committee have the same rings.
           /\ \A t \in Servers : Committee[t] = Committee[s] => Len(Rings[t]) = Len(Rings[s])
           /\ ExitClients[s] \subseteq Clients /\ CommitteeClients[s] \subseteq Clients
    /\ \A c \in Clients : Entrance[c] \in Seq(Servers) /\ IsInjective(Entrance[c])
    /\ Connected \in [Nodes -> [Destinations -> Nat]]
    /\ FloodingFactor \in Nat /\ MaxFaults \in Nat
    /\ MaxStale \in Nat /\ MaxFlooded \in Nat /\ MaxSeen \in Nat
    \* addFloodedUuid() trims by maxStaleUuids; it must not trim past the end.
    /\ MaxStale \div 10 <= MaxFlooded

VARIABLES
    net,        \* packages in flight, and late: delivered, yet to be reported failed
    stale,      \* staleUuids of each server
    flooded,    \* floodedUuids of each server
    seen,       \* seenMessages of each client
    conns,      \* uuidToConnectionsMap
    opening,    \* openingConnectionsMap
    submitted, presented,
    dropped,    \* messages of which some send was given up
    faults      \* of those MaxFaults bounds

vars == <<net, stale, flooded, seen, conns, opening, submitted, presented, dropped, faults>>

\* A copy has a hop left for each server of its ring still to come, or no ring.
Ttls == {Unset} \union UNION {UNION {0 .. Rings[s][i].length - 1 : i \in DOMAIN Rings[s]} :
                               s \in Servers}
Message == [m : Messages, ttl : Ttls, idx : Nat,
            visited : SUBSET Committees, sent : SUBSET Committees]
Package == [from : Nodes, to : Nodes, msg : Message, rank : Nat, late : BOOLEAN]

\* State: every package is one some node could have built, of a ring its
\* receiver has (rings.at(), rings[]), and the memories hold a message once.
TypeOK ==
    /\ IsABag(net) /\ BagToSet(net) \subseteq Package
    /\ \A p \in BagToSet(net) :
           p.to \in Servers /\ p.msg.ttl # Unset => p.msg.idx + 1 \in DOMAIN Rings[p.to]
    /\ {stale, flooded} \subseteq [Servers -> Seq(Messages)]
    /\ \A s \in Servers :
           /\ IsInjective(stale[s]) /\ Len(stale[s]) <= MaxStale + 1
           /\ IsInjective(flooded[s]) /\ Len(flooded[s]) <= MaxFlooded + 1
    /\ seen \in [Clients -> Seq(Messages)]
    /\ \A c \in Clients : IsInjective(seen[c]) /\ Len(seen[c]) <= MaxSeen + 1
    /\ conns \in [Nodes -> [Destinations -> Nat]]
    /\ opening \in [Nodes -> [Destinations -> Nat]]
    /\ submitted \subseteq Messages /\ dropped \subseteq submitted
    /\ presented \in [Clients -> [Messages -> Nat]]
    /\ faults \in 0 .. MaxFaults

Init ==
    /\ net = EmptyBag
    /\ stale = [s \in Servers |-> <<>>] /\ flooded = [s \in Servers |-> <<>>]
    /\ seen = [c \in Clients |-> <<>>]
    /\ conns = Connected /\ opening = [n \in Nodes |-> [d \in Destinations |-> 0]]
    /\ submitted = {} /\ dropped = {} /\ faults = 0
    /\ presented = [c \in Clients |-> [m \in Messages |-> 0]]

(***************************************************************************)
(* The memories: the oldest are trimmed before a message is added.  The    *)
(* set has a unique index, so that a message it holds is not added again.  *)
(***************************************************************************)
\* mutant
TrimsLate(uuids, max, by) ==
    IF Len(uuids) > max + 1 THEN SubSeq(uuids, (by \div 10) + 2, Len(uuids)) ELSE uuids

Trimmed(uuids, max, by) ==
    IF Len(uuids) > max THEN SubSeq(uuids, (by \div 10) + 2, Len(uuids)) ELSE uuids

Remember(uuids, m) == IF m \in ToSet(uuids) THEN uuids ELSE Append(uuids, m)

AddStale(uuids, m) == Remember(Trimmed(uuids, MaxStale, MaxStale), m)
AddFlooded(uuids, m) == Remember(Trimmed(uuids, MaxFlooded, MaxStale), m)
AddSeen(hashes, m) == Remember(Trimmed(hashes, MaxSeen, MaxSeen), m)

(***************************************************************************)
(* Sending: sendFormattedMsg() tries the rank it is given and, while the   *)
(* SDK refuses, the next ones of the list; a resend may start past the end *)
(* of the list, wraps once and is not tried again.                         *)
(***************************************************************************)
Tries(rank, from, to) ==
    LET n == conns[from][to]
    IN  IF n = 0 THEN 0 ELSE IF rank < n THEN n - rank ELSE 1

Send(from, to, msg) == [from |-> from, to |-> to, msg |-> msg]

\* The package of a send that was refused so many times before it was taken.
Packed(send, rank, refused) ==
    [from |-> send.from, to |-> send.to, msg |-> send.msg,
     rank |-> (rank + refused) % conns[send.from][send.to], late |-> FALSE]

\* The sends of one step, each refused k[s] times; rest is what else is in flight.
Transmit(sends, rank, rest, spent) ==
    \E k \in [sends -> 0 .. (MaxFaults - faults - spent)] :
        LET tries == [s \in sends |-> Tries(rank, s.from, s.to)]
            taken == {s \in sends : k[s] < tries[s]}
        IN  /\ \A s \in sends : k[s] <= tries[s]
            /\ faults' = faults + spent + SumFunction(k) /\ faults' <= MaxFaults
            /\ net' = rest (+) SetToBag({Packed(s, rank, k[s]) : s \in taken})
            /\ dropped' = dropped \union {s.msg.m : s \in sends \ taken}

\* A message as a client sends or gets it, parsed.
Plain(m) == [m |-> m, ttl |-> Unset, idx |-> 0, visited |-> {}, sent |-> {}]

(***************************************************************************)
(* The servers.                                                            *)
(***************************************************************************)
\* A copy for every ring.
OnRing(msg, ttl, idx) == [msg EXCEPT !.ttl = ttl, !.idx = idx]

RingSends(s, msg) ==
    {Send(s, Rings[s][i].next, OnRing(msg, Rings[s][i].length - 1, i - 1)) :
     i \in DOMAIN Rings[s]}

\* The message goes on along the ring it came by.
AlongRing(s, msg) == {Send(s, Rings[s][msg.idx + 1].next, msg)}

ToExitClient(s, msg) ==
    IF To[msg.m] \in ExitClients[s] THEN {Send(s, To[msg.m], Plain(msg.m))} ELSE {}

\* The sets of committees the loop over an unordered map may pick.
ChosenCommittees(s, msg) ==
    LET others == DOMAIN Reachable[s] \ (msg.visited \union msg.sent)
    IN  IF FloodingFactor = FullFlooding \/ Cardinality(others) <= FloodingFactor
        THEN {others} ELSE {cs \in SUBSET others : Cardinality(cs) = FloodingFactor}

\* mutant: one server too few is asked.
AsksRingEarly(s, msg, chosen) ==
    /\ Rings[s] # <<>>
    /\ \/ FloodingFactor = FullFlooding
       \/ Cardinality(chosen) + Cardinality(msg.sent) + 1 < FloodingFactor

\* Whether the committee's other servers are asked to send to theirs.
AsksRing(s, msg, chosen) ==
    /\ Rings[s] # <<>>
    /\ \/ FloodingFactor = FullFlooding
       \/ Cardinality(chosen) + Cardinality(msg.sent) < FloodingFactor

\* The copy for other committees, and the one for this committee's others.
Visited(s, msg) == [msg EXCEPT !.visited = @ \union {Committee[s]}]
OffRing(msg) == [msg EXCEPT !.ttl = Unset, !.sent = {}]
AlsoSent(msg, chosen) == [msg EXCEPT !.sent = @ \union chosen]

ForwardSends(s, msg, chosen) ==
    {Send(s, Reachable[s][c], OffRing(Visited(s, msg))) : c \in chosen}
        \union (IF AsksRing(s, msg, chosen)
                THEN {Send(s, Rings[s][1].next, AlsoSent(Visited(s, msg), chosen))}
                ELSE {})

\* rest and spent: what is in flight besides, the one received accounted for,
\* and the fault it is to have.
StartRing(s, msg, rest, spent) ==
    /\ msg.ttl = Unset /\ Rings[s] # <<>>
    /\ IF msg.m \in ToSet(stale[s])
       THEN Transmit({}, 0, rest, spent) /\ UNCHANGED stale
       ELSE /\ stale' = [stale EXCEPT ![s] = AddStale(@, msg.m)]
            /\ Transmit(RingSends(s, msg), 0, rest, spent)
    /\ UNCHANGED flooded

ContinueRing(s, msg, rest, spent) ==
    /\ msg.ttl > 0
    /\ stale' = [stale EXCEPT ![s] = AddStale(@, msg.m)]
    /\ Transmit(AlongRing(s, [msg EXCEPT !.ttl = @ - 1]), 0, rest, spent)
    /\ UNCHANGED flooded

EndRing(s, msg, rest, spent) ==
    /\ msg.ttl = 0 \/ (msg.ttl = Unset /\ Rings[s] = <<>>)
    /\ stale' = [stale EXCEPT ![s] = AddStale(@, msg.m)]
    /\ IF msg.m \in ToSet(flooded[s])
       THEN Transmit({}, 0, rest, spent) /\ UNCHANGED flooded
       ELSE /\ flooded' = [flooded EXCEPT ![s] = AddFlooded(@, msg.m)]
            /\ IF To[msg.m] \in CommitteeClients[s] /\ Rings[s] # <<>>
               THEN Transmit(ToExitClient(s, msg) \union AlongRing(s, msg), 0, rest, spent)
               ELSE \E chosen \in ChosenCommittees(s, msg) :
                        Transmit(ToExitClient(s, msg) \union ForwardSends(s, msg, chosen),
                                 0, rest, spent)

(***************************************************************************)
(* The clients.                                                            *)
(***************************************************************************)
\* mutant: presented, seen or not.
PresentAgain(c, m, rest, spent) ==
    /\ seen' = [seen EXCEPT ![c] = AddSeen(@, m)]
    /\ presented' = [presented EXCEPT ![c][m] = @ + 1]
    /\ net' = rest /\ faults' = faults + spent
    /\ UNCHANGED dropped

\* A client presents a message it has not seen.
Present(c, m, rest, spent) ==
    /\ IF m \in ToSet(seen[c])
       THEN UNCHANGED <<seen, presented>>
       ELSE /\ seen' = [seen EXCEPT ![c] = AddSeen(@, m)]
            /\ presented' = [presented EXCEPT ![c][m] = @ + 1]
    /\ net' = rest /\ faults' = faults + spent
    /\ UNCHANGED dropped

MulticastPackage(c, to, m) ==
    [from |-> c, to |-> to, msg |-> Plain(m), rank |-> 0, late |-> FALSE]

\* sendMulticastMsg: taken[i] is how many members, in order, the i-th attempt
\* sent to.  One that fails, after some members or, the flush failing, after
\* all, is made again in full on the next connection.
Multicast(c, m, taken) ==
    LET times(j) == Cardinality({i \in DOMAIN taken : j <= taken[i]})
        reached == {j \in DOMAIN Entrance[c] : times(j) > 0}
    IN  [p \in {MulticastPackage(c, Entrance[c][j], m) : j \in reached} |->
            times(CHOOSE j \in reached : Entrance[c][j] = p.to)]

\* The network manager is handed a message: multicast, else one by one.
SubmitMessage(m) ==
    LET c == From[m]
        members == Len(Entrance[c])
    IN  /\ m \notin submitted
        /\ submitted' = submitted \union {m}
        /\ seen' = [seen EXCEPT ![c] = AddSeen(@, m)]
        /\ \E failing \in 0 .. conns[c][Group] : \E taken \in [1 .. failing -> 0 .. members] :
               /\ faults + failing <= MaxFaults
               /\ IF failing < conns[c][Group]
                  THEN /\ net' = net (+) Multicast(c, m, Append(taken, members))
                       /\ faults' = faults + failing
                       /\ UNCHANGED dropped
                  ELSE Transmit({Send(c, Entrance[c][i], Plain(m)) : i \in 1 .. members},
                                0, net (+) Multicast(c, m, taken), failing)
        /\ UNCHANGED <<stale, flooded, conns, opening, presented>>

(***************************************************************************)
(* Packages: delivered; or reported as failed, before or after they        *)
(* arrived, and sent again on the next connection.  A report that all went *)
(* well only forgets what to send again, and has no action.                *)
(***************************************************************************)
Without(p) == net (-) SetToBag({p})

\* processEncPkg; the sender may yet be told that the package failed.
Deliver(p) ==
    \E late \in BOOLEAN :
        LET rest == IF late THEN Without(p) (+) SetToBag({[p EXCEPT !.late = TRUE]})
                    ELSE Without(p)
            spent == IF late THEN 1 ELSE 0
        IN  /\ ~p.late
            /\ late => faults < MaxFaults
            /\ \/ /\ p.to \in Servers
                  /\ \/ StartRing(p.to, p.msg, rest, spent)
                     \/ ContinueRing(p.to, p.msg, rest, spent)
                     \/ EndRing(p.to, p.msg, rest, spent)
                  /\ UNCHANGED <<seen, presented>>
               \/ /\ p.to \in Clients
                  /\ Present(p.to, p.msg.m, rest, spent)
                  /\ UNCHANGED <<stale, flooded>>
            /\ UNCHANGED <<conns, opening, submitted>>

\* onPackageStatusChanged: PACKAGE_FAILED.
PackageFails(p) ==
    /\ p.late \/ faults < MaxFaults
    /\ Transmit({Send(p.from, p.to, p.msg)}, p.rank + 1, Without(p), IF p.late THEN 0 ELSE 1)
    /\ UNCHANGED <<stale, flooded, seen, conns, opening, submitted, presented>>

(***************************************************************************)
(* Connections.                                                            *)
(***************************************************************************)
\* A replacement is opened, if there is a link for it and the SDK agrees.
ConnectionClosed(n, d) ==
    /\ conns[n][d] > 0 /\ faults < MaxFaults
    /\ conns' = [conns EXCEPT ![n][d] = @ - 1]
    /\ \/ opening' = [opening EXCEPT ![n][d] = @ + 1]
       \/ UNCHANGED opening
    /\ faults' = faults + 1
    /\ UNCHANGED <<net, stale, flooded, seen, submitted, presented, dropped>>

ConnectionOpened(n, d) ==
    /\ opening[n][d] > 0
    /\ opening' = [opening EXCEPT ![n][d] = @ - 1]
    /\ conns' = [conns EXCEPT ![n][d] = @ + 1]
    /\ UNCHANGED <<net, stale, flooded, seen, submitted, presented, dropped, faults>>

Progress == \E p \in BagToSet(net) : Deliver(p) \/ (p.late /\ PackageFails(p))

Next ==
    \/ \E m \in Messages : SubmitMessage(m)
    \/ \E p \in BagToSet(net) : Deliver(p)
    \/ \E p \in BagToSet(net) : PackageFails(p)
    \/ \E n \in Nodes, d \in Destinations : ConnectionClosed(n, d)
    \/ \E n \in Nodes, d \in Destinations : ConnectionOpened(n, d)

Spec == Init /\ [][Next]_vars

\* Every package is delivered or reported as failed in the end.
FairSpec == Spec /\ WF_vars(Progress)

(***************************************************************************)
(* Properties.                                                             *)
(***************************************************************************)
\* Safety: however many copies the rings, the committees and the resends make
\* of a message, its addressee presents it once, nobody else does, and only
\* after it was submitted (handleReceivedMsg).
PresentedOnce ==
    \A c \in Clients, m \in Messages :
        /\ presented[c][m] <= 1
        /\ presented[c][m] > 0 => m \in submitted /\ c = To[m]

\* Liveness: the copies of the messages die out (routeMsg: no ring, and no cycle
\* of committees, carries one for ever), and every message submitted is
\* presented, unless some node gave up a send of it.
Settles ==
    /\ <>[](net = EmptyBag)
    /\ \A m \in Messages :
           m \in submitted ~> (presented[To[m]][m] > 0 \/ m \in dropped)
=============================================================================
