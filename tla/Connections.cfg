\* One link, two connections and two packages; one callback thread beside the
\* handler's and the one that shuts the plugin down.
CONSTANTS
    l1 = l1  c1 = c1  c2 = c2  p1 = p1  p2 = p2
    th = th  tc = tc  t1 = t1  none = none
    Links = {l1}
    Conns = {c1, c2}
    Packages = {p1, p2}
    LinkOf <- MCLinkOf
    Timed = {c1, c2}
    Threads = {th, tc, t1}
    HandlerThread = th
    Cleaner = tc
    MaxQueued = 1
    MaxChannelCalls = 2
    None = none
    Orderly = TRUE
SYMMETRY MCSymmetry
SPECIFICATION Spec
INVARIANTS TypeOK  NmViewRight SendableWhileOpen
CHECK_DEADLOCK FALSE
