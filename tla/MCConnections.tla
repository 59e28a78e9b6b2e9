---------------------------- MODULE MCConnections ----------------------------
\* Connections on small instances.
EXTENDS Connections, TLC

CONSTANTS l1, c1, c2, p1, p2, th, tc, t1, none

MCLinkOf == [c \in Conns |-> l1]
\* All connections are timed, so they differ in nothing but their names.
MCSymmetry == Permutations(Conns) \union Permutations(Packages)
=============================================================================
