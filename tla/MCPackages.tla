------------------------------ MODULE MCPackages ------------------------------
EXTENDS Packages

CONSTANTS l1, l2, p1, p2, p3, star, none

MCLinks == <<l1, l2>>
MCTime == (1 :> 3) @@ (2 :> 5) @@ (3 :> 7)
MCTarget == (1 :> star) @@ (2 :> l1) @@ (3 :> l1) @@ (4 :> l1)
MCSize == [p \in Packages |-> IF p = p1 THEN 10 ELSE 3]
MCRoute == [p \in Packages |-> IF p = p3 THEN l2 ELSE l1]
=============================================================================
