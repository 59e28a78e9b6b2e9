---------------------------- MODULE MCVoaThread ----------------------------
(* Instances of VoaThread for TLC. *)
EXTENDS VoaThread
CONSTANTS p1, p2, p3

\* p1 is replayed once, the others delayed or tampered with
MCCopies == [p \in Packages |-> IF p = p1 THEN 2 ELSE 1]
=============================================================================
