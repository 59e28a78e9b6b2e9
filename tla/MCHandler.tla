------------------------------ MODULE MCHandler ------------------------------
(* Instances of Handler for TLC. *)
EXTENDS Handler
CONSTANTS q0, qa, qb, w1, w2, w3

MCPriority == [q \in Queues |-> IF q = qb THEN 1 ELSE 0]
MCSize == [w \in Works |-> IF w = w1 THEN 2 ELSE 1]
\* any work may be posted to any queue
MCAnyTarget == [w \in Works |-> Queues]
\* work with a deadline stays away from the queues that may block
MCDisciplinedTarget == [w \in Works |-> IF w \in Timed THEN Queues \ MayBlock ELSE Queues]
\* two works that can refill the default queue for ever, and one on qa
MCRefillTarget == [w \in Works |-> IF w = w3 THEN {qa} ELSE {q0}]
=============================================================================
