---------------------------- MODULE HandlerContract ----------------------------
(***************************************************************************)
(* What racesdk/core/source/Handler.h promises to those who post work:     *)
(* each queue is first in, first out; one work runs at a time, and only    *)
(* the first of a queue that is not blocked and that no queue of higher    *)
(* priority with work can precede; accepted work is taken out once, after  *)
(* its callback returned a value, because it expired while not running, or *)
(* because everything was dropped while nothing ran.                       *)
(***************************************************************************)
EXTENDS Integers, Sequences, FiniteSets, SequencesExt

CONSTANTS Works, Queues, Priority, NoWork

VARIABLES pending, running, blocked
vars == <<pending, running, blocked>>

Init == /\ pending = [q \in Queues |-> << >>]
        /\ running = NoWork /\ blocked = {}

Holds(q, w) == w \in Range(pending[q])

\* post() accepts w on q
Accept(w, q) ==
    /\ \A r \in Queues : ~Holds(r, w)
    /\ pending' = [pending EXCEPT ![q] = Append(@, w)]
    /\ UNCHANGED <<running, blocked>>

\* the callback of the first work of q is called
Begin(q) ==
    /\ running = NoWork /\ q \notin blocked /\ pending[q] # << >>
    /\ \A r \in Queues \ blocked : pending[r] # << >> => Priority[r] <= Priority[q]
    /\ running' = Head(pending[q])
    /\ UNCHANGED <<pending, blocked>>

\* it returns a value, and the work is over
Complete(q) ==
    /\ running # NoWork /\ pending[q] # << >> /\ Head(pending[q]) = running
    /\ pending' = [pending EXCEPT ![q] = Tail(@)]
    /\ running' = NoWork /\ UNCHANGED blocked

\* it returns nothing: the queue is blocked and keeps its work
Block(q) ==
    /\ running # NoWork /\ pending[q] # << >> /\ Head(pending[q]) = running
    /\ blocked' = blocked \cup {q}
    /\ running' = NoWork /\ UNCHANGED pending

Unblock(S) ==
    /\ blocked' = blocked \ S /\ UNCHANGED <<pending, running>>

\* work that is not running expires
Expire(w, q) ==
    /\ Holds(q, w) /\ w # running
    /\ pending' = [pending EXCEPT ![q] = RemoveFirst(@, w)]
    /\ UNCHANGED <<running, blocked>>

\* the handler has stopped
DropAll ==
    /\ running = NoWork
    /\ pending' = [q \in Queues |-> << >>] /\ blocked' = {}
    /\ UNCHANGED running

Next ==
    \/ \E w \in Works, q \in Queues : Accept(w, q) \/ Expire(w, q)
    \/ \E q \in Queues : Begin(q) \/ Complete(q) \/ Block(q)
    \/ \E S \in SUBSET Queues : Unblock(S)
    \/ DropAll

Spec == Init /\ [][Next]_vars
================================================================================
