------------------------------- MODULE MCRouting -------------------------------
\* Routing on a small instance: x enters and leaves by a committee of two
\* servers that can send to one other committee each; y's is one server.
EXTENDS Routing

CONSTANTS x, y, a1, a2, b1, d1, A, B, D, m1, m2, entrance

MCFrom == [m \in Messages |-> IF m = m1 THEN x ELSE y]
MCTo == [m \in Messages |-> IF m = m1 THEN y ELSE x]
MCCommittee == [s \in Servers |-> CASE s \in {a1, a2} -> A [] s = b1 -> B [] OTHER -> D]
MCRings == [s \in Servers |-> CASE s = a1 -> <<[length |-> 2, next |-> a2]>>
                                [] s = a2 -> <<[length |-> 2, next |-> a1]>>
                                [] OTHER -> <<>>]
MCReachable == [s \in Servers |-> CASE s = a1 -> [c \in {B} |-> b1]
                                    [] s = a2 -> [c \in {D} |-> d1]
                                    [] s = b1 -> [c \in {A} |-> a1]
                                    [] OTHER -> [c \in {A} |-> a2]]
MCExitClients == [s \in Servers |-> CASE s = a2 -> {x} [] s = b1 -> {y} [] OTHER -> {}]
MCCommitteeClients == [s \in Servers |-> CASE s \in {a1, a2} -> {x} [] s = b1 -> {y} [] OTHER -> {}]
MCEntrance == [c \in Clients |-> IF c = x THEN <<a1, a2>> ELSE <<b1>>]
\* Connections are made to those a node sends to, x's entrance as a group too.
MCConnected ==
    LET to == [n \in Nodes |-> CASE n = x -> {entrance, a1, a2} [] n = y -> {b1}
                                 [] n = a1 -> {a2, b1} [] n = a2 -> {a1, x, d1}
                                 [] n = b1 -> {a1, y} [] OTHER -> {a2}]
        twice == {<<x, a1>>, <<a1, b1>>}
    IN  [n \in Nodes |-> [d \in Destinations |->
            IF d \notin to[n] THEN 0 ELSE IF <<n, d>> \in twice THEN 2 ELSE 1]]
=============================================================================
