----------------------------- MODULE RoutingProofs -----------------------------
(* Messages of module Routing are presented once, by their addressee, for any *)
(* network of clients and committees, any number of messages that the clients *)
(* remember, and any number of faults; and the types of the module, whatever  *)
(* the clients remember.                                                      *)
EXTENDS Routing, DataLemmas, FiniteSetTheorems, SequenceTheorems, TLAPS

--------------------------------------------------------------------------------
(* The inductive invariant                                                    *)

MessageRecord == [m : Messages, ttl : Int, idx : Nat,
                  visited : SUBSET Committees, sent : SUBSET Committees]

\* A message on its way to a node: submitted before, addressed to the client
\* it goes to, and on a ring the server it goes to has.
Routed(to, msg, done) ==
    /\ msg \in MessageRecord /\ msg.m \in done
    /\ to \in Servers \/ to = To[msg.m]
    /\ to \in Servers /\ msg.ttl # Unset => msg.idx + 1 \in DOMAIN Rings[to]

NetRouted == \A p \in BagToSet(net) : Routed(p.to, p.msg, submitted)

SeenOnce ==
    \A c \in Clients :
        seen[c] \in Seq(Messages) /\ IsInjective(seen[c]) /\ ToSet(seen[c]) \subseteq submitted

PresentedSeen ==
    /\ presented \in [Clients -> [Messages -> Nat]]
    /\ \A c \in Clients, m \in Messages :
           /\ presented[c][m] <= 1
           /\ presented[c][m] > 0 => m \in ToSet(seen[c]) /\ c = To[m]

RInv ==
    /\ submitted \subseteq Messages /\ seen \in [Clients -> Seq(Messages)]
    /\ NetRouted /\ SeenOnce /\ PresentedSeen

\* The clients remember as many messages as there are.
Remembered == IsFiniteSet(Messages) /\ Cardinality(Messages) <= MaxSeen + 1

--------------------------------------------------------------------------------
(* The memory of a client, and bags                                           *)

LEMMA FreshIsShort ==
    ASSUME Remembered, NEW hashes \in Seq(Messages), IsInjective(hashes),
           NEW m \in Messages, m \notin ToSet(hashes)
    PROVE  Len(hashes) <= MaxSeen
<1>. DEFINE others == Messages \ {m}
<1>1. IsFiniteSet(others) /\ Cardinality(others) = Cardinality(Messages) - 1
  BY FS_RemoveElement DEF Remembered
<1>2. hashes \in [1 .. Len(hashes) -> Messages] /\ Len(hashes) \in Nat  OBVIOUS
<1>3. \A i \in 1 .. Len(hashes) : hashes[i] \in others
  BY <1>2 DEF ToSet
<1>4. hashes \in Injection(1 .. Len(hashes), others)
  BY <1>2, <1>3 DEF Injection, IsInjective
<1>5. Cardinality(1 .. Len(hashes)) <= Cardinality(others)
  BY <1>1, <1>4, FS_Injection
<1>6. Cardinality(1 .. Len(hashes)) = Len(hashes)
  <2>1. \A a, b \in Int : Cardinality(a .. b) = IF a > b THEN 0 ELSE b - a + 1
    BY FS_Interval
  <2>2. Cardinality(1 .. Len(hashes)) = IF 1 > Len(hashes) THEN 0 ELSE Len(hashes) - 1 + 1
    BY <1>2, <2>1
  <2>. QED BY <1>2, <2>2
<1>7. Cardinality(Messages) \in Nat  BY FS_CardinalityType DEF Remembered
<1>. QED BY <1>1, <1>2, <1>5, <1>6, <1>7, RoutingAssumption DEF Remembered

LEMMA AddSeenFresh ==
    ASSUME Remembered, NEW hashes \in Seq(Messages), IsInjective(hashes),
           NEW m \in Messages, m \notin ToSet(hashes)
    PROVE  /\ AddSeen(hashes, m) \in Seq(Messages)
           /\ IsInjective(AddSeen(hashes, m))
           /\ ToSet(AddSeen(hashes, m)) = ToSet(hashes) \union {m}
<1>1. AddSeen(hashes, m) = Append(hashes, m)
  <2>1. Trimmed(hashes, MaxSeen, MaxSeen) = hashes
    BY FreshIsShort, RoutingAssumption DEF Trimmed
  <2>. QED BY <2>1 DEF AddSeen, Remember
<1>2. /\ Append(hashes, m) \in Seq(Messages) /\ Len(Append(hashes, m)) = Len(hashes) + 1
      /\ \A i \in 1 .. Len(hashes) : Append(hashes, m)[i] = hashes[i]
      /\ Append(hashes, m)[Len(hashes) + 1] = m
      /\ DOMAIN Append(hashes, m) = 1 .. Len(hashes) + 1
      /\ DOMAIN hashes = 1 .. Len(hashes) /\ Len(hashes) \in Nat
  OBVIOUS
<1>3. \A i \in 1 .. Len(hashes) : hashes[i] # m
  BY <1>2 DEF ToSet
<1>4. IsInjective(Append(hashes, m))
  BY <1>2, <1>3 DEF IsInjective
<1>5. ToSet(Append(hashes, m)) = ToSet(hashes) \union {m}
  BY <1>2 DEF ToSet
<1>. QED BY <1>1, <1>2, <1>4, <1>5

LEMMA UnionOfBags ==
    ASSUME NEW B1, NEW B2
    PROVE  BagToSet(B1 (+) B2) = BagToSet(B1) \union BagToSet(B2)
BY DEF BagToSet, (+)

LEMMA LessOneBag ==
    ASSUME NEW p
    PROVE  BagToSet(Without(p)) \subseteq BagToSet(net)
BY DEF BagToSet, Without, (-)

LEMMA BagOfSet ==
    ASSUME NEW S
    PROVE  BagToSet(SetToBag(S)) = S
BY DEF BagToSet, SetToBag

--------------------------------------------------------------------------------
(* Sending                                                                    *)

\* A step that sends what is routed, beside what was, leaves what is routed.
LEMMA TransmitRouted ==
    ASSUME NEW sends, NEW rank, NEW rest, NEW spent, NEW done,
           Transmit(sends, rank, rest, spent),
           \A p \in BagToSet(rest) : Routed(p.to, p.msg, done),
           \A s \in sends : Routed(s.to, s.msg, done)
    PROVE  \A p \in BagToSet(net') : Routed(p.to, p.msg, done)
<1>1. PICK k \in [sends -> 0 .. (MaxFaults - faults - spent)] :
          LET tries == [s \in sends |-> Tries(rank, s.from, s.to)]
              taken == {s \in sends : k[s] < tries[s]}
          IN  net' = rest (+) SetToBag({Packed(s, rank, k[s]) : s \in taken})
  BY DEF Transmit
<1>. DEFINE taken == {s \in sends : k[s] < [t \in sends |-> Tries(rank, t.from, t.to)][s]}
            packed == {Packed(s, rank, k[s]) : s \in taken}
<1>2. BagToSet(net') = BagToSet(rest) \union packed
  <2>1. net' = rest (+) SetToBag(packed)  BY <1>1
  <2>. HIDE DEF packed
  <2>. QED BY <2>1, UnionOfBags, BagOfSet
<1>3. ASSUME NEW p \in packed PROVE Routed(p.to, p.msg, done)
  <2>1. PICK s \in sends : p = Packed(s, rank, k[s])  OBVIOUS
  <2>2. p.to = s.to /\ p.msg = s.msg  BY <2>1 DEF Packed
  <2>. QED BY <2>2
<1>. QED BY <1>2, <1>3

LEMMA RingNext ==
    ASSUME NEW s \in Servers, NEW i \in DOMAIN Rings[s]
    PROVE  /\ Rings[s][i].next \in Servers /\ Rings[s][i].length - 1 \in Nat
           /\ DOMAIN Rings[Rings[s][i].next] = DOMAIN Rings[s]
<1>1. Rings[s] \in Seq([length : Nat \ {0}, next : Servers])  BY RoutingAssumption
<1>2. Rings[s][i] \in [length : Nat \ {0}, next : Servers]
  <2>. DEFINE R == [length : Nat \ {0}, next : Servers]
  <2>1. \A r \in Seq(R) : \A j \in DOMAIN r : r[j] \in R
    <3>. HIDE DEF R
    <3>. QED OBVIOUS
  <2>. QED BY <1>1, <2>1
<1>3. Rings[s][i].next \in Servers  BY <1>2
<1>4. Rings[s][i].length - 1 \in Nat  BY <1>2
<1>5. Len(Rings[Rings[s][i].next]) = Len(Rings[s])
  BY <1>3, RoutingAssumption
<1>6. Rings[Rings[s][i].next] \in Seq([length : Nat \ {0}, next : Servers])
  BY <1>3, RoutingAssumption
<1>7. \A r \in Seq([length : Nat \ {0}, next : Servers]) : DOMAIN r = 1 .. Len(r)
  OBVIOUS
<1>. QED BY <1>1, <1>3, <1>4, <1>5, <1>6, <1>7

\* Copies of a message that differ in what a server sets.
LEMMA CopiesOfMessage ==
    ASSUME NEW msg \in MessageRecord, NEW s \in Servers
    PROVE  /\ \A ttl \in Int, idx \in Nat :
                  /\ OnRing(msg, ttl, idx) \in MessageRecord
                  /\ OnRing(msg, ttl, idx).m = msg.m /\ OnRing(msg, ttl, idx).idx = idx
           /\ /\ OffRing(msg) \in MessageRecord
              /\ OffRing(msg).m = msg.m /\ OffRing(msg).ttl = Unset
           /\ /\ Visited(s, msg) \in MessageRecord /\ Visited(s, msg).m = msg.m
              /\ Visited(s, msg).ttl = msg.ttl /\ Visited(s, msg).idx = msg.idx
           /\ \A chosen \in SUBSET Committees :
                  /\ AlsoSent(msg, chosen) \in MessageRecord
                  /\ AlsoSent(msg, chosen).m = msg.m /\ AlsoSent(msg, chosen).idx = msg.idx
<1>1. ASSUME NEW ttl \in Int, NEW idx \in Nat
      PROVE  /\ OnRing(msg, ttl, idx) \in MessageRecord
             /\ OnRing(msg, ttl, idx).m = msg.m /\ OnRing(msg, ttl, idx).idx = idx
  <2>. DEFINE first == [msg EXCEPT !.ttl = ttl]
  <2>1. first \in MessageRecord /\ first.m = msg.m  BY DEF MessageRecord
  <2>2. OnRing(msg, ttl, idx) = [first EXCEPT !.idx = idx]  BY DEF OnRing
  <2>. HIDE DEF first
  <2>. QED BY <2>1, <2>2 DEF MessageRecord
<1>2. /\ OffRing(msg) \in MessageRecord
      /\ OffRing(msg).m = msg.m /\ OffRing(msg).ttl = Unset
  <2>. DEFINE first == [msg EXCEPT !.ttl = Unset]
  <2>1. first \in MessageRecord /\ first.m = msg.m /\ first.ttl = Unset
    BY DEF MessageRecord, Unset
  <2>2. OffRing(msg) = [first EXCEPT !.sent = {}]  BY DEF OffRing
  <2>. HIDE DEF first
  <2>. QED BY <2>1, <2>2 DEF MessageRecord
<1>3. /\ Visited(s, msg) \in MessageRecord /\ Visited(s, msg).m = msg.m
      /\ Visited(s, msg).ttl = msg.ttl /\ Visited(s, msg).idx = msg.idx
  BY DEF Visited, MessageRecord, Committees
<1>4. ASSUME NEW chosen \in SUBSET Committees
      PROVE  /\ AlsoSent(msg, chosen) \in MessageRecord
             /\ AlsoSent(msg, chosen).m = msg.m /\ AlsoSent(msg, chosen).idx = msg.idx
  BY DEF AlsoSent, MessageRecord
<1>. QED BY <1>1, <1>2, <1>3, <1>4

LEMMA SendParts ==
    ASSUME NEW from, NEW to, NEW msg
    PROVE  Send(from, to, msg).to = to /\ Send(from, to, msg).msg = msg
BY DEF Send

\* What a server does with a message leaves its addressee and its identity alone.
LEMMA SendsRouted ==
    ASSUME NEW s \in Servers, NEW msg, NEW done, Routed(s, msg, done)
    PROVE  /\ Rings[s] # <<>> => \A t \in RingSends(s, msg) : Routed(t.to, t.msg, done)
           /\ msg.ttl # Unset => \A t \in AlongRing(s, msg) : Routed(t.to, t.msg, done)
           /\ \A t \in ToExitClient(s, msg) : Routed(t.to, t.msg, done)
           /\ \A chosen \in ChosenCommittees(s, msg) :
                  \A t \in ForwardSends(s, msg, chosen) :
                      (msg.ttl # Unset \/ Rings[s] = <<>>) => Routed(t.to, t.msg, done)
<1>1. /\ msg \in MessageRecord /\ msg.m \in done
      /\ msg.ttl # Unset => msg.idx + 1 \in DOMAIN Rings[s]
  BY DEF Routed
<1>2. ASSUME NEW t \in RingSends(s, msg) PROVE Routed(t.to, t.msg, done)
  <2>1. PICK i \in DOMAIN Rings[s] :
            t = Send(s, Rings[s][i].next, OnRing(msg, Rings[s][i].length - 1, i - 1))
    BY DEF RingSends
  <2>2. i \in Nat /\ i >= 1
    BY RoutingAssumption
  <2>3. Rings[s][i].next \in Servers /\ Rings[s][i].length - 1 \in Int
        /\ DOMAIN Rings[Rings[s][i].next] = DOMAIN Rings[s]
    BY RingNext
  <2>4. t.to = Rings[s][i].next /\ t.msg = OnRing(msg, Rings[s][i].length - 1, i - 1)
    BY <2>1, SendParts
  <2>5. t.msg \in MessageRecord /\ t.msg.m = msg.m /\ t.msg.idx = i - 1
    BY <2>2, <2>3, <2>4, <1>1, CopiesOfMessage
  <2>. QED BY <2>2, <2>3, <2>4, <2>5, <1>1 DEF Routed
<1>3. ASSUME msg.ttl # Unset, NEW t \in AlongRing(s, msg) PROVE Routed(t.to, t.msg, done)
  <2>. DEFINE i == msg.idx + 1
  <2>1. t.to = Rings[s][i].next /\ t.msg = msg
    BY SendParts DEF AlongRing
  <2>2. Rings[s][i].next \in Servers /\ DOMAIN Rings[Rings[s][i].next] = DOMAIN Rings[s]
    BY <1>1, <1>3, RingNext
  <2>. QED BY <2>1, <2>2, <1>1, <1>3 DEF Routed
<1>4. ASSUME NEW t \in ToExitClient(s, msg) PROVE Routed(t.to, t.msg, done)
  <2>1. /\ t = Send(s, To[msg.m], Plain(msg.m)) /\ To[msg.m] \in ExitClients[s]
    BY DEF ToExitClient
  <2>2. t.to = To[msg.m] /\ t.msg = Plain(msg.m)
    BY <2>1, SendParts
  <2>3. t.msg \in MessageRecord /\ t.msg.m = msg.m /\ t.msg.ttl = Unset
    BY <2>2, <1>1 DEF Plain, MessageRecord, Unset
  <2>. QED BY <2>2, <2>3, <1>1 DEF Routed
<1>5. ASSUME NEW chosen \in ChosenCommittees(s, msg), NEW t \in ForwardSends(s, msg, chosen),
             msg.ttl # Unset \/ Rings[s] = <<>>
      PROVE  Routed(t.to, t.msg, done)
  <2>. DEFINE visited == Visited(s, msg)
  <2>1. visited \in MessageRecord /\ visited.m = msg.m /\ visited.ttl = msg.ttl
        /\ visited.idx = msg.idx
    BY <1>1, CopiesOfMessage
  <2>2. chosen \subseteq DOMAIN Reachable[s] /\ chosen \subseteq Committees
    <3>1. chosen \subseteq DOMAIN Reachable[s]  BY DEF ChosenCommittees
    <3>. QED BY <3>1, RoutingAssumption
  <2>. HIDE DEF visited
  <2>3. CASE \E c \in chosen : t = Send(s, Reachable[s][c], OffRing(visited))
    <3>1. PICK c \in chosen : t = Send(s, Reachable[s][c], OffRing(visited))
      BY <2>3
    <3>2. t.to = Reachable[s][c] /\ t.msg = OffRing(visited)
      BY <3>1, SendParts
    <3>3. t.to \in Servers  BY <3>2, <2>2, RoutingAssumption
    <3>4. t.msg \in MessageRecord /\ t.msg.m = msg.m /\ t.msg.ttl = Unset
      BY <3>2, <2>1, CopiesOfMessage
    <3>. QED BY <3>3, <3>4, <1>1 DEF Routed
  <2>4. CASE AsksRing(s, msg, chosen) /\ t = Send(s, Rings[s][1].next, AlsoSent(visited, chosen))
    <3>1. Rings[s] # <<>> /\ msg.ttl # Unset  BY <2>4, <1>5 DEF AsksRing
    <3>2. 1 \in DOMAIN Rings[s]  BY <3>1, RoutingAssumption
    <3>3. Rings[s][1].next \in Servers /\ DOMAIN Rings[Rings[s][1].next] = DOMAIN Rings[s]
      BY <3>2, RingNext
    <3>4. t.to = Rings[s][1].next /\ t.msg = AlsoSent(visited, chosen)
      BY <2>4, SendParts
    <3>5. t.msg \in MessageRecord /\ t.msg.m = msg.m /\ t.msg.idx = msg.idx
      BY <3>4, <2>1, <2>2, CopiesOfMessage
    <3>. QED BY <3>1, <3>3, <3>4, <3>5, <1>1 DEF Routed
  <2>. QED BY <2>3, <2>4 DEF ForwardSends, visited
<1>. QED BY <1>2, <1>3, <1>4, <1>5

--------------------------------------------------------------------------------
(* The steps                                                                  *)

\* Other nodes' steps leave a client's memory and presentations alone.
LEMMA SubmitKeeps ==
    ASSUME Remembered, RInv, NEW m \in Messages, SubmitMessage(m)
    PROVE  RInv'
<1>. DEFINE c == From[m]
<1>1. c \in Clients /\ c # To[m] /\ m \notin submitted  BY RoutingAssumption DEF SubmitMessage
<1>2. /\ submitted' = submitted \union {m} /\ presented' = presented
      /\ seen' = [seen EXCEPT ![c] = AddSeen(@, m)]
  BY DEF SubmitMessage
<1>3. seen[c] \in Seq(Messages) /\ IsInjective(seen[c]) /\ m \notin ToSet(seen[c])
  BY <1>1 DEF RInv, SeenOnce
<1>4. /\ AddSeen(seen[c], m) \in Seq(Messages) /\ IsInjective(AddSeen(seen[c], m))
      /\ ToSet(AddSeen(seen[c], m)) = ToSet(seen[c]) \union {m}
  BY <1>3, AddSeenFresh
<1>5. /\ seen'[c] = AddSeen(seen[c], m)
      /\ \A d \in Clients : d # c => seen'[d] = seen[d]
      /\ seen' \in [Clients -> Seq(Messages)]
  BY <1>1, <1>2, <1>4 DEF RInv
<1>6. SeenOnce'  BY <1>1, <1>2, <1>4, <1>5 DEF RInv, SeenOnce
<1>7. PresentedSeen'  BY <1>1, <1>2, <1>4, <1>5 DEF RInv, PresentedSeen
<1>8. NetRouted'
  <2>. DEFINE done == submitted \union {m}
  <2>1. \A p \in BagToSet(net) : Routed(p.to, p.msg, done)
    BY DEF RInv, NetRouted, Routed
  <2>2. /\ Plain(m) \in MessageRecord /\ Plain(m).m = m /\ Plain(m).ttl = Unset
    BY DEF Plain, MessageRecord, Unset
  <2>3. \A to \in Servers : Routed(to, Plain(m), done)
    BY <2>2 DEF Routed
  <2>4. \A i \in DOMAIN Entrance[c] : Entrance[c][i] \in Servers
    BY <1>1, RoutingAssumption
  <2>5. \A taken : \A p \in BagToSet(Multicast(c, m, taken)) : Routed(p.to, p.msg, done)
    <3>1. SUFFICES ASSUME NEW taken, NEW p \in BagToSet(Multicast(c, m, taken))
                   PROVE  Routed(p.to, p.msg, done)
      OBVIOUS
    <3>2. PICK i \in DOMAIN Entrance[c] : p = MulticastPackage(c, Entrance[c][i], m)
      BY DEF Multicast, BagToSet
    <3>3. p.to = Entrance[c][i] /\ p.msg = Plain(m)  BY <3>2 DEF MulticastPackage
    <3>. QED BY <3>3, <2>3, <2>4
  <2>6. \A taken : \A p \in BagToSet(net (+) Multicast(c, m, taken)) :
                       Routed(p.to, p.msg, done)
    BY <2>1, <2>5, UnionOfBags
  <2>7. \A t \in {Send(c, Entrance[c][i], Plain(m)) : i \in 1 .. Len(Entrance[c])} :
            Routed(t.to, t.msg, done)
    <3>1. \A i \in 1 .. Len(Entrance[c]) : Entrance[c][i] \in Servers
      BY <2>4, <1>1, RoutingAssumption
    <3>2. ASSUME NEW i \in 1 .. Len(Entrance[c])
          PROVE  LET t == Send(c, Entrance[c][i], Plain(m)) IN Routed(t.to, t.msg, done)
      <4>1. /\ Send(c, Entrance[c][i], Plain(m)).to = Entrance[c][i]
            /\ Send(c, Entrance[c][i], Plain(m)).msg = Plain(m)
        BY SendParts
      <4>2. Routed(Entrance[c][i], Plain(m), done)  BY <3>1, <2>3
      <4>. QED BY <4>1, <4>2
    <3>. QED BY <3>2
  <2>8. \A p \in BagToSet(net') : Routed(p.to, p.msg, done)
    <3>1. PICK failing \in 0 .. conns[c][Group] :
              \E taken \in [1 .. failing -> 0 .. Len(Entrance[c])] :
                  IF failing < conns[c][Group]
                  THEN net' = net (+) Multicast(c, m, Append(taken, Len(Entrance[c])))
                  ELSE Transmit({Send(c, Entrance[c][i], Plain(m)) :
                                 i \in 1 .. Len(Entrance[c])},
                                0, net (+) Multicast(c, m, taken), failing)
      BY DEF SubmitMessage
    <3>2. PICK taken :
              \/ net' = net (+) Multicast(c, m, Append(taken, Len(Entrance[c])))
              \/ Transmit({Send(c, Entrance[c][i], Plain(m)) :
                           i \in 1 .. Len(Entrance[c])},
                          0, net (+) Multicast(c, m, taken), failing)
      BY <3>1
    <3>. HIDE DEF done, c
    <3>3. CASE net' = net (+) Multicast(c, m, Append(taken, Len(Entrance[c])))
      BY <3>3, <2>6
    <3>4. CASE Transmit({Send(c, Entrance[c][i], Plain(m)) :
                         i \in 1 .. Len(Entrance[c])},
                        0, net (+) Multicast(c, m, taken), failing)
      BY <3>4, <2>6, <2>7, TransmitRouted
    <3>. QED BY <3>2, <3>3, <3>4
  <2>. QED BY <2>8, <1>2 DEF NetRouted
<1>. QED BY <1>2, <1>5, <1>6, <1>7, <1>8 DEF RInv

LEMMA DeliverKeeps ==
    ASSUME Remembered, RInv, NEW p \in BagToSet(net), Deliver(p)
    PROVE  RInv'
<1>1. Routed(p.to, p.msg, submitted)  BY DEF RInv, NetRouted
<1>2. PICK rest \in {Without(p), Without(p) (+) SetToBag({[p EXCEPT !.late = TRUE]})},
               spent \in {0, 1} :
          /\ \/ /\ p.to \in Servers
                /\ \/ StartRing(p.to, p.msg, rest, spent)
                   \/ ContinueRing(p.to, p.msg, rest, spent)
                   \/ EndRing(p.to, p.msg, rest, spent)
                /\ UNCHANGED <<seen, presented>>
             \/ /\ p.to \in Clients
                /\ Present(p.to, p.msg.m, rest, spent)
          /\ UNCHANGED submitted
  BY DEF Deliver
<1>3. \A q \in BagToSet(rest) : Routed(q.to, q.msg, submitted)
  <2>1. \A q \in BagToSet(net) : Routed(q.to, q.msg, submitted)  BY DEF RInv, NetRouted
  <2>. DEFINE again == [p EXCEPT !.late = TRUE]
  <2>2. Routed(again.to, again.msg, submitted)
    <3>1. again.to = p.to /\ again.msg = p.msg  OBVIOUS
    <3>. QED BY <3>1, <1>1
  <2>. HIDE DEF again
  <2>3. \A q \in BagToSet(Without(p)) : Routed(q.to, q.msg, submitted)
    BY <2>1, LessOneBag
  <2>4. \A q \in BagToSet(Without(p) (+) SetToBag({again})) : Routed(q.to, q.msg, submitted)
    BY <2>2, <2>3, UnionOfBags, BagOfSet
  <2>. QED BY <1>2, <2>3, <2>4 DEF again
<1>4. CASE /\ p.to \in Servers
           /\ \/ StartRing(p.to, p.msg, rest, spent)
              \/ ContinueRing(p.to, p.msg, rest, spent)
              \/ EndRing(p.to, p.msg, rest, spent)
           /\ UNCHANGED <<seen, presented>>
  <2>. DEFINE s == p.to
              msg == p.msg
  <2>1. SUFFICES \A q \in BagToSet(net') : Routed(q.to, q.msg, submitted)
    BY <1>2, <1>4 DEF RInv, NetRouted, SeenOnce, PresentedSeen
  <2>2. PICK sends : Transmit(sends, 0, rest, spent)
                     /\ \A t \in sends : Routed(t.to, t.msg, submitted)
    <3>1. CASE StartRing(s, msg, rest, spent)
      <4>1. \/ Transmit({}, 0, rest, spent)
            \/ Rings[s] # <<>> /\ Transmit(RingSends(s, msg), 0, rest, spent)
        BY <3>1 DEF StartRing
      <4>. QED BY <4>1, <1>1, <1>4, SendsRouted
    <3>2. CASE ContinueRing(s, msg, rest, spent)
      <4>. DEFINE next == [msg EXCEPT !.ttl = @ - 1]
      <4>1. Transmit(AlongRing(s, next), 0, rest, spent) /\ msg.ttl > 0
        BY <3>2 DEF ContinueRing
      <4>2. next \in MessageRecord /\ next.m = msg.m /\ next.idx = msg.idx
            /\ next.ttl = msg.ttl - 1 /\ msg.ttl \in Int
        BY <1>1 DEF Routed, MessageRecord
      <4>. HIDE DEF next
      <4>3. Routed(s, next, submitted) /\ next.ttl # Unset
        BY <4>1, <4>2, <1>1, <1>4 DEF Routed, Unset
      <4>. QED BY <4>1, <4>3, <1>4, SendsRouted
    <3>3. CASE EndRing(s, msg, rest, spent)
      <4>1. msg.ttl # Unset \/ Rings[s] = <<>>
        BY <3>3 DEF EndRing, Unset
      <4>2. \/ Transmit({}, 0, rest, spent)
            \/ /\ Rings[s] # <<>>
               /\ Transmit(ToExitClient(s, msg) \union AlongRing(s, msg), 0, rest, spent)
            \/ \E chosen \in ChosenCommittees(s, msg) :
                   Transmit(ToExitClient(s, msg) \union ForwardSends(s, msg, chosen),
                            0, rest, spent)
        BY <3>3 DEF EndRing
      <4>3. /\ \A t \in ToExitClient(s, msg) : Routed(t.to, t.msg, submitted)
            /\ Rings[s] # <<>> => \A t \in AlongRing(s, msg) : Routed(t.to, t.msg, submitted)
            /\ \A chosen \in ChosenCommittees(s, msg) :
                   \A t \in ForwardSends(s, msg, chosen) : Routed(t.to, t.msg, submitted)
        BY <4>1, <1>1, <1>4, SendsRouted
      <4>. DEFINE out(extra) == ToExitClient(s, msg) \union extra
      <4>4. PICK sends : /\ Transmit(sends, 0, rest, spent)
                         /\ \/ sends = {}
                            \/ Rings[s] # <<>> /\ sends = out(AlongRing(s, msg))
                            \/ \E chosen \in ChosenCommittees(s, msg) :
                                   sends = out(ForwardSends(s, msg, chosen))
        BY <4>2
      <4>5. \A t \in sends : Routed(t.to, t.msg, submitted)
        BY <4>3, <4>4
      <4>. QED BY <4>4, <4>5
    <3>. QED BY <1>4, <3>1, <3>2, <3>3
  <2>. QED BY <2>2, <1>3, TransmitRouted
<1>5. CASE p.to \in Clients /\ Present(p.to, p.msg.m, rest, spent)
  <2>. DEFINE c == p.to
              m == p.msg.m
  <2>1. net' = rest /\ submitted' = submitted  BY <1>2, <1>5 DEF Present
  <2>2. NetRouted'  BY <2>1, <1>3 DEF NetRouted
  <2>3. m \in Messages /\ m \in submitted /\ c = To[m] /\ c \in Clients
    BY <1>1, <1>5, RoutingAssumption DEF Routed, RInv
  <2>4. CASE m \in ToSet(seen[c])
    <3>1. seen' = seen /\ presented' = presented  BY <1>5, <2>4 DEF Present
    <3>. QED BY <3>1, <2>1, <2>2 DEF RInv, SeenOnce, PresentedSeen
  <2>5. CASE m \notin ToSet(seen[c])
    <3>1. /\ seen' = [seen EXCEPT ![c] = AddSeen(@, m)]
          /\ presented' = [presented EXCEPT ![c][m] = @ + 1]
      BY <1>5, <2>5 DEF Present
    <3>2. seen[c] \in Seq(Messages) /\ IsInjective(seen[c])  BY <2>3 DEF RInv, SeenOnce
    <3>3. /\ AddSeen(seen[c], m) \in Seq(Messages) /\ IsInjective(AddSeen(seen[c], m))
          /\ ToSet(AddSeen(seen[c], m)) = ToSet(seen[c]) \union {m}
      BY <3>2, <2>3, <2>5, AddSeenFresh
    <3>. HIDE DEF c, m
    <3>4. /\ seen'[c] = AddSeen(seen[c], m)
          /\ \A d \in Clients : d # c => seen'[d] = seen[d]
          /\ seen' \in [Clients -> Seq(Messages)]
      BY <3>1, <3>3, <2>3 DEF RInv
    <3>5. SeenOnce'  BY <3>3, <3>4, <2>1, <2>3 DEF RInv, SeenOnce
    <3>6. presented[c][m] = 0
      BY <2>3, <2>5 DEF RInv, PresentedSeen
    <3>7. /\ presented' \in [Clients -> [Messages -> Nat]]
          /\ presented'[c][m] = 1
          /\ \A d \in Clients, n \in Messages :
                 (d # c \/ n # m) => presented'[d][n] = presented[d][n]
      BY <3>1, <3>6, <2>3 DEF RInv, PresentedSeen
    <3>8. \A d \in Clients, n \in Messages :
              /\ presented'[d][n] <= 1
              /\ presented'[d][n] > 0 => n \in ToSet(seen'[d]) /\ d = To[n]
      <4>1. TAKE d \in Clients, n \in Messages
      <4>2. CASE d = c /\ n = m  BY <4>2, <3>3, <3>4, <3>7, <2>3
      <4>3. CASE d # c \/ n # m
        BY <4>3, <3>3, <3>4, <3>7 DEF RInv, PresentedSeen
      <4>. QED BY <4>2, <4>3
    <3>9. PresentedSeen'  BY <3>7, <3>8 DEF PresentedSeen
    <3>. QED BY <3>4, <3>5, <3>9, <2>1, <2>2 DEF RInv
  <2>. QED BY <2>4, <2>5
<1>. QED BY <1>2, <1>4, <1>5

LEMMA FailureKeeps ==
    ASSUME RInv, NEW p \in BagToSet(net), PackageFails(p)
    PROVE  RInv'
<1>. DEFINE sends == {Send(p.from, p.to, p.msg)}
<1>1. PICK spent : Transmit(sends, p.rank + 1, Without(p), spent)
  BY DEF PackageFails
<1>2. \A q \in BagToSet(net) : Routed(q.to, q.msg, submitted)  BY DEF RInv, NetRouted
<1>3. \A t \in sends : Routed(t.to, t.msg, submitted)  BY <1>2, SendParts
<1>4. \A q \in BagToSet(Without(p)) : Routed(q.to, q.msg, submitted)  BY <1>2, LessOneBag
<1>. HIDE DEF sends
<1>5. \A q \in BagToSet(net') : Routed(q.to, q.msg, submitted)
  BY <1>1, <1>3, <1>4, TransmitRouted
<1>6. UNCHANGED <<seen, submitted, presented>>  BY DEF PackageFails
<1>. QED BY <1>5, <1>6 DEF RInv, NetRouted, SeenOnce, PresentedSeen

\* A message is presented once, by its addressee and after it was submitted.
THEOREM PresentedOnceCorrect ==
    ASSUME Remembered
    PROVE  Spec => []PresentedOnce
<1>1. Init => RInv
  <2>. SUFFICES ASSUME Init PROVE RInv  OBVIOUS
  <2>1. seen \in [Clients -> Seq(Messages)] /\ SeenOnce
    BY DEF Init, SeenOnce, IsInjective, ToSet
  <2>2. PresentedSeen  BY DEF Init, PresentedSeen
  <2>3. NetRouted  BY DEF Init, NetRouted, EmptyBag, SetToBag, BagToSet
  <2>. QED BY <2>1, <2>2, <2>3 DEF Init, RInv
<1>2. RInv /\ [Next]_vars => RInv'
  <2>1. SUFFICES ASSUME RInv, [Next]_vars PROVE RInv'  OBVIOUS
  <2>2. ASSUME NEW m \in Messages, SubmitMessage(m) PROVE RInv'  BY <2>1, <2>2, SubmitKeeps
  <2>3. ASSUME NEW p \in BagToSet(net), Deliver(p) PROVE RInv'  BY <2>1, <2>3, DeliverKeeps
  <2>4. ASSUME NEW p \in BagToSet(net), PackageFails(p) PROVE RInv'
    BY <2>1, <2>4, FailureKeeps
  <2>5. ASSUME UNCHANGED <<net, seen, submitted, presented>> PROVE RInv'
    BY <2>1, <2>5 DEF RInv, NetRouted, SeenOnce, PresentedSeen
  <2>6. ASSUME NEW n \in Nodes, NEW d \in Destinations,
               ConnectionClosed(n, d) \/ ConnectionOpened(n, d)
        PROVE  RInv'
    BY <2>5, <2>6 DEF ConnectionClosed, ConnectionOpened
  <2>7. CASE UNCHANGED vars  BY <2>5, <2>7 DEF vars
  <2>. QED BY <2>1, <2>2, <2>3, <2>4, <2>6, <2>7 DEF Next
<1>3. RInv => PresentedOnce
  BY DEF RInv, SeenOnce, PresentedSeen, PresentedOnce
<1>. QED BY <1>1, <1>2, <1>3, PTL DEF Spec


--------------------------------------------------------------------------------
(* Types.  What a node keeps stays within its limits whatever it receives;    *)
(* what it receives needs NetRouted, which no client's memory is needed for.  *)

TInv == TypeOK /\ NetRouted

\* A send of a node, and a package of one.
Sendable(t) ==
    /\ t.from \in Nodes /\ t.to \in Nodes /\ t.msg \in Message
    /\ Routed(t.to, t.msg, submitted')
InFlight(p) == p \in Package /\ Routed(p.to, p.msg, submitted')
Typed(bag) == IsABag(bag) /\ \A p \in BagToSet(bag) : InFlight(p)

LEMMA TtlTypes ==
    /\ Ttls \subseteq Int /\ Unset \in Ttls
    /\ \A ttl \in Ttls : ttl > 0 => ttl - 1 \in Ttls
    /\ \A s \in Servers : \A i \in DOMAIN Rings[s] : Rings[s][i].length - 1 \in Ttls
<1>1. ASSUME NEW s \in Servers, NEW i \in DOMAIN Rings[s], NEW ttl \in 0 .. Rings[s][i].length - 1
      PROVE  ttl \in Ttls
  BY DEF Ttls
<1>2. ASSUME NEW ttl \in Ttls
      PROVE  \/ ttl = Unset
             \/ \E s \in Servers : \E i \in DOMAIN Rings[s] : ttl \in 0 .. Rings[s][i].length - 1
  BY DEF Ttls
<1>3. \A s \in Servers : \A i \in DOMAIN Rings[s] : Rings[s][i].length - 1 \in Nat
  BY RingNext
<1>4. Unset \in Int /\ ~(Unset > 0)  BY DEF Unset
<1>5. ASSUME NEW ttl \in Ttls PROVE ttl \in Int /\ (ttl > 0 => ttl - 1 \in Ttls)
  <2>1. CASE ttl = Unset  BY <1>4, <2>1
  <2>2. ASSUME NEW s \in Servers, NEW i \in DOMAIN Rings[s], ttl \in 0 .. Rings[s][i].length - 1
        PROVE  ttl \in Int /\ (ttl > 0 => ttl - 1 \in Ttls)
    <3>1. Rings[s][i].length - 1 \in Nat  BY <1>3
    <3>2. ttl \in Int /\ (ttl > 0 => ttl - 1 \in 0 .. Rings[s][i].length - 1)  BY <2>2, <3>1
    <3>. QED BY <1>1, <3>2
  <2>. QED BY <1>2, <2>1, <2>2
<1>6. ASSUME NEW s \in Servers, NEW i \in DOMAIN Rings[s] PROVE Rings[s][i].length - 1 \in Ttls
  <2>1. Rings[s][i].length - 1 \in 0 .. Rings[s][i].length - 1  BY <1>3
  <2>. QED BY <1>1, <2>1
<1>7. Unset \in Ttls  BY DEF Ttls
<1>. QED BY <1>5, <1>6, <1>7

LEMMA MessageTypes ==
    /\ \A msg : msg \in Message <=> msg \in MessageRecord /\ msg.ttl \in Ttls
    /\ \A m \in Messages : Plain(m) \in Message /\ Plain(m).m = m /\ Plain(m).ttl = Unset
<1>1. Message \subseteq MessageRecord /\ \A msg \in Message : msg.ttl \in Ttls
  BY TtlTypes DEF Message, MessageRecord
<1>2. \A msg \in MessageRecord : msg.ttl \in Ttls => msg \in Message
  BY DEF Message, MessageRecord
<1>3. ASSUME NEW m \in Messages
      PROVE  Plain(m) \in Message /\ Plain(m).m = m /\ Plain(m).ttl = Unset
  BY TtlTypes DEF Plain, Message
<1>. QED BY <1>1, <1>2, <1>3

(* Memories *)

LEMMA RememberTypes ==
    ASSUME NEW uuids \in Seq(Messages), IsInjective(uuids), NEW m \in Messages
    PROVE  /\ Remember(uuids, m) \in Seq(Messages) /\ IsInjective(Remember(uuids, m))
           /\ Len(Remember(uuids, m)) <= Len(uuids) + 1
<1>1. CASE m \in ToSet(uuids)
  BY <1>1 DEF Remember
<1>2. CASE m \notin ToSet(uuids)
  <2>1. /\ Append(uuids, m) \in Seq(Messages) /\ Len(Append(uuids, m)) = Len(uuids) + 1
        /\ \A i \in 1 .. Len(uuids) : Append(uuids, m)[i] = uuids[i]
        /\ Append(uuids, m)[Len(uuids) + 1] = m
        /\ DOMAIN Append(uuids, m) = 1 .. Len(uuids) + 1
        /\ DOMAIN uuids = 1 .. Len(uuids) /\ Len(uuids) \in Nat
    OBVIOUS
  <2>2. \A i \in 1 .. Len(uuids) : uuids[i] # m  BY <1>2, <2>1 DEF ToSet
  <2>3. IsInjective(Append(uuids, m))  BY <2>1, <2>2 DEF IsInjective
  <2>. QED BY <1>2, <2>1, <2>3 DEF Remember
<1>. QED BY <1>1, <1>2

\* What is trimmed makes room for one; nothing is trimmed past the end.
LEMMA TrimmedTypes ==
    ASSUME NEW uuids \in Seq(Messages), IsInjective(uuids), NEW max \in Nat, NEW by \in Nat,
           Len(uuids) <= max + 1, by \div 10 <= max
    PROVE  /\ Trimmed(uuids, max, by) \in Seq(Messages) /\ IsInjective(Trimmed(uuids, max, by))
           /\ Len(Trimmed(uuids, max, by)) <= max
<1>1. CASE Len(uuids) <= max
  BY <1>1 DEF Trimmed
<1>2. CASE Len(uuids) > max
  <2>. DEFINE first == (by \div 10) + 2
              n == Len(uuids)
              rest == SubSeq(uuids, first, n)
  <2>1. by \div 10 \in Nat  OBVIOUS
  <2>2. first \in Nat /\ first >= 2 /\ n \in Nat /\ n = max + 1 /\ first <= n + 1
    BY <1>2, <2>1
  <2>3. Trimmed(uuids, max, by) = rest  BY <1>2 DEF Trimmed
  <2>. HIDE DEF first
  <2>4. rest \in Seq(Messages) /\ Len(rest) = n - first + 1
    <3>1. \A i \in first .. n : uuids[i] \in Messages  BY <2>2
    <3>. QED BY <2>2, <3>1
  <2>5. \A i \in 1 .. n - first + 1 : rest[i] = uuids[first + i - 1] /\ first + i - 1 \in DOMAIN uuids
    BY <2>2
  <2>6. DOMAIN rest = 1 .. n - first + 1  BY <2>2, <2>4
  <2>. HIDE DEF rest, n
  <2>7. IsInjective(rest)
    <3>1. SUFFICES ASSUME NEW i \in DOMAIN rest, NEW j \in DOMAIN rest, rest[i] = rest[j] PROVE i = j
      BY DEF IsInjective
    <3>2. first + i - 1 = first + j - 1  BY <2>5, <2>6, <3>1 DEF IsInjective
    <3>. QED BY <2>2, <2>6, <3>2
  <2>. QED BY <2>2, <2>3, <2>4, <2>7
<1>. QED BY <1>1, <1>2

LEMMA MemoryTypes ==
    ASSUME TypeOK, NEW m \in Messages
    PROVE  /\ \A s \in Servers :
                  /\ AddStale(stale[s], m) \in Seq(Messages) /\ IsInjective(AddStale(stale[s], m))
                  /\ Len(AddStale(stale[s], m)) <= MaxStale + 1
                  /\ AddFlooded(flooded[s], m) \in Seq(Messages)
                  /\ IsInjective(AddFlooded(flooded[s], m))
                  /\ Len(AddFlooded(flooded[s], m)) <= MaxFlooded + 1
           /\ \A c \in Clients :
                  /\ AddSeen(seen[c], m) \in Seq(Messages) /\ IsInjective(AddSeen(seen[c], m))
                  /\ Len(AddSeen(seen[c], m)) <= MaxSeen + 1
<1>1. ASSUME NEW uuids \in Seq(Messages), IsInjective(uuids), NEW max \in Nat, NEW by \in Nat,
             Len(uuids) <= max + 1, by \div 10 <= max
      PROVE  LET uuids2 == Remember(Trimmed(uuids, max, by), m)
             IN  /\ uuids2 \in Seq(Messages) /\ IsInjective(uuids2) /\ Len(uuids2) <= max + 1
  <2>. DEFINE trimmed == Trimmed(uuids, max, by)
  <2>1. trimmed \in Seq(Messages) /\ IsInjective(trimmed) /\ Len(trimmed) <= max
    BY <1>1, TrimmedTypes
  <2>. HIDE DEF trimmed
  <2>2. /\ Remember(trimmed, m) \in Seq(Messages) /\ IsInjective(Remember(trimmed, m))
        /\ Len(Remember(trimmed, m)) <= Len(trimmed) + 1
    BY <2>1, RememberTypes
  <2>3. Len(trimmed) \in Nat /\ Len(Remember(trimmed, m)) \in Nat  BY <2>1, <2>2
  <2>4. Len(Remember(trimmed, m)) <= max + 1  BY <2>1, <2>2, <2>3
  <2>. QED BY <2>2, <2>4 DEF trimmed
<1>2. /\ MaxStale \in Nat /\ MaxFlooded \in Nat /\ MaxSeen \in Nat
      /\ MaxStale \div 10 <= MaxStale /\ MaxStale \div 10 <= MaxFlooded
      /\ MaxSeen \div 10 <= MaxSeen
  BY RoutingAssumption
<1>3. ASSUME NEW s \in Servers
      PROVE  /\ stale[s] \in Seq(Messages) /\ IsInjective(stale[s]) /\ Len(stale[s]) <= MaxStale + 1
             /\ flooded[s] \in Seq(Messages) /\ IsInjective(flooded[s])
             /\ Len(flooded[s]) <= MaxFlooded + 1
  BY DEF TypeOK
<1>4. ASSUME NEW c \in Clients
      PROVE  seen[c] \in Seq(Messages) /\ IsInjective(seen[c]) /\ Len(seen[c]) <= MaxSeen + 1
  BY DEF TypeOK
<1>5. ASSUME NEW s \in Servers
      PROVE  /\ AddStale(stale[s], m) \in Seq(Messages) /\ IsInjective(AddStale(stale[s], m))
             /\ Len(AddStale(stale[s], m)) <= MaxStale + 1
             /\ AddFlooded(flooded[s], m) \in Seq(Messages)
             /\ IsInjective(AddFlooded(flooded[s], m))
             /\ Len(AddFlooded(flooded[s], m)) <= MaxFlooded + 1
  BY <1>1, <1>2, <1>3 DEF AddStale, AddFlooded
<1>6. ASSUME NEW c \in Clients
      PROVE  /\ AddSeen(seen[c], m) \in Seq(Messages) /\ IsInjective(AddSeen(seen[c], m))
             /\ Len(AddSeen(seen[c], m)) <= MaxSeen + 1
  BY <1>1, <1>2, <1>4 DEF AddSeen
<1>. QED BY <1>5, <1>6


(* Bags, and the sum of refusals *)

LEMMA BagTypes ==
    /\ \A B1, B2 : IsABag(B1) /\ IsABag(B2) => IsABag(B1 (+) B2)
    /\ \A p : IsABag(net) => IsABag(Without(p))
    /\ \A S : IsABag(SetToBag(S))
<1>1. ASSUME NEW B1, NEW B2, IsABag(B1), IsABag(B2) PROVE IsABag(B1 (+) B2)
  <2>1. /\ \A e \in DOMAIN B1 : B1[e] \in Nat /\ B1[e] > 0
        /\ \A e \in DOMAIN B2 : B2[e] \in Nat /\ B2[e] > 0
    BY <1>1 DEF IsABag
  <2>. QED BY <2>1 DEF IsABag, (+)
<1>2. ASSUME NEW p, IsABag(net) PROVE IsABag(Without(p))
  <2>1. \A e \in DOMAIN net : net[e] \in Nat /\ net[e] > 0  BY <1>2 DEF IsABag
  <2>. DEFINE one == SetToBag({p})
              less == [e \in DOMAIN net |-> IF e \in DOMAIN one THEN net[e] - one[e] ELSE net[e]]
  <2>2. \A e \in DOMAIN one : one[e] = 1  BY DEF SetToBag
  <2>3. \A e \in DOMAIN less : less[e] \in Int  BY <2>1, <2>2
  <2>4. Without(p) = [e \in {d \in DOMAIN less : less[d] > 0} |-> less[e]]
    BY DEF Without, (-)
  <2>. HIDE DEF less
  <2>5. \A e \in {d \in DOMAIN less : less[d] > 0} : less[e] \in {n \in Nat : n > 0}  BY <2>3
  <2>6. /\ DOMAIN Without(p) = {d \in DOMAIN less : less[d] > 0}
        /\ Without(p) \in [{d \in DOMAIN less : less[d] > 0} -> {n \in Nat : n > 0}]
    BY <2>4, <2>5
  <2>. QED BY <2>6 DEF IsABag
<1>3. ASSUME NEW S PROVE IsABag(SetToBag(S))  BY DEF IsABag, SetToBag
<1>. QED BY <1>1, <1>2, <1>3

LEMMA SumIsNat ==
    ASSUME NEW k, IsFiniteSet(DOMAIN k), \A x \in DOMAIN k : k[x] \in Nat
    PROVE  SumFunction(k) \in Nat
<1>1. SumFunction(k) = MapThenSumSet(LAMBDA x : k[x], DOMAIN k)
  BY Zenon DEF SumFunction, SumFunctionOnSet, FoldFunctionOnSet, MapThenSumSet
<1>2. SumFunction(k) = SumOver(k, DOMAIN k)  BY <1>1, SumIsMap
<1>. QED BY <1>2, SumUnfold

(* Sending *)

\* The SDK takes what can be sent on a connection; the faults stay within bounds.
LEMMA TransmitTypes ==
    ASSUME TypeOK, NEW sends, NEW rank \in Nat, NEW rest, NEW spent \in Nat,
           Transmit(sends, rank, rest, spent), IsFiniteSet(sends),
           Typed(rest), \A t \in sends : Sendable(t), submitted \subseteq submitted'
    PROVE  Typed(net') /\ faults' \in 0 .. MaxFaults /\ dropped' \subseteq submitted'
<1>1. PICK k \in [sends -> 0 .. (MaxFaults - faults - spent)] :
          LET tries == [s \in sends |-> Tries(rank, s.from, s.to)]
              taken == {s \in sends : k[s] < tries[s]}
          IN  /\ faults' = faults + spent + SumFunction(k) /\ faults' <= MaxFaults
              /\ net' = rest (+) SetToBag({Packed(s, rank, k[s]) : s \in taken})
              /\ dropped' = dropped \union {s.msg.m : s \in sends \ taken}
  BY DEF Transmit
<1>. DEFINE taken == {s \in sends : k[s] < [t \in sends |-> Tries(rank, t.from, t.to)][s]}
            packed == {Packed(s, rank, k[s]) : s \in taken}
<1>2. /\ faults' = faults + spent + SumFunction(k) /\ faults' <= MaxFaults
      /\ net' = rest (+) SetToBag(packed)
      /\ dropped' = dropped \union {s.msg.m : s \in sends \ taken}
  BY <1>1
<1>3. faults \in Nat /\ MaxFaults \in Nat /\ dropped \subseteq submitted
  BY RoutingAssumption DEF TypeOK
<1>4. \A s \in sends : k[s] \in Nat  BY <1>1, <1>3
<1>5. faults' \in 0 .. MaxFaults
  <2>1. DOMAIN k = sends  BY <1>1
  <2>2. SumFunction(k) \in Nat  BY <1>4, <2>1, SumIsNat
  <2>. QED BY <1>2, <1>3, <2>2
<1>6. dropped' \subseteq submitted'
  <2>1. \A s \in sends : s.msg.m \in submitted'  BY DEF Sendable, Routed
  <2>. QED BY <1>2, <1>3, <2>1
<1>7. ASSUME NEW p \in packed PROVE InFlight(p)
  <2>1. PICK s \in taken : p = Packed(s, rank, k[s])  OBVIOUS
  <2>2. s \in sends /\ k[s] < Tries(rank, s.from, s.to) /\ Sendable(s)  BY <2>1
  <2>3. s.from \in Nodes /\ s.to \in Nodes /\ s.msg \in Message /\ Routed(s.to, s.msg, submitted')
    BY <2>2 DEF Sendable
  <2>4. conns[s.from][s.to] \in Nat  BY <2>3 DEF TypeOK, Destinations
  <2>5. conns[s.from][s.to] > 0  BY <2>2, <2>4, <1>4 DEF Tries
  <2>6. rank + k[s] \in Nat  BY <2>2, <1>4
  <2>7. (rank + k[s]) % conns[s.from][s.to] \in Nat  BY <2>4, <2>5, <2>6
  <2>8. p = [from |-> s.from, to |-> s.to, msg |-> s.msg,
             rank |-> (rank + k[s]) % conns[s.from][s.to], late |-> FALSE]
    BY <2>1 DEF Packed
  <2>9. p \in Package  BY <2>3, <2>7, <2>8 DEF Package
  <2>. QED BY <2>3, <2>8, <2>9 DEF InFlight
<1>8. Typed(net')
  <2>. HIDE DEF packed
  <2>1. BagToSet(net') = BagToSet(rest) \union packed  BY <1>2, UnionOfBags, BagOfSet
  <2>2. IsABag(net')  BY <1>2, BagTypes DEF Typed
  <2>. QED BY <1>7, <2>1, <2>2 DEF Typed
<1>. QED BY <1>5, <1>6, <1>8


\* What a server sends on a message it may receive.
LEMMA ServerSends ==
    ASSUME NEW s \in Servers, NEW msg \in Message, Routed(s, msg, submitted')
    PROVE  /\ Rings[s] # <<>> => /\ IsFiniteSet(RingSends(s, msg))
                                 /\ \A t \in RingSends(s, msg) : Sendable(t)
           /\ msg.ttl # Unset => /\ IsFiniteSet(AlongRing(s, msg))
                                 /\ \A t \in AlongRing(s, msg) : Sendable(t)
           /\ IsFiniteSet(ToExitClient(s, msg)) /\ \A t \in ToExitClient(s, msg) : Sendable(t)
           /\ \A chosen \in ChosenCommittees(s, msg) :
                  (msg.ttl # Unset \/ Rings[s] = <<>>) =>
                      /\ IsFiniteSet(ForwardSends(s, msg, chosen))
                      /\ \A t \in ForwardSends(s, msg, chosen) : Sendable(t)
<1>1. /\ msg \in MessageRecord /\ msg.ttl \in Ttls /\ msg.m \in Messages
      /\ Rings[s] \in Seq([length : Nat \ {0}, next : Servers])
  <2>1. msg \in MessageRecord /\ msg.ttl \in Ttls  BY MessageTypes
  <2>2. msg.m \in Messages  BY <2>1 DEF MessageRecord
  <2>. QED BY <2>1, <2>2, RoutingAssumption
\* From whom, to whom, and a message that is routed: only the time to live is left.
<1>2. ASSUME NEW to, NEW copy, Routed(to, copy, submitted'), copy.ttl \in Ttls
      PROVE  Sendable(Send(s, to, copy))
  <2>1. copy \in Message  BY <1>2, MessageTypes DEF Routed
  <2>2. to \in Nodes
    <3>1. \A m \in Messages : To[m] \in Clients  BY RoutingAssumption
    <3>. QED BY <1>2, <3>1 DEF Routed, MessageRecord, Nodes
  <2>3. /\ Send(s, to, copy).from = s /\ Send(s, to, copy).to = to
        /\ Send(s, to, copy).msg = copy
    BY DEF Send
  <2>. QED BY <1>2, <2>1, <2>2, <2>3 DEF Sendable, Nodes
<1>3. ASSUME Rings[s] # <<>>
      PROVE  IsFiniteSet(RingSends(s, msg)) /\ \A t \in RingSends(s, msg) : Sendable(t)
  <2>1. \A t \in RingSends(s, msg) : Routed(t.to, t.msg, submitted')  BY <1>3, SendsRouted
  <2>2. ASSUME NEW t \in RingSends(s, msg) PROVE Sendable(t)
    <3>1. PICK i \in DOMAIN Rings[s] :
              t = Send(s, Rings[s][i].next, OnRing(msg, Rings[s][i].length - 1, i - 1))
      BY DEF RingSends
    <3>. DEFINE copy == OnRing(msg, Rings[s][i].length - 1, i - 1)
    <3>2. copy.ttl = Rings[s][i].length - 1
      <4>. DEFINE first == [msg EXCEPT !.ttl = Rings[s][i].length - 1]
      <4>1. first \in [m : Messages, ttl : {Rings[s][i].length - 1}, idx : Nat,
                       visited : SUBSET Committees, sent : SUBSET Committees]
        BY <1>1 DEF MessageRecord
      <4>2. copy = [first EXCEPT !.idx = i - 1]  BY DEF OnRing
      <4>. HIDE DEF first, copy
      <4>. QED BY <4>1, <4>2
    <3>3. copy.ttl \in Ttls  BY <3>2, TtlTypes
    <3>. HIDE DEF copy
    <3>4. t = Send(s, Rings[s][i].next, copy)  BY <3>1 DEF copy
    <3>5. Routed(Rings[s][i].next, copy, submitted')  BY <2>1, <3>4, SendParts
    <3>. QED BY <1>2, <3>3, <3>4, <3>5
  <2>3. IsFiniteSet(RingSends(s, msg))
    <3>. DEFINE f == [i \in DOMAIN Rings[s] |->
                         Send(s, Rings[s][i].next, OnRing(msg, Rings[s][i].length - 1, i - 1))]
    <3>1. IsFiniteSet(DOMAIN f)  BY <1>1, FiniteIndices
    <3>2. RingSends(s, msg) = {f[i] : i \in DOMAIN f}  BY DEF RingSends
    <3>. HIDE DEF f
    <3>. QED BY <3>1, <3>2, FiniteImage
  <2>. QED BY <2>2, <2>3
<1>4. ASSUME msg.ttl # Unset
      PROVE  IsFiniteSet(AlongRing(s, msg)) /\ \A t \in AlongRing(s, msg) : Sendable(t)
  <2>. DEFINE t == Send(s, Rings[s][msg.idx + 1].next, msg)
  <2>1. AlongRing(s, msg) = {t}  BY DEF AlongRing
  <2>2. Routed(t.to, t.msg, submitted')  BY <1>4, <2>1, SendsRouted
  <2>3. Sendable(t)
    <3>1. Routed(Rings[s][msg.idx + 1].next, msg, submitted')  BY <2>2, SendParts
    <3>. QED BY <1>1, <1>2, <3>1
  <2>. QED BY <2>1, <2>3, FS_Singleton
<1>5. IsFiniteSet(ToExitClient(s, msg)) /\ \A t \in ToExitClient(s, msg) : Sendable(t)
  <2>1. CASE To[msg.m] \notin ExitClients[s]
    BY <2>1, FS_EmptySet DEF ToExitClient
  <2>2. CASE To[msg.m] \in ExitClients[s]
    <3>. DEFINE t == Send(s, To[msg.m], Plain(msg.m))
    <3>1. ToExitClient(s, msg) = {t}  BY <2>2 DEF ToExitClient
    <3>2. Routed(t.to, t.msg, submitted')  BY <3>1, SendsRouted
    <3>3. Plain(msg.m).ttl \in Ttls  BY <1>1, MessageTypes
    <3>4. Sendable(t)
      <4>1. Routed(To[msg.m], Plain(msg.m), submitted')  BY <3>2, SendParts
      <4>. QED BY <1>2, <3>3, <4>1
    <3>. QED BY <3>1, <3>4, FS_Singleton
  <2>. QED BY <2>1, <2>2
<1>6. ASSUME NEW chosen \in ChosenCommittees(s, msg), msg.ttl # Unset \/ Rings[s] = <<>>
      PROVE  /\ IsFiniteSet(ForwardSends(s, msg, chosen))
             /\ \A t \in ForwardSends(s, msg, chosen) : Sendable(t)
  <2>. DEFINE off == OffRing(Visited(s, msg))
              also == AlsoSent(Visited(s, msg), chosen)
              others == {Send(s, Reachable[s][c], off) : c \in chosen}
  <2>1. \A t \in ForwardSends(s, msg, chosen) : Routed(t.to, t.msg, submitted')
    BY <1>6, SendsRouted
  <2>2. chosen \subseteq DOMAIN Reachable[s] /\ chosen \subseteq Committees /\ IsFiniteSet(chosen)
    <3>1. chosen \subseteq DOMAIN Reachable[s]  BY DEF ChosenCommittees
    <3>2. IsFiniteSet(DOMAIN Reachable[s]) /\ DOMAIN Reachable[s] \subseteq Committees
      BY RoutingAssumption
    <3>. QED BY <3>1, <3>2, FS_Subset
  <2>3. off.ttl \in Ttls /\ also.ttl \in Ttls
    <3>1. Visited(s, msg) \in MessageRecord /\ Visited(s, msg).ttl = msg.ttl
      BY <1>1, CopiesOfMessage
    <3>2. off.ttl = Unset  BY <3>1, CopiesOfMessage
    <3>3. also.ttl = msg.ttl  BY <3>1 DEF AlsoSent, MessageRecord
    <3>. QED BY <1>1, <3>2, <3>3, TtlTypes
  <2>. HIDE DEF off, also
  <2>4. \A t \in ForwardSends(s, msg, chosen) :
            \/ t \in others
            \/ t = Send(s, Rings[s][1].next, also)
    BY DEF ForwardSends, off, also
  <2>5. ASSUME NEW t \in ForwardSends(s, msg, chosen) PROVE Sendable(t)
    <3>1. ASSUME NEW c \in chosen, t = Send(s, Reachable[s][c], off) PROVE Sendable(t)
      <4>1. Routed(Reachable[s][c], off, submitted')  BY <2>1, <3>1, SendParts
      <4>. QED BY <1>2, <2>3, <3>1, <4>1
    <3>2. CASE t = Send(s, Rings[s][1].next, also)
      <4>1. Routed(Rings[s][1].next, also, submitted')  BY <2>1, <3>2, SendParts
      <4>. QED BY <1>2, <2>3, <3>2, <4>1
    <3>. QED BY <2>4, <3>1, <3>2
  <2>6. IsFiniteSet(others)
    <3>. DEFINE f == [c \in chosen |-> Send(s, Reachable[s][c], off)]
    <3>1. IsFiniteSet(DOMAIN f)  BY <2>2
    <3>2. others = {f[c] : c \in DOMAIN f}  OBVIOUS
    <3>. HIDE DEF f, others
    <3>. QED BY <3>1, <3>2, FiniteImage
  <2>7. IsFiniteSet(ForwardSends(s, msg, chosen))
    <3>1. /\ ForwardSends(s, msg, chosen) \subseteq others \union {Send(s, Rings[s][1].next, also)}
          /\ IsFiniteSet({Send(s, Rings[s][1].next, also)})
      BY <2>4, FS_Singleton
    <3>. HIDE DEF others
    <3>2. \A A, B : IsFiniteSet(A) /\ IsFiniteSet(B) => IsFiniteSet(A \union B)  BY FS_Union
    <3>3. IsFiniteSet(others \union {Send(s, Rings[s][1].next, also)})  BY <2>6, <3>1, <3>2
    <3>. QED BY <3>1, <3>3, FS_Subset
  <2>. QED BY <2>5, <2>7
<1>. QED BY <1>3, <1>4, <1>5, <1>6


--------------------------------------------------------------------------------
(* The steps, for the types                                                   *)

LEMMA NetTyped ==
    ASSUME TInv, submitted \subseteq submitted'
    PROVE  Typed(net)
BY DEF TInv, TypeOK, NetRouted, Typed, InFlight, Routed

\* A server's receiving, by the ring or off it.
LEMMA ServerTypes ==
    ASSUME TInv, UNCHANGED submitted, NEW p \in BagToSet(net), p.to \in Servers,
           NEW rest, Typed(rest), NEW spent \in Nat,
           \/ StartRing(p.to, p.msg, rest, spent)
           \/ ContinueRing(p.to, p.msg, rest, spent)
           \/ EndRing(p.to, p.msg, rest, spent)
    PROVE  /\ Typed(net') /\ faults' \in 0 .. MaxFaults /\ dropped' \subseteq submitted'
           /\ \/ UNCHANGED stale
              \/ stale' = [stale EXCEPT ![p.to] = AddStale(@, p.msg.m)]
           /\ \/ UNCHANGED flooded
              \/ flooded' = [flooded EXCEPT ![p.to] = AddFlooded(@, p.msg.m)]
<1>. DEFINE s == p.to
            msg == p.msg
<1>1. InFlight(p) /\ s \in Servers /\ msg \in Message /\ Routed(s, msg, submitted')
  <2>1. InFlight(p)  BY NetTyped DEF Typed
  <2>. QED BY <2>1 DEF InFlight, Package
<1>2. msg.ttl \in Ttls  BY <1>1, MessageTypes
<1>. HIDE DEF s, msg
<1>3. \/ StartRing(s, msg, rest, spent) \/ ContinueRing(s, msg, rest, spent)
      \/ EndRing(s, msg, rest, spent)
  BY DEF s, msg
<1>4. PICK sends : /\ Transmit(sends, 0, rest, spent) /\ IsFiniteSet(sends)
                   /\ \A t \in sends : Sendable(t)
  <2>0. IsFiniteSet({})  BY FS_EmptySet
  <2>1. CASE StartRing(s, msg, rest, spent)
    <3>1. \/ Transmit({}, 0, rest, spent)
          \/ Rings[s] # <<>> /\ Transmit(RingSends(s, msg), 0, rest, spent)
      BY <2>1 DEF StartRing
    <3>. QED BY <2>0, <3>1, <1>1, ServerSends
  <2>2. CASE ContinueRing(s, msg, rest, spent)
    <3>. DEFINE next == [msg EXCEPT !.ttl = @ - 1]
    <3>1. Transmit(AlongRing(s, next), 0, rest, spent) /\ msg.ttl > 0
      BY <2>2 DEF ContinueRing
    <3>2. msg \in MessageRecord /\ msg.ttl \in Int /\ msg.ttl - 1 \in Ttls
      BY <1>1, <1>2, <3>1, TtlTypes, MessageTypes
    <3>3. /\ next \in MessageRecord /\ next.m = msg.m /\ next.idx = msg.idx
          /\ next.ttl = msg.ttl - 1
      BY <3>2 DEF MessageRecord
    <3>. HIDE DEF next
    <3>4. next \in Message  BY <3>2, <3>3, MessageTypes
    <3>5. Routed(s, next, submitted') /\ next.ttl # Unset
      BY <1>1, <3>1, <3>2, <3>3 DEF Routed, Unset
    <3>. QED BY <1>1, <3>1, <3>4, <3>5, ServerSends
  <2>3. CASE EndRing(s, msg, rest, spent)
    <3>1. msg.ttl # Unset \/ Rings[s] = <<>>  BY <2>3 DEF EndRing, Unset
    <3>2. \/ Transmit({}, 0, rest, spent)
          \/ /\ Rings[s] # <<>>
             /\ Transmit(ToExitClient(s, msg) \union AlongRing(s, msg), 0, rest, spent)
          \/ \E chosen \in ChosenCommittees(s, msg) :
                 Transmit(ToExitClient(s, msg) \union ForwardSends(s, msg, chosen), 0, rest, spent)
      BY <2>3 DEF EndRing
    <3>3. \A A, B : IsFiniteSet(A) /\ IsFiniteSet(B) => IsFiniteSet(A \union B)  BY FS_Union
    <3>4. IsFiniteSet(ToExitClient(s, msg)) /\ \A t \in ToExitClient(s, msg) : Sendable(t)
      BY <1>1, ServerSends
    <3>5. Rings[s] # <<>> => /\ IsFiniteSet(AlongRing(s, msg))
                             /\ \A t \in AlongRing(s, msg) : Sendable(t)
      BY <1>1, <3>1, ServerSends
    <3>6. \A chosen \in ChosenCommittees(s, msg) :
              /\ IsFiniteSet(ForwardSends(s, msg, chosen))
              /\ \A t \in ForwardSends(s, msg, chosen) : Sendable(t)
      BY <1>1, <3>1, ServerSends
    <3>7. \A A : IsFiniteSet(A) /\ (\A t \in A : Sendable(t)) =>
                     /\ IsFiniteSet(ToExitClient(s, msg) \union A)
                     /\ \A t \in ToExitClient(s, msg) \union A : Sendable(t)
      BY <3>3, <3>4
    <3>8. ASSUME Rings[s] # <<>>,
                 Transmit(ToExitClient(s, msg) \union AlongRing(s, msg), 0, rest, spent)
          PROVE  \E sends : /\ Transmit(sends, 0, rest, spent) /\ IsFiniteSet(sends)
                            /\ \A t \in sends : Sendable(t)
      BY <3>5, <3>7, <3>8
    <3>9. ASSUME NEW chosen \in ChosenCommittees(s, msg),
                 Transmit(ToExitClient(s, msg) \union ForwardSends(s, msg, chosen), 0, rest, spent)
          PROVE  \E sends : /\ Transmit(sends, 0, rest, spent) /\ IsFiniteSet(sends)
                            /\ \A t \in sends : Sendable(t)
      BY <3>6, <3>7, <3>9
    <3>10. CASE Transmit({}, 0, rest, spent)  BY <2>0, <3>10
    <3>. QED BY <3>2, <3>8, <3>9, <3>10
  <2>. QED BY <1>3, <2>1, <2>2, <2>3
<1>5. Typed(net') /\ faults' \in 0 .. MaxFaults /\ dropped' \subseteq submitted'
  BY <1>4, TransmitTypes DEF TInv
<1>6. /\ \/ UNCHANGED stale
         \/ stale' = [stale EXCEPT ![s] = AddStale(@, msg.m)]
      /\ \/ UNCHANGED flooded
         \/ flooded' = [flooded EXCEPT ![s] = AddFlooded(@, msg.m)]
  BY <1>3 DEF StartRing, ContinueRing, EndRing
<1>. QED BY <1>5, <1>6 DEF s, msg

\* What TypeOK says of the packages in flight.
LEMMA NetTypes ==
    ASSUME Typed(net')
    PROVE  /\ IsABag(net)' /\ (BagToSet(net) \subseteq Package)' /\ NetRouted'
           /\ \A p \in BagToSet(net') :
                  p.to \in Servers /\ p.msg.ttl # Unset => p.msg.idx + 1 \in DOMAIN Rings[p.to]
BY DEF Typed, InFlight, NetRouted, Routed

LEMMA DeliverTypes ==
    ASSUME TInv, NEW p \in BagToSet(net), Deliver(p)
    PROVE  TInv'
<1>1. PICK late \in BOOLEAN :
          LET rest == IF late THEN Without(p) (+) SetToBag({[p EXCEPT !.late = TRUE]})
                      ELSE Without(p)
              spent == IF late THEN 1 ELSE 0
          IN  /\ late => faults < MaxFaults
              /\ \/ /\ p.to \in Servers
                    /\ \/ StartRing(p.to, p.msg, rest, spent)
                       \/ ContinueRing(p.to, p.msg, rest, spent)
                       \/ EndRing(p.to, p.msg, rest, spent)
                    /\ UNCHANGED <<seen, presented>>
                 \/ /\ p.to \in Clients
                    /\ Present(p.to, p.msg.m, rest, spent)
                    /\ UNCHANGED <<stale, flooded>>
              /\ UNCHANGED <<conns, opening, submitted>>
  BY DEF Deliver
<1>. DEFINE again == [p EXCEPT !.late = TRUE]
            rest == IF late THEN Without(p) (+) SetToBag({again}) ELSE Without(p)
            spent == IF late THEN 1 ELSE 0
<1>2. Typed(net) /\ InFlight(p)  BY <1>1, NetTyped DEF Typed
<1>3. p \in Package /\ p.msg.m \in Messages
  BY <1>2, MessageTypes DEF InFlight, Routed, MessageRecord
<1>4. Typed(rest)
  <2>1. InFlight(again)
    <3>1. again.to = p.to /\ again.msg = p.msg /\ again \in Package
      BY <1>3 DEF Package
    <3>. QED BY <1>2, <3>1 DEF InFlight
  <2>. HIDE DEF again
  <2>2. Typed(Without(p))  BY <1>2, LessOneBag, BagTypes DEF Typed
  <2>3. Typed(Without(p) (+) SetToBag({again}))
    BY <2>1, <2>2, UnionOfBags, BagOfSet, BagTypes DEF Typed
  <2>. QED BY <2>2, <2>3
<1>5. spent \in Nat /\ faults \in Nat /\ faults + spent \in 0 .. MaxFaults
  BY <1>1, RoutingAssumption DEF TInv, TypeOK
<1>6. /\ \/ /\ p.to \in Servers
            /\ \/ StartRing(p.to, p.msg, rest, spent)
               \/ ContinueRing(p.to, p.msg, rest, spent)
               \/ EndRing(p.to, p.msg, rest, spent)
            /\ UNCHANGED <<seen, presented>>
         \/ /\ p.to \in Clients
            /\ Present(p.to, p.msg.m, rest, spent)
            /\ UNCHANGED <<stale, flooded>>
      /\ UNCHANGED <<conns, opening, submitted>>
  BY <1>1
<1>. HIDE DEF rest, spent
<1>7. CASE /\ p.to \in Servers
           /\ \/ StartRing(p.to, p.msg, rest, spent)
              \/ ContinueRing(p.to, p.msg, rest, spent)
              \/ EndRing(p.to, p.msg, rest, spent)
           /\ UNCHANGED <<seen, presented>>
  <2>1. /\ Typed(net') /\ faults' \in 0 .. MaxFaults /\ dropped' \subseteq submitted'
        /\ \/ UNCHANGED stale
           \/ stale' = [stale EXCEPT ![p.to] = AddStale(@, p.msg.m)]
        /\ \/ UNCHANGED flooded
           \/ flooded' = [flooded EXCEPT ![p.to] = AddFlooded(@, p.msg.m)]
    BY <1>4, <1>5, <1>6, <1>7, ServerTypes
  <2>2. /\ IsABag(net)' /\ (BagToSet(net) \subseteq Package)' /\ NetRouted'
        /\ \A q \in BagToSet(net') :
               q.to \in Servers /\ q.msg.ttl # Unset => q.msg.idx + 1 \in DOMAIN Rings[q.to]
    BY <2>1, NetTypes
  <2>3. ASSUME NEW s \in Servers
        PROVE  /\ stale'[s] \in Seq(Messages) /\ IsInjective(stale'[s])
               /\ Len(stale'[s]) <= MaxStale + 1
               /\ flooded'[s] \in Seq(Messages) /\ IsInjective(flooded'[s])
               /\ Len(flooded'[s]) <= MaxFlooded + 1
    <3>1. /\ stale'[s] = stale[s] \/ stale'[s] = AddStale(stale[s], p.msg.m)
          /\ flooded'[s] = flooded[s] \/ flooded'[s] = AddFlooded(flooded[s], p.msg.m)
      BY <2>1 DEF TInv, TypeOK
    <3>. QED BY <1>3, <3>1, MemoryTypes DEF TInv, TypeOK
  <2>. QED BY <1>6, <1>7, <2>1, <2>2, <2>3 DEF TInv, TypeOK
<1>8. CASE p.to \in Clients /\ Present(p.to, p.msg.m, rest, spent) /\ UNCHANGED <<stale, flooded>>
  <2>. DEFINE m == p.msg.m
  <2>1. /\ net' = rest /\ faults' = faults + spent /\ UNCHANGED dropped
        /\ \/ UNCHANGED <<seen, presented>>
           \/ /\ seen' = [seen EXCEPT ![p.to] = AddSeen(@, m)]
              /\ presented' = [presented EXCEPT ![p.to][m] = @ + 1]
    BY <1>8 DEF Present
  <2>2. /\ IsABag(net)' /\ (BagToSet(net) \subseteq Package)' /\ NetRouted'
        /\ \A q \in BagToSet(net') :
               q.to \in Servers /\ q.msg.ttl # Unset => q.msg.idx + 1 \in DOMAIN Rings[q.to]
    BY <1>4, <2>1, NetTypes
  <2>3. ASSUME NEW c \in Clients
        PROVE  /\ seen'[c] \in Seq(Messages) /\ IsInjective(seen'[c]) /\ Len(seen'[c]) <= MaxSeen + 1
    <3>1. seen'[c] = seen[c] \/ seen'[c] = AddSeen(seen[c], m)
      BY <2>1 DEF TInv, TypeOK
    <3>. QED BY <1>3, <3>1, MemoryTypes DEF TInv, TypeOK
  <2>4. presented' \in [Clients -> [Messages -> Nat]]
    <3>1. presented \in [Clients -> [Messages -> Nat]]  BY DEF TInv, TypeOK
    <3>2. p.to \in Clients /\ m \in Messages  BY <1>3, <1>8
    <3>3. presented[p.to][m] + 1 \in Nat  BY <3>1, <3>2
    <3>. HIDE DEF m
    <3>. QED BY <2>1, <3>1, <3>2, <3>3
  <2>. QED BY <1>5, <1>6, <1>8, <2>1, <2>2, <2>3, <2>4 DEF TInv, TypeOK
<1>. QED BY <1>6, <1>7, <1>8


\* A client multicasts to the servers of its entrance: a bag of packages.
LEMMA MulticastTypes ==
    ASSUME NEW m \in Messages, m \in submitted', NEW taken \in Seq(Nat)
    PROVE  Typed(Multicast(From[m], m, taken))
<1>. DEFINE c == From[m]
            times(j) == Cardinality({i \in DOMAIN taken : j <= taken[i]})
            reached == {j \in DOMAIN Entrance[c] : times(j) > 0}
            sent == {MulticastPackage(c, Entrance[c][j], m) : j \in reached}
            bag == Multicast(c, m, taken)
<1>1. c \in Clients /\ Entrance[c] \in Seq(Servers)  BY RoutingAssumption
<1>2. bag = [p \in sent |-> times(CHOOSE j \in reached : Entrance[c][j] = p.to)]
  BY DEF Multicast
<1>3. \A j : times(j) \in Nat
  <2>1. IsFiniteSet(DOMAIN taken)  BY FiniteIndices
  <2>2. \A j : {i \in DOMAIN taken : j <= taken[i]} \in SUBSET DOMAIN taken  OBVIOUS
  <2>. QED BY <2>1, <2>2, FS_Subset, FS_CardinalityType
<1>4. \A j \in reached : times(j) > 0 /\ Entrance[c][j] \in Servers
  BY <1>1
<1>. HIDE DEF c, times
<1>5. ASSUME NEW p \in sent PROVE bag[p] \in {n \in Nat : n > 0} /\ InFlight(p)
  <2>1. PICK j \in reached : p = MulticastPackage(c, Entrance[c][j], m)  OBVIOUS
  <2>2. p = [from |-> c, to |-> Entrance[c][j], msg |-> Plain(m), rank |-> 0, late |-> FALSE]
    BY <2>1 DEF MulticastPackage
  <2>. DEFINE first == CHOOSE i \in reached : Entrance[c][i] = p.to
  <2>3. first \in reached  BY <2>2
  <2>4. bag[p] = times(first)  BY <1>2
  <2>5. bag[p] \in {n \in Nat : n > 0}
    <3>. HIDE DEF first
    <3>. QED BY <1>3, <1>4, <2>3, <2>4
  <2>6. Plain(m) \in Message /\ Plain(m).m = m /\ Plain(m).ttl = Unset  BY MessageTypes
  <2>7. p \in Package  BY <1>1, <1>4, <2>2, <2>6 DEF Package, Nodes
  <2>8. Routed(p.to, p.msg, submitted')
    BY <1>4, <2>2, <2>6, MessageTypes DEF Routed
  <2>. QED BY <2>5, <2>7, <2>8 DEF InFlight
<1>6. DOMAIN bag = sent  BY <1>2
<1>7. bag \in [DOMAIN bag -> {n \in Nat : n > 0}]
  <2>1. bag = [p \in DOMAIN bag |-> bag[p]]  BY <1>2, <1>6
  <2>. HIDE DEF bag, sent
  <2>. QED BY <1>5, <1>6, <2>1
<1>. QED BY <1>5, <1>6, <1>7 DEF Typed, IsABag, BagToSet, c

LEMMA SubmitTypes ==
    ASSUME TInv, NEW m \in Messages, SubmitMessage(m)
    PROVE  TInv'
<1>. DEFINE c == From[m]
            members == Len(Entrance[c])
            sends == {Send(c, Entrance[c][i], Plain(m)) : i \in 1 .. members}
<1>1. /\ c \in Clients /\ Entrance[c] \in Seq(Servers) /\ members \in Nat /\ MaxFaults \in Nat
      /\ conns[c][Group] \in Nat /\ faults \in Nat /\ dropped \subseteq submitted
  <2>1. c \in Clients /\ Entrance[c] \in Seq(Servers) /\ MaxFaults \in Nat
    BY RoutingAssumption
  <2>2. /\ conns \in [Nodes -> [Destinations -> Nat]] /\ faults \in 0 .. MaxFaults
        /\ dropped \subseteq submitted
    BY DEF TInv, TypeOK
  <2>3. c \in Nodes /\ Group \in Destinations  BY <2>1 DEF Nodes, Destinations
  <2>4. conns[c][Group] \in Nat  BY <2>2, <2>3
  <2>5. members \in Nat  BY <2>1
  <2>. QED BY <2>1, <2>2, <2>4, <2>5
<1>2. /\ submitted' = submitted \union {m} /\ seen' = [seen EXCEPT ![c] = AddSeen(@, m)]
      /\ UNCHANGED <<stale, flooded, conns, opening, presented>>
  BY DEF SubmitMessage
<1>3. Typed(net)  BY <1>2, NetTyped
<1>4. PICK failing \in 0 .. conns[c][Group] : \E taken \in [1 .. failing -> 0 .. members] :
          /\ faults + failing <= MaxFaults
          /\ IF failing < conns[c][Group]
             THEN /\ net' = net (+) Multicast(c, m, Append(taken, members))
                  /\ faults' = faults + failing
                  /\ UNCHANGED dropped
             ELSE Transmit(sends, 0, net (+) Multicast(c, m, taken), failing)
  BY DEF SubmitMessage
<1>5. PICK taken \in [1 .. failing -> 0 .. members] :
          /\ faults + failing <= MaxFaults
          /\ IF failing < conns[c][Group]
             THEN /\ net' = net (+) Multicast(c, m, Append(taken, members))
                  /\ faults' = faults + failing
                  /\ UNCHANGED dropped
             ELSE Transmit(sends, 0, net (+) Multicast(c, m, taken), failing)
  BY <1>4
<1>6. failing \in Nat /\ taken \in Seq(Nat) /\ Append(taken, members) \in Seq(Nat)
  <2>1. failing \in Nat  BY <1>1
  <2>2. taken \in [1 .. failing -> Nat]  BY <1>1, <1>5
  <2>3. taken \in Seq(Nat)  BY <2>1, <2>2
  <2>. QED BY <1>1, <2>1, <2>3
<1>7. \A q \in Seq(Nat) : Typed(net (+) Multicast(c, m, q))
  <2>1. \A q \in Seq(Nat) : Typed(Multicast(c, m, q))  BY <1>2, MulticastTypes
  <2>. QED BY <1>3, <2>1, UnionOfBags, BagTypes DEF Typed
<1>8. IsFiniteSet(sends) /\ \A t \in sends : Sendable(t)
  <2>. DEFINE f == [i \in 1 .. members |-> Send(c, Entrance[c][i], Plain(m))]
  <2>1. IsFiniteSet(DOMAIN f)
    <3>1. \A n \in Nat : IsFiniteSet(1 .. n)  BY FS_Interval
    <3>. QED BY <1>1, <3>1
  <2>2. sends = {f[i] : i \in DOMAIN f}  OBVIOUS
  <2>3. IsFiniteSet(sends)
    <3>. HIDE DEF f, sends
    <3>. QED BY <2>1, <2>2, FiniteImage
  <2>4. ASSUME NEW i \in 1 .. members PROVE Sendable(Send(c, Entrance[c][i], Plain(m)))
    <3>1. Entrance[c][i] \in Servers  BY <1>1
    <3>2. Plain(m) \in Message /\ Plain(m).m = m /\ Plain(m).ttl = Unset  BY MessageTypes
    <3>3. Routed(Entrance[c][i], Plain(m), submitted')
      BY <1>2, <3>1, <3>2, MessageTypes DEF Routed
    <3>4. /\ Send(c, Entrance[c][i], Plain(m)).from = c
          /\ Send(c, Entrance[c][i], Plain(m)).to = Entrance[c][i]
          /\ Send(c, Entrance[c][i], Plain(m)).msg = Plain(m)
      BY DEF Send
    <3>. QED BY <1>1, <3>1, <3>2, <3>3, <3>4 DEF Sendable, Nodes
  <2>. QED BY <2>3, <2>4
<1>. HIDE DEF sends
<1>9. Typed(net') /\ faults' \in 0 .. MaxFaults /\ dropped' \subseteq submitted'
  <2>1. CASE failing < conns[c][Group]
    <3>1. /\ faults + failing <= MaxFaults
          /\ net' = net (+) Multicast(c, m, Append(taken, members))
          /\ faults' = faults + failing /\ dropped' = dropped
      BY <1>5, <2>1
    <3>2. faults' \in 0 .. MaxFaults  BY <1>1, <1>6, <3>1
    <3>3. Typed(net')  BY <1>6, <1>7, <3>1
    <3>4. dropped' \subseteq submitted'  BY <1>1, <1>2, <3>1
    <3>. QED BY <3>2, <3>3, <3>4
  <2>2. CASE ~(failing < conns[c][Group])
    <3>1. Transmit(sends, 0, net (+) Multicast(c, m, taken), failing)  BY <1>5, <2>2
    <3>2. Typed(net (+) Multicast(c, m, taken))  BY <1>6, <1>7
    <3>3. submitted \subseteq submitted' /\ 0 \in Nat  BY <1>2
    <3>. QED BY <1>6, <1>8, <3>1, <3>2, <3>3, TransmitTypes DEF TInv
  <2>. QED BY <2>1, <2>2
<1>10. /\ IsABag(net)' /\ (BagToSet(net) \subseteq Package)' /\ NetRouted'
       /\ \A q \in BagToSet(net') :
              q.to \in Servers /\ q.msg.ttl # Unset => q.msg.idx + 1 \in DOMAIN Rings[q.to]
  BY <1>9, NetTypes
<1>11. /\ seen' \in [Clients -> Seq(Messages)]
       /\ \A d \in Clients : IsInjective(seen'[d]) /\ Len(seen'[d]) <= MaxSeen + 1
  BY <1>1, <1>2, MemoryTypes DEF TInv, TypeOK
<1>. QED BY <1>2, <1>9, <1>10, <1>11 DEF TInv, TypeOK

LEMMA FailureTypes ==
    ASSUME TInv, NEW p \in BagToSet(net), PackageFails(p)
    PROVE  TInv'
<1>. DEFINE again == Send(p.from, p.to, p.msg)
            spent == IF p.late THEN 0 ELSE 1
<1>1. /\ Transmit({again}, p.rank + 1, Without(p), spent)
      /\ UNCHANGED <<stale, flooded, seen, conns, opening, submitted, presented>>
  BY DEF PackageFails
<1>2. Typed(net) /\ InFlight(p)  BY <1>1, NetTyped DEF Typed
<1>3. Typed(Without(p))  BY <1>2, LessOneBag, BagTypes DEF Typed
<1>4. Sendable(again) /\ p.rank + 1 \in Nat
  BY <1>2 DEF InFlight, Package, Sendable, Send
<1>5. IsFiniteSet({again})  BY FS_Singleton
<1>6. spent \in Nat /\ submitted \subseteq submitted'  BY <1>1
<1>. HIDE DEF again, spent
<1>7. Typed(net') /\ faults' \in 0 .. MaxFaults /\ dropped' \subseteq submitted'
  BY <1>1, <1>3, <1>4, <1>5, <1>6, TransmitTypes DEF TInv
<1>8. /\ IsABag(net)' /\ (BagToSet(net) \subseteq Package)' /\ NetRouted'
      /\ \A q \in BagToSet(net') :
             q.to \in Servers /\ q.msg.ttl # Unset => q.msg.idx + 1 \in DOMAIN Rings[q.to]
  BY <1>7, NetTypes
<1>. QED BY <1>1, <1>7, <1>8 DEF TInv, TypeOK

\* Every package is one some node could have built, on a ring its receiver has;
\* memories stay within their limits; messages given up were submitted.
THEOREM TypeCorrect == Spec => []TypeOK
<1>1. Init => TInv
  <2>. SUFFICES ASSUME Init PROVE TInv  OBVIOUS
  <2>1. BagToSet(net) = {} /\ IsABag(net)
    BY BagTypes DEF Init, EmptyBag, SetToBag, BagToSet
  <2>2. /\ {stale, flooded} \subseteq [Servers -> Seq(Messages)]
        /\ seen \in [Clients -> Seq(Messages)]
        /\ \A s \in Servers : IsInjective(stale[s]) /\ IsInjective(flooded[s])
        /\ \A s \in Servers : Len(stale[s]) = 0 /\ Len(flooded[s]) = 0
        /\ \A c \in Clients : IsInjective(seen[c]) /\ Len(seen[c]) = 0
    BY DEF Init, IsInjective
  <2>3. /\ conns \in [Nodes -> [Destinations -> Nat]]
        /\ opening \in [Nodes -> [Destinations -> Nat]]
        /\ presented \in [Clients -> [Messages -> Nat]]
        /\ submitted = {} /\ dropped = {} /\ faults = 0
    BY RoutingAssumption DEF Init
  <2>. QED BY <2>1, <2>2, <2>3, RoutingAssumption DEF TInv, TypeOK, NetRouted
<1>2. TInv /\ [Next]_vars => TInv'
  <2>1. SUFFICES ASSUME TInv, [Next]_vars PROVE TInv'  OBVIOUS
  <2>2. ASSUME NEW m \in Messages, SubmitMessage(m) PROVE TInv'  BY <2>1, <2>2, SubmitTypes
  <2>3. ASSUME NEW p \in BagToSet(net), Deliver(p) PROVE TInv'  BY <2>1, <2>3, DeliverTypes
  <2>4. ASSUME NEW p \in BagToSet(net), PackageFails(p) PROVE TInv'
    BY <2>1, <2>4, FailureTypes
  <2>5. ASSUME NEW n \in Nodes, NEW d \in Destinations,
               ConnectionClosed(n, d) \/ ConnectionOpened(n, d)
        PROVE  TInv'
    <3>1. /\ conns' \in [Nodes -> [Destinations -> Nat]]
          /\ opening' \in [Nodes -> [Destinations -> Nat]]
          /\ faults' \in 0 .. MaxFaults
      <4>1. /\ conns \in [Nodes -> [Destinations -> Nat]]
            /\ opening \in [Nodes -> [Destinations -> Nat]]
            /\ faults \in 0 .. MaxFaults /\ MaxFaults \in Nat
        BY <2>1, RoutingAssumption DEF TInv, TypeOK
      <4>2. CASE ConnectionClosed(n, d)
        <5>1. conns[n][d] \in Nat /\ opening[n][d] \in Nat  BY <4>1
        <5>. QED BY <4>1, <4>2, <5>1 DEF ConnectionClosed
      <4>3. CASE ConnectionOpened(n, d)
        <5>1. conns[n][d] \in Nat /\ opening[n][d] \in Nat  BY <4>1
        <5>. QED BY <4>1, <4>3, <5>1 DEF ConnectionOpened
      <4>. QED BY <2>5, <4>2, <4>3
    <3>2. UNCHANGED <<net, stale, flooded, seen, submitted, presented, dropped>>
      BY <2>5 DEF ConnectionClosed, ConnectionOpened
    <3>. QED BY <2>1, <3>1, <3>2 DEF TInv, TypeOK, NetRouted
  <2>6. CASE UNCHANGED vars  BY <2>1, <2>6 DEF vars, TInv, TypeOK, NetRouted
  <2>. QED BY <2>1, <2>2, <2>3, <2>4, <2>5, <2>6 DEF Next
<1>3. TInv => TypeOK  BY DEF TInv
<1>. QED BY <1>1, <1>2, <1>3, PTL DEF Spec
=============================================================================
