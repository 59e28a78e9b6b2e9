----------------------------- MODULE DeliveryProofs -----------------------------
(***************************************************************************)
(* What the receiving end of a link gets, in Packages, for all values of   *)
(* its constants: nothing but whole packages, and each package that was    *)
(* reported as sent, once what is on the wire has arrived.                 *)
(*                                                                         *)
(* The packages of a link are planned in the order of its queue (TurnInv)  *)
(* and encoded one action after the other (Prompt), so that what goes out  *)
(* on the link is one stream of packages (StreamInv), which the receiving  *)
(* end cuts where it was put together.  The numbers of that stream have no *)
(* gap where a package goes on (NumbersInv) unless something failed, and   *)
(* then the package is not reported as sent (SentInv).                     *)
(***************************************************************************)
EXTENDS PackagesProofs

--------------------------------------------------------------------------------
(* Packages take their turn.  The packages of a link are planned in the order  *)
(* they were queued in, each for the actions after those of the one before: so *)
(* the actions of a link carry one stream of bytes.                            *)

CanTake(i, a, l) ==
    i[a].time > now + MaxEncodingTime /\ i[a].link \in {l, NoLink} /\ isActionAbleToFit(i[a])

Carries(i, a, l) == i[a].fragments # <<>> /\ i[a].link = l

\* Nothing of the package p remains to be planned.
InFull(pa, p) == Covered(pa[p]) = Size[p]

\* A package begins an action or continues in it, and goes on in the next one only
\* when there is no room left.
Packed(i) ==
    \A a \in DOMAIN i : \A k \in DOMAIN i[a].fragments :
        /\ k # 1 => i[a].fragments[k].off = 0
        /\ i[a].fragments[k].off + i[a].fragments[k].len # Size[i[a].fragments[k].pkg]
               => k = Len(i[a].fragments) /\ ~isActionAbleToFit(i[a])

\* A pointer knows what its fragment is of the package.
SamePiece(x, fs) == \A j \in DOMAIN fs : fs[j].h = x.h => x.off = fs[j].off /\ x.len = fs[j].len

SamePieces(i, pa) ==
    \A a \in DOMAIN i : \A k \in DOMAIN i[a].fragments :
        SamePiece(i[a].fragments[k], pa[i[a].fragments[k].pkg])

\* No action carries two fragments of a package.
OneInEach(pa) ==
    \A p \in Packages : \A j, k \in DOMAIN pa[p] :
        pa[p][j].action # NoAction /\ pa[p][j].action = pa[p][k].action => j = k

Precedes(s, p, q) == \E j, k \in DOMAIN s : j < k /\ s[j] = p /\ s[k] = q

\* The package p is planned before q.
Ahead(i, pa, p, q) ==
    /\ pa[q] # <<>> => InFull(pa, p)
    /\ \A m \in DOMAIN pa[p] : \A n \in DOMAIN pa[q] :
         pa[p][m].action # NoAction
             => pa[q][n].action # NoAction /\ i[pa[p][m].action].time <= i[pa[q][n].action].time

InQueueOrder(i, pa, queues) ==
    \A l \in Links : \A p, q \in Packages : Precedes(queues[l], p, q) => Ahead(i, pa, p, q)

\* No action is passed over that could have been taken.
NoGaps(i, qs) ==
    \A l \in Links : \A a, b \in ToSet(qs[l]) :
        i[a].time < i[b].time /\ Carries(i, b, l) => ~CanTake(i, a, l)

InTurnPlan(i, pa, qs, queues) ==
    Packed(i) /\ SamePieces(i, pa) /\ OneInEach(pa) /\ InQueueOrder(i, pa, queues) /\ NoGaps(i, qs)

\* Only queued packages have fragments.
OnlyQueued(pa, queues) == \A p \in Packages : pa[p] # <<>> => p \in ToSet(queues[Route[p]])

\* A package in full has no fragment after the one that ends it.
LEMMA EndIs ==
    ASSUME NEW D, NEW e \in GoodPlans(D), Tiles(e.parts), NEW p \in Packages, NEW k \in DOMAIN e.parts[p]
    PROVE  /\ e.parts[p][k].off + e.parts[p][k].len = Size[p] <=> Planned(e, p) /\ k = Len(e.parts[p])
           /\ ~Planned(e, p) => e.parts[p][k].off + e.parts[p][k].len < Size[p]
<1>1. e.parts[p] \in Seq(Fragments) /\ Size[p] \in Nat  BY PackagesAssumption DEF GoodPlans, PlansOf
<1>2. /\ DOMAIN e.parts[p] = 1 .. Len(e.parts[p]) /\ Len(e.parts[p]) \in Nat
      /\ \A j \in DOMAIN e.parts[p] : e.parts[p][j] \in Fragments
  BY <1>1, Elements
<1>3. \A j \in DOMAIN e.parts[p] : /\ e.parts[p][j].off \in Nat /\ e.parts[p][j].len \in Nat
                                   /\ e.parts[p][j].off + e.parts[p][j].len <= Size[p]
  BY <1>2 DEF Fragments, GoodPlans, Whole
<1>4. Planned(e, p) <=> e.parts[p][Len(e.parts[p])].off + e.parts[p][Len(e.parts[p])].len = Size[p]
  <2>1. e.parts[p] # <<>>  OBVIOUS
  <2>. QED BY <2>1 DEF Planned, Covered, Last
<1>5. k # Len(e.parts[p]) => k + 1 \in DOMAIN e.parts[p]  BY <1>2
<1>6. k # Len(e.parts[p]) => /\ e.parts[p][k + 1].off = e.parts[p][k].off + e.parts[p][k].len
                             /\ e.parts[p][k + 1].len > 0
  <2>1. k \in Nat /\ (k + 1) - 1 = k /\ k + 1 # 1  BY <1>2
  <2>2. \A j \in DOMAIN e.parts[p] :
           /\ e.parts[p][j].len > 0
           /\ j # 1 => e.parts[p][j].off = e.parts[p][j - 1].off + e.parts[p][j - 1].len
    BY DEF Tiles
  <2>. QED BY <1>5, <2>1, <2>2
<1>7. k # Len(e.parts[p]) => e.parts[p][k].off + e.parts[p][k].len < Size[p]
  BY <1>1, <1>3, <1>5, <1>6
<1>8. CASE k # Len(e.parts[p])  BY <1>1, <1>3, <1>7, <1>8
<1>9. CASE k = Len(e.parts[p])  BY <1>1, <1>3, <1>4, <1>9
<1>. QED BY <1>8, <1>9

\* What an addition needs to keep the packages in turn: those before it are planned,
\* and so is all that comes before the action in its queue.
ItsTurn(e, p, a, qs, queues) ==
    LET l == Route[p] IN
    /\ p \in ToSet(queues[l]) /\ OnlyQueued(e.parts, queues) /\ OwnPackages(queues)
    /\ \A q \in Packages : Precedes(queues[l], q, p) => Planned(e, q)
    /\ \A c \in ToSet(qs[l]) : e.info[c].time < e.info[a].time => ~CanTake(e.info, c, l)
    /\ \/ e.info[a].time > now + MaxEncodingTime
       \/ \A b \in DOMAIN e.info : Carries(e.info, b, l) => e.info[b].time <= e.info[a].time

\* What is planned already for the link goes out before the addition.
LEMMA TurnAfter ==
    ASSUME TypeOK, NEW D, D \subseteq Actions, NEW e \in GoodPlans(D),
           NEW p \in Packages, NEW a \in D, NEW exact, MayCarry(e, p, a, exact),
           NEW qs, NEW T, NEW t, SoundPlan(e.info, e.parts, qs, T, t), NoGaps(e.info, qs),
           a \in ToSet(qs[Route[p]]), NEW queues, ItsTurn(e, p, a, qs, queues),
           NEW b \in D, Carries(e.info, b, Route[p])
    PROVE  e.info[b].time <= e.info[a].time
<1>1. e.info \in [D -> ActionInfo] /\ DOMAIN e.info = D  BY DEF GoodPlans, PlansOf
<1>2. e.info[a].time \in Nat /\ e.info[b].time \in Nat /\ now + MaxEncodingTime \in Nat
  BY <1>1, NumbersAre DEF ActionInfo
<1>3. CASE e.info[a].time > now + MaxEncodingTime
  <2>1. CanTake(e.info, a, Route[p])  BY <1>3 DEF CanTake, MayCarry
  <2>2. Route[p] \in Links  BY PackagesAssumption
  <2>3. b \in ToSet(qs[Route[p]])
    <3>1. e.info[b].fragments \in Seq(Pointers) /\ e.info[b].fragments # <<>>
      BY <1>1 DEF Carries, ActionInfo
    <3>2. 1 \in DOMAIN e.info[b].fragments  BY <3>1
    <3>. QED BY <1>1, <3>2 DEF SoundPlan, OnOneLink, Carries
  <2>4. ~(e.info[a].time < e.info[b].time)  BY <2>1, <2>2, <2>3 DEF NoGaps
  <2>. QED BY <1>2, <2>4
<1>4. CASE ~(e.info[a].time > now + MaxEncodingTime)  BY <1>1, <1>4 DEF ItsTurn
<1>. QED BY <1>3, <1>4

\* The pointer x of the action a leads to a fragment, which points back.
LeadsBack(i, pa, a, x) ==
    /\ x \in Pointers /\ x.pkg \in Packages /\ i[a].link = Route[x.pkg] /\ Carries(i, a, Route[x.pkg])
    /\ \E j \in DOMAIN pa[x.pkg] : /\ pa[x.pkg][j].h = x.h /\ pa[x.pkg][j].action = a
                                   /\ pa[x.pkg][j].off = x.off /\ pa[x.pkg][j].len = x.len

LEMMA PointsTo ==
    ASSUME NEW D, NEW i \in [D -> ActionInfo], NEW pa, NEW qs, NEW T, NEW t,
           SoundPlan(i, pa, qs, T, t), SamePieces(i, pa), NEW a \in D, NEW m \in DOMAIN i[a].fragments
    PROVE  LeadsBack(i, pa, a, i[a].fragments[m])
<1> DEFINE x == i[a].fragments[m]
<1>1. i[a].fragments \in Seq(Pointers) /\ DOMAIN i = D  BY DEF ActionInfo
<1>2. x \in Pointers /\ x.pkg \in Packages
  <2>1. x \in Pointers  BY <1>1
  <2>. QED BY <2>1 DEF Pointers
<1>3. i[a].link = Route[x.pkg]  BY <1>1 DEF SoundPlan, OnOneLink
<1>4. PICK j \in DOMAIN pa[x.pkg] : pa[x.pkg][j].h = x.h /\ pa[x.pkg][j].action = a
  BY <1>1 DEF SoundPlan, PointBack
<1>5. pa[x.pkg][j].off = x.off /\ pa[x.pkg][j].len = x.len
  <2>1. SamePiece(x, pa[x.pkg])  BY <1>1 DEF SamePieces
  <2>. QED BY <1>4, <2>1 DEF SamePiece
<1>6. i[a].fragments # <<>>  BY <1>1
<1>. QED BY <1>2, <1>3, <1>4, <1>5, <1>6 DEF Carries, LeadsBack

\* The k-th fragment of the package p is with its action.
IsHeld(i, pa, qs, p, k) ==
    LET a == pa[p][k].action IN
    /\ a \in DOMAIN i /\ i[a].link = Route[p] /\ Carries(i, a, Route[p]) /\ a \in ToSet(qs[Route[p]])
    /\ \E m \in DOMAIN i[a].fragments :
           /\ i[a].fragments[m].h = pa[p][k].h /\ i[a].fragments[m].pkg = p
           /\ i[a].fragments[m].off = pa[p][k].off /\ i[a].fragments[m].len = pa[p][k].len

LEMMA PointedTo ==
    ASSUME NEW D, NEW i \in [D -> ActionInfo], NEW pa, NEW qs, NEW T, NEW t,
           SoundPlan(i, pa, qs, T, t), SamePieces(i, pa),
           NEW p \in Packages, NEW k \in DOMAIN pa[p], pa[p][k].action # NoAction
    PROVE  IsHeld(i, pa, qs, p, k)
<1> DEFINE a == pa[p][k].action
<1>1. a \in D /\ pa[p][k].h \in HandlesOf(i[a].fragments) /\ DOMAIN i = D  BY DEF SoundPlan, Carried
<1>2. PICK m \in DOMAIN i[a].fragments : i[a].fragments[m].h = pa[p][k].h  BY <1>1, HandlesAre
<1>7. PICK x : x = i[a].fragments[m]  OBVIOUS
<1>3. LeadsBack(i, pa, a, x)  BY <1>1, <1>7, PointsTo
<1>4. PICK j \in DOMAIN pa[x.pkg] : /\ pa[x.pkg][j].h = x.h /\ pa[x.pkg][j].action = a
                                    /\ pa[x.pkg][j].off = x.off /\ pa[x.pkg][j].len = x.len
  BY <1>3 DEF LeadsBack
<1>5. x.pkg = p /\ j = k
  <2>1. pa[x.pkg][j].h = pa[p][k].h  BY <1>2, <1>4, <1>7
  <2>2. x.pkg \in Packages  BY <1>3 DEF LeadsBack
  <2>. QED BY <2>1, <2>2 DEF SoundPlan, OneEach
<1>6. a \in ToSet(qs[Route[p]])  BY <1>1, <1>3, <1>5, <1>2 DEF SoundPlan, OnOneLink, LeadsBack
<1>. QED BY <1>1, <1>2, <1>3, <1>4, <1>5, <1>6, <1>7 DEF LeadsBack, IsHeld

\* Two packages of a queue are one before the other.
LEMMA OneBefore ==
    ASSUME NEW T, NEW s \in Seq(T), NEW p \in ToSet(s), NEW q \in ToSet(s), p # q
    PROVE  Precedes(s, p, q) \/ Precedes(s, q, p)
<1>1. DOMAIN s = 1 .. Len(s) /\ Len(s) \in Nat  BY Elements
<1>2. PICK j \in DOMAIN s : s[j] = p  BY DEF ToSet
<1>3. PICK k \in DOMAIN s : s[k] = q  BY DEF ToSet
<1>4. j < k \/ k < j  BY <1>1, <1>2, <1>3
<1>. QED BY <1>2, <1>3, <1>4 DEF Precedes

\* The sequence r is s with x appended.
IsAppended(s, x, r) ==
    /\ r # <<>> /\ Last(r) = x /\ Len(r) = Len(s) + 1 /\ DOMAIN r = 1 .. Len(s) + 1
    /\ DOMAIN s = 1 .. Len(s) /\ Len(s) \in Nat
    /\ r[Len(s) + 1] = x /\ \A k \in 1 .. Len(s) : r[k] = s[k]

LEMMA Appended ==
    ASSUME NEW T, NEW s \in Seq(T), NEW x \in T
    PROVE  IsAppended(s, x, Append(s, x))
BY AppendIs DEF IsAppended

\* What has its turn has nothing yet in the action that is to take it, and the action
\* carries nothing that is not in full; an action that carries something takes it
\* from its beginning.
IsFitting(e, p, a) ==
    /\ \A k \in DOMAIN e.parts[p] :
           /\ e.parts[p][k].action # a
           /\ e.parts[p][k].action # NoAction => e.info[e.parts[p][k].action].time <= e.info[a].time
    /\ \A m \in DOMAIN e.info[a].fragments :
           e.info[a].fragments[m].off + e.info[a].fragments[m].len = Size[e.info[a].fragments[m].pkg]
    /\ e.info[a].fragments # <<>> => e.parts[p] = <<>>

LEMMA TurnFits ==
    ASSUME TypeOK, NEW D, D \subseteq Actions, NEW e \in GoodPlans(D),
           NEW p \in Packages, NEW a \in D, NEW exact, MayCarry(e, p, a, exact),
           NEW qs, NEW T, NEW t, SoundPlan(e.info, e.parts, qs, T, t), OneAtATime(e.info),
           NEW queues \in [Links -> Seq(Packages)], InTurnPlan(e.info, e.parts, qs, queues),
           a \in ToSet(qs[Route[p]]), ItsTurn(e, p, a, qs, queues)
    PROVE  IsFitting(e, p, a)
<1> DEFINE l == Route[p]
<1>1. /\ e.info \in [D -> ActionInfo] /\ DOMAIN e.info = D /\ e.parts \in [Packages -> Seq(Fragments)]
      /\ l \in Links /\ a # NoAction
  BY PackagesAssumption DEF GoodPlans, PlansOf
<1>2. /\ isActionAbleToFit(e.info[a]) /\ ~Planned(e, p) /\ e.info[a].link \in {l, NoLink}
  BY DEF MayCarry
<1>3. \A m \in DOMAIN e.info[a].fragments :
          e.info[a].fragments[m].off + e.info[a].fragments[m].len = Size[e.info[a].fragments[m].pkg]
  BY <1>1, <1>2 DEF InTurnPlan, Packed
<1>4. /\ OneEach(e.parts) /\ PointBack(e.info, e.parts) /\ Carried(e.info, e.parts, T)
      /\ SamePieces(e.info, e.parts) /\ OnOneLink(e.info, qs) /\ Tiles(e.parts) /\ NoGaps(e.info, qs)
      /\ InQueueOrder(e.info, e.parts, queues)
  BY DEF SoundPlan, InTurnPlan
<1>5. ASSUME NEW k \in DOMAIN e.parts[p]
      PROVE  /\ e.parts[p][k].action # a
             /\ e.parts[p][k].action # NoAction => e.info[e.parts[p][k].action].time <= e.info[a].time
  <2>1. ASSUME e.parts[p][k].action = a
        PROVE  FALSE
    <3>1. PICK m \in DOMAIN e.info[a].fragments :
              /\ e.info[a].fragments[m].h = e.parts[p][k].h /\ e.info[a].fragments[m].pkg = p
              /\ e.info[a].fragments[m].off = e.parts[p][k].off /\ e.info[a].fragments[m].len = e.parts[p][k].len
      <4>1. IsHeld(e.info, e.parts, qs, p, k)  BY <1>1, <1>4, <2>1, PointedTo
      <4>. QED BY <2>1, <4>1 DEF IsHeld
    <3>2. e.parts[p][k].off + e.parts[p][k].len = Size[p]  BY <1>3, <3>1
    <3>. QED BY <1>2, <1>4, <3>2, EndIs
  <2>2. ASSUME e.parts[p][k].action # NoAction
        PROVE  e.info[e.parts[p][k].action].time <= e.info[a].time
    <3>1. e.parts[p][k].action \in D /\ Carries(e.info, e.parts[p][k].action, l)
      BY <1>1, <1>4, <2>2, PointedTo DEF IsHeld
    <3>. QED BY <1>4, <3>1, TurnAfter
  <2>. QED BY <2>1, <2>2
<1>6. ASSUME e.info[a].fragments # <<>>, e.parts[p] # <<>>
      PROVE  FALSE
  <2>1. e.info[a].fragments \in Seq(Pointers) /\ 1 \in DOMAIN e.info[a].fragments  BY <1>1, <1>6 DEF ActionInfo
  <2>2. PICK x : x = e.info[a].fragments[1]  OBVIOUS
  <2>3. LeadsBack(e.info, e.parts, a, x)  BY <1>1, <1>4, <2>1, <2>2, PointsTo
  <2>4. PICK y \in Packages : y = x.pkg  BY <2>3 DEF LeadsBack
  <2>5. PICK j \in DOMAIN e.parts[y] : e.parts[y][j].action = a  BY <2>3, <2>4 DEF LeadsBack
  <2>6. Route[y] = l
    <3>1. Route[y] \in Links /\ NoLink \notin Links  BY PackagesAssumption
    <3>2. e.info[a].link = Route[y]  BY <2>3, <2>4 DEF LeadsBack
    <3>. QED BY <1>2, <3>1, <3>2
  <2>7. y # p  BY <1>5, <2>5
  <2>8. y \in ToSet(queues[l]) /\ p \in ToSet(queues[l])
    <3>1. e.parts[y] # <<>>  BY <2>5
    <3>. QED BY <2>6, <3>1 DEF ItsTurn, OnlyQueued
  <2>9. queues[l] \in Seq(Packages)  BY <1>1
  <2>10. CASE Precedes(queues[l], p, y)
    <3>1. Ahead(e.info, e.parts, p, y)  BY <1>1, <1>4, <2>10 DEF InQueueOrder
    <3>2. InFull(e.parts, p)  BY <2>5, <3>1 DEF Ahead
    <3>. QED BY <1>2, <3>2 DEF InFull, Planned
  <2>11. CASE Precedes(queues[l], y, p)
    <3>1. Ahead(e.info, e.parts, y, p)  BY <1>1, <1>4, <2>11 DEF InQueueOrder
    <3>2. 1 \in DOMAIN e.parts[p]
      <4>1. e.parts[p] \in Seq(Fragments)  BY <1>1
      <4>. QED BY <1>6, <4>1
    <3>3. /\ e.parts[p][1].action # NoAction
          /\ e.info[a].time <= e.info[e.parts[p][1].action].time
      BY <1>1, <2>5, <3>1, <3>2 DEF Ahead
    <3>4. e.info[e.parts[p][1].action].time <= e.info[a].time /\ e.parts[p][1].action # a
      BY <1>5, <3>2, <3>3
    <3>5. e.parts[p][1].action \in D  BY <1>1, <1>4, <3>2, <3>3 DEF Carried
    <3>6. e.info[a].time \in Nat /\ e.info[e.parts[p][1].action].time \in Nat
      BY <1>1, <3>5, NumbersAre DEF ActionInfo
    <3>7. PICK b : b = e.parts[p][1].action  OBVIOUS
    <3>8. PICK u \in Nat, v \in Nat : u = e.info[a].time /\ v = e.info[b].time  BY <3>6, <3>7
    <3>9. u = v  BY <3>3, <3>4, <3>7, <3>8
    <3>10. a \in D /\ b \in D /\ b # a  BY <3>4, <3>5, <3>7
    <3>11. e.info[a].time = e.info[b].time /\ DOMAIN e.info = D  BY <1>1, <3>8, <3>9
    <3>. QED BY <3>10, <3>11 DEF OneAtATime
  <2>. QED BY <2>7, <2>8, <2>9, <2>10, <2>11, OneBefore
<1>. QED BY <1>3, <1>5, <1>6 DEF IsFitting

\* An addition to a plan in turn.
LEMMA AddsTurn ==
    ASSUME TypeOK, NEW D, D \subseteq Actions, NEW e \in GoodPlans(D), NEW d \in GoodPlans(D),
           NEW p \in Packages, NEW a \in D, NEW exact, MayCarry(e, p, a, exact),
           NEW f \in Pointers, NEW g \in Fragments, Adds(e, d, p, a, f, g),
           NEW qs \in [Links -> Seq(D)], NEW T, NEW t, SoundPlan(e.info, e.parts, qs, T, t), OneAtATime(e.info),
           NEW queues \in [Links -> Seq(Packages)], InTurnPlan(e.info, e.parts, qs, queues),
           a \in ToSet(qs[Route[p]]), e.info[a].time > t, ItsTurn(e, p, a, qs, queues)
    PROVE  /\ SoundPlan(d.info, d.parts, qs, T, t) /\ InTurnPlan(d.info, d.parts, qs, queues)
           /\ OnlyQueued(d.parts, queues)
<1> DEFINE l == Route[p]
           fs == e.parts[p]
           n == Len(fs)
           ps == e.info[a].fragments
           m == Len(ps)
<1>1. /\ e.info \in [D -> ActionInfo] /\ DOMAIN e.info = D /\ e.parts \in [Packages -> Seq(Fragments)]
      /\ d.info \in [D -> ActionInfo] /\ DOMAIN d.info = D /\ d.parts \in [Packages -> Seq(Fragments)]
      /\ fs \in Seq(Fragments) /\ ps \in Seq(Pointers)
      /\ l \in Links /\ NoLink \notin Links /\ a # NoAction
  BY PackagesAssumption DEF GoodPlans, PlansOf, ActionInfo
<1>2. /\ \A k \in DOMAIN fs :
             /\ fs[k].action # a
             /\ fs[k].action # NoAction => e.info[fs[k].action].time <= e.info[a].time
      /\ \A j \in DOMAIN ps : ps[j].off + ps[j].len = Size[ps[j].pkg]
      /\ ps # <<>> => fs = <<>>
  <2>1. IsFitting(e, p, a)  BY TurnFits
  <2>. QED BY <2>1 DEF IsFitting
<1>3. /\ ~MayCarry(d, p, a, exact)
      /\ \A b \in D : /\ d.info[b].time = e.info[b].time /\ d.info[b].enc = e.info[b].enc
                      /\ isActionAbleToFit(d.info[b]) => isActionAbleToFit(e.info[b])
      /\ \A b \in D \ {a} : d.info[b] = e.info[b]
      /\ d.info[a].link = l /\ d.info[a].fragments = Append(ps, f)
      /\ d.parts[p] = Append(fs, g)
      /\ \A q \in Packages \ {p} : d.parts[q] = e.parts[q]
  BY AddsShrinks
<1>4. /\ n \in Nat /\ DOMAIN fs = 1 .. n /\ DOMAIN d.parts[p] = 1 .. n + 1 /\ Len(d.parts[p]) = n + 1
      /\ d.parts[p][n + 1] = g /\ Last(d.parts[p]) = g /\ d.parts[p] # <<>>
      /\ \A k \in 1 .. n : d.parts[p][k] = fs[k]
  <2>1. IsAppended(fs, g, d.parts[p])  BY <1>1, <1>3, Appended
  <2>. QED BY <2>1 DEF IsAppended
<1>5. /\ m \in Nat /\ DOMAIN ps = 1 .. m /\ DOMAIN d.info[a].fragments = 1 .. m + 1
      /\ Len(d.info[a].fragments) = m + 1
      /\ d.info[a].fragments[m + 1] = f /\ \A k \in 1 .. m : d.info[a].fragments[k] = ps[k]
  <2>1. IsAppended(ps, f, d.info[a].fragments)  BY <1>1, <1>3, Appended
  <2>. QED BY <2>1 DEF IsAppended
<1>6. /\ f.h = g.h /\ f.pkg = p /\ f.off = g.off /\ f.len = g.len /\ g.action = a
      /\ g.h \notin UsedHandles(e.parts) /\ g.off = Covered(fs)
      /\ Planned(d, p) \/ f.len = spaceAvailableInAction(e.info[a])
  BY DEF Adds
<1>7. SoundPlan(d.info, d.parts, qs, T, t)
  BY <1>2, AddsSound
<1>8. /\ OneEach(e.parts) /\ PointBack(e.info, e.parts) /\ Carried(e.info, e.parts, T)
      /\ SamePieces(e.info, e.parts) /\ OnOneLink(e.info, qs) /\ Tiles(e.parts) /\ NoGaps(e.info, qs)
      /\ InQueueOrder(e.info, e.parts, queues) /\ Packed(e.info) /\ OneInEach(e.parts)
  BY DEF SoundPlan, InTurnPlan
<1>9. ~Planned(e, p) /\ isActionAbleToFit(e.info[a]) /\ e.info[a].link \in {l, NoLink}  BY DEF MayCarry
<1> HIDE DEF fs, ps, n, m, l
<1>10. OnlyQueued(d.parts, queues)
  BY <1>3 DEF OnlyQueued, ItsTurn
<1>11. ASSUME NEW q \in Packages, NEW k \in DOMAIN d.parts[q]
       PROVE  \/ q = p /\ k = n + 1 /\ d.parts[q][k] = g
              \/ k \in DOMAIN e.parts[q] /\ d.parts[q][k] = e.parts[q][k] /\ d.parts[q][k].h # g.h
  <2>1. CASE q = p
    <3>1. k \in 1 .. n + 1 /\ e.parts[q] = fs  BY <1>4, <1>11, <2>1 DEF fs
    <3>2. k # n + 1 => k \in 1 .. n  BY <1>4, <3>1
    <3>3. k # n + 1 => fs[k].h # g.h
      <4>1. k # n + 1 => fs[k].h \in UsedHandles(e.parts)  BY <1>4, <3>1, <3>2 DEF UsedHandles, HandlesOf, fs
      <4>. QED BY <1>6, <4>1
    <3>. QED BY <1>4, <2>1, <3>1, <3>2, <3>3
  <2>2. CASE q # p
    <3>1. k \in DOMAIN e.parts[q] /\ d.parts[q][k] = e.parts[q][k]  BY <1>3, <1>11, <2>2
    <3>2. e.parts[q][k].h \in UsedHandles(e.parts)  BY <3>1 DEF UsedHandles, HandlesOf
    <3>. QED BY <1>6, <3>1, <3>2
  <2>. QED BY <2>1, <2>2
<1>12. ASSUME NEW b \in D, NEW k \in DOMAIN d.info[b].fragments
       PROVE  \/ b = a /\ k = m + 1 /\ d.info[b].fragments[k] = f
              \/ k \in DOMAIN e.info[b].fragments /\ d.info[b].fragments[k] = e.info[b].fragments[k]
  <2>1. CASE b = a
    <3>1. k \in 1 .. m + 1 /\ e.info[b].fragments = ps  BY <1>5, <1>12, <2>1 DEF ps
    <3>2. k # m + 1 => k \in 1 .. m  BY <1>5, <3>1
    <3>. QED BY <1>5, <2>1, <3>1, <3>2
  <2>2. CASE b # a  BY <1>3, <1>12, <2>2
  <2>. QED BY <2>1, <2>2
<1>13. Packed(d.info)
  <2>1. ASSUME NEW b \in D, NEW k \in DOMAIN d.info[b].fragments
        PROVE  /\ k # 1 => d.info[b].fragments[k].off = 0
               /\ d.info[b].fragments[k].off + d.info[b].fragments[k].len # Size[d.info[b].fragments[k].pkg]
                      => k = Len(d.info[b].fragments) /\ ~isActionAbleToFit(d.info[b])
    <3>1. CASE b = a /\ k = m + 1 /\ d.info[b].fragments[k] = f
      <4>1. k # 1 => f.off = 0
        <5>1. k # 1 => ps # <<>>  BY <1>5, <3>1
        <5>. QED BY <1>2, <1>6, <5>1 DEF Covered
      <4>2. ASSUME f.off + f.len # Size[p]
            PROVE  ~isActionAbleToFit(d.info[a])
        <5>1. ~Planned(d, p)  BY <1>4, <1>6, <4>2 DEF Planned, Covered
        <5>2. e.info[a] \in ActionInfo /\ d.info[a] \in ActionInfo /\ d.info[a].enc = e.info[a].enc
              /\ d.info[a].fragments = Append(e.info[a].fragments, f)
          BY <1>1, <1>3 DEF ps
        <5>3. spaceAvailableInAction(d.info[a]) = 0  BY <1>6, <5>1, <5>2, SpaceShrinks
        <5>. QED BY <5>3 DEF isActionAbleToFit
      <4>. QED BY <1>5, <1>6, <3>1, <4>1, <4>2
    <3>2. CASE k \in DOMAIN e.info[b].fragments /\ d.info[b].fragments[k] = e.info[b].fragments[k]
      <4>1. CASE b = a  BY <1>1, <1>2, <1>8, <3>2, <4>1 DEF Packed, ps
      <4>2. CASE b # a
        <5>1. d.info[b] = e.info[b]  BY <1>3, <4>2
        <5>. QED BY <1>1, <1>8, <3>2, <5>1 DEF Packed
      <4>. QED BY <4>1, <4>2
    <3>. QED BY <1>12, <3>1, <3>2
  <2>. QED BY <1>1, <2>1 DEF Packed
<1>14. SamePieces(d.info, d.parts)
  <2>1. ASSUME NEW b \in D, NEW k \in DOMAIN d.info[b].fragments
        PROVE  SamePiece(d.info[b].fragments[k], d.parts[d.info[b].fragments[k].pkg])
    <3>1. PICK x : x = d.info[b].fragments[k]  OBVIOUS
    <3>2. CASE x = f
      <4>1. \A j \in DOMAIN d.parts[p] : d.parts[p][j] = g \/ d.parts[p][j].h # g.h  BY <1>11
      <4>. QED BY <1>6, <3>1, <3>2, <4>1 DEF SamePiece
    <3>3. CASE k \in DOMAIN e.info[b].fragments /\ x = e.info[b].fragments[k]
      <4>1. LeadsBack(e.info, e.parts, b, x)  BY <1>1, <1>8, <3>3, PointsTo
      <4>2. PICK q \in Packages : q = x.pkg  BY <4>1 DEF LeadsBack
      <4>3. x.h # g.h
        <5>1. x.h \in UsedHandles(e.parts)  BY <4>1, <4>2 DEF LeadsBack, UsedHandles, HandlesOf
        <5>. QED BY <1>6, <5>1
      <4>4. \A j \in DOMAIN d.parts[q] :
                d.parts[q][j].h = x.h => j \in DOMAIN e.parts[q] /\ d.parts[q][j] = e.parts[q][j]
        BY <1>11, <4>3
      <4>5. SamePiece(x, e.parts[q])  BY <1>1, <1>8, <3>3, <4>2 DEF SamePieces
      <4>6. SamePiece(x, d.parts[q])  BY <4>4, <4>5 DEF SamePiece
      <4>. QED BY <3>1, <4>2, <4>6
    <3>. QED BY <1>12, <3>1, <3>2, <3>3
  <2>. QED BY <1>1, <2>1 DEF SamePieces
<1>15. OneInEach(d.parts)
  <2>1. ASSUME NEW q \in Packages, NEW j \in DOMAIN d.parts[q], NEW k \in DOMAIN d.parts[q],
               d.parts[q][j].action # NoAction, d.parts[q][j].action = d.parts[q][k].action
        PROVE  j = k
    <3>1. \A i \in DOMAIN d.parts[q] :
              \/ q = p /\ i = n + 1 /\ d.parts[q][i].action = a
              \/ i \in DOMAIN e.parts[q] /\ d.parts[q][i] = e.parts[q][i] /\ (q = p => d.parts[q][i].action # a)
      BY <1>2, <1>6, <1>11 DEF fs
    <3>. QED BY <1>8, <2>1, <3>1 DEF OneInEach
  <2>. QED BY <2>1 DEF OneInEach
<1>16. InQueueOrder(d.info, d.parts, queues)
  <2>1. ASSUME NEW k \in Links, NEW q \in Packages, NEW r \in Packages, Precedes(queues[k], q, r)
        PROVE  Ahead(d.info, d.parts, q, r)
    <3>1. Ahead(e.info, e.parts, q, r)  BY <1>8, <2>1 DEF InQueueOrder
    <3>2. Route[q] = k /\ Route[r] = k
      BY <2>1 DEF ItsTurn, OwnPackages, Precedes, ToSet
    <3>3. ASSUME NEW y \in Packages, NEW j \in DOMAIN e.parts[y], e.parts[y][j].action # NoAction
          PROVE  e.parts[y][j].action \in D
      BY <1>1, <1>8, <3>3 DEF Carried
    <3>4. CASE q = p
      <4>1. r # p  BY <1>9, <2>1, <3>2, <3>4 DEF ItsTurn, l
      <4>2. ~InFull(e.parts, p)  BY <1>9 DEF InFull, Planned
      <4>3. d.parts[r] = <<>>  BY <1>3, <3>1, <3>4, <4>1, <4>2 DEF Ahead
      <4>. QED BY <4>3 DEF Ahead
    <3>5. CASE q # p /\ r = p
      <4>1. InFull(d.parts, q)
        <5>1. Planned(e, q)  BY <2>1, <3>2, <3>5 DEF ItsTurn, l
        <5>. QED BY <1>3, <3>5, <5>1 DEF InFull, Planned
      <4>2. ASSUME NEW j \in DOMAIN d.parts[q], NEW k2 \in DOMAIN d.parts[p], d.parts[q][j].action # NoAction
            PROVE  /\ d.parts[p][k2].action # NoAction
                   /\ d.info[d.parts[q][j].action].time <= d.info[d.parts[p][k2].action].time
        <5>1. j \in DOMAIN e.parts[q] /\ d.parts[q][j] = e.parts[q][j]  BY <1>3, <3>5, <4>2
        <5>2. d.parts[q][j].action \in D
              /\ d.info[d.parts[q][j].action].time = e.info[d.parts[q][j].action].time
          BY <1>3, <3>3, <4>2, <5>1
        <5>3. CASE k2 = n + 1
          <6>1. IsHeld(e.info, e.parts, qs, q, j)  BY <1>1, <1>8, <4>2, <5>1, PointedTo
          <6>2. Carries(e.info, e.parts[q][j].action, Route[p])  BY <3>2, <3>5, <6>1 DEF IsHeld
          <6>3. e.info[d.parts[q][j].action].time <= e.info[a].time
            BY <1>8, <5>1, <5>2, <6>2, TurnAfter
          <6>4. d.parts[p][k2].action = a  BY <1>4, <1>6, <5>3
          <6>5. d.info[a].time = e.info[a].time  BY <1>3
          <6>. QED BY <1>1, <5>2, <6>3, <6>4, <6>5
        <5>4. CASE k2 # n + 1
          <6>1. k2 \in DOMAIN e.parts[p] /\ d.parts[p][k2] = e.parts[p][k2]  BY <1>11, <4>2, <5>4
          <6>2. /\ e.parts[p][k2].action # NoAction
                /\ e.info[e.parts[q][j].action].time <= e.info[e.parts[p][k2].action].time
            BY <3>1, <3>5, <4>2, <5>1, <6>1 DEF Ahead
          <6>3. e.parts[p][k2].action \in D  BY <3>3, <6>1, <6>2
          <6>. QED BY <1>3, <5>1, <5>2, <6>1, <6>2, <6>3
        <5>. QED BY <5>3, <5>4
      <4>. QED BY <3>5, <4>1, <4>2 DEF Ahead
    <3>6. CASE q # p /\ r # p
      <4>1. d.parts[q] = e.parts[q] /\ d.parts[r] = e.parts[r]  BY <1>3, <3>6
      <4>2. \A y \in {q, r} : \A j \in DOMAIN e.parts[y] : e.parts[y][j].action # NoAction
                => d.info[e.parts[y][j].action].time = e.info[e.parts[y][j].action].time
        BY <1>3, <3>3
      <4>3. InFull(d.parts, q) <=> InFull(e.parts, q)  BY <4>1 DEF InFull
      <4>. QED BY <3>1, <4>1, <4>2, <4>3 DEF Ahead
    <3>. QED BY <3>4, <3>5, <3>6
  <2>. QED BY <2>1 DEF InQueueOrder
<1>17. NoGaps(d.info, qs)
  <2>1. ASSUME NEW k \in Links, NEW b \in ToSet(qs[k]), NEW c \in ToSet(qs[k]),
               d.info[c].time < d.info[b].time, Carries(d.info, b, k), CanTake(d.info, c, k)
        PROVE  FALSE
    <3>1. b \in D /\ c \in D
      <4>1. qs[k] \in Seq(D)  OBVIOUS
      <4>. QED BY <4>1, Elements DEF ToSet
    <3>2. CanTake(e.info, c, k)
      <4>1. CASE c = a
        <5>1. k = l  BY <1>1, <1>3, <2>1, <4>1 DEF CanTake
        <5>. QED BY <1>3, <1>9, <2>1, <3>1, <4>1, <5>1 DEF CanTake
      <4>2. CASE c # a  BY <1>3, <2>1, <3>1, <4>2 DEF CanTake
      <4>. QED BY <4>1, <4>2
    <3>3. e.info[c].time < e.info[b].time  BY <1>3, <2>1, <3>1
    <3>4. CASE b = a
      <4>1. k = l  BY <1>3, <2>1, <3>4 DEF Carries
      <4>. QED BY <2>1, <3>2, <3>3, <3>4, <4>1 DEF ItsTurn, l
    <3>5. CASE b # a
      <4>1. Carries(e.info, b, k)  BY <1>3, <2>1, <3>1, <3>5 DEF Carries
      <4>. QED BY <1>8, <2>1, <3>2, <3>3, <4>1 DEF NoGaps
    <3>. QED BY <3>4, <3>5
  <2>. QED BY <2>1 DEF NoGaps
<1>. QED BY <1>7, <1>10, <1>13, <1>14, <1>15, <1>16, <1>17 DEF InTurnPlan

\* Sound plans in turn for a timeline that takes place at the times of i.
TurnPlans(D, i, qs, queues, T, t) ==
    {e \in SameTimes(D, i) : /\ SoundPlan(e.info, e.parts, qs, T, t)
                             /\ InTurnPlan(e.info, e.parts, qs, queues) /\ OnlyQueued(e.parts, queues)}

\* Planning adds to c what makes e of it, for actions after the time t.
Grows(D, i, c, e, t) ==
    /\ \A q \in Packages :
           /\ Planned(c, q) => e.parts[q] = c.parts[q]
           /\ \A k \in DOMAIN c.parts[q] : k \in DOMAIN e.parts[q] /\ e.parts[q][k] = c.parts[q][k]
           /\ \A k \in DOMAIN e.parts[q] \ DOMAIN c.parts[q] :
                  /\ e.parts[q][k].action \in D /\ i[e.parts[q][k].action].time > t
                  /\ e.parts[q][k].state = "UNENCODED" /\ e.parts[q][k].h \notin ToldHandles
    /\ \A a \in D : i[a].time <= t => e.info[a] = c.info[a]

LEMMA GrowsOn ==
    ASSUME NEW D, NEW i, NEW c, NEW d, NEW e, NEW t, Grows(D, i, c, d, t), Grows(D, i, d, e, t)
    PROVE  Grows(D, i, c, e, t)
<1>1. ASSUME NEW q \in Packages
      PROVE  /\ Planned(c, q) => e.parts[q] = c.parts[q]
             /\ \A k \in DOMAIN c.parts[q] : k \in DOMAIN e.parts[q] /\ e.parts[q][k] = c.parts[q][k]
             /\ \A k \in DOMAIN e.parts[q] \ DOMAIN c.parts[q] :
                    /\ e.parts[q][k].action \in D /\ i[e.parts[q][k].action].time > t
                    /\ e.parts[q][k].state = "UNENCODED" /\ e.parts[q][k].h \notin ToldHandles
  <2>1. Planned(c, q) => Planned(d, q) /\ d.parts[q] = c.parts[q]  BY DEF Grows, Planned
  <2>2. Planned(d, q) => e.parts[q] = d.parts[q]  BY DEF Grows
  <2>3. \A k \in DOMAIN c.parts[q] : k \in DOMAIN d.parts[q] /\ d.parts[q][k] = c.parts[q][k]  BY DEF Grows
  <2>4. \A k \in DOMAIN d.parts[q] : k \in DOMAIN e.parts[q] /\ e.parts[q][k] = d.parts[q][k]  BY DEF Grows
  <2>5. ASSUME NEW k \in DOMAIN e.parts[q] \ DOMAIN c.parts[q]
        PROVE  /\ e.parts[q][k].action \in D /\ i[e.parts[q][k].action].time > t
               /\ e.parts[q][k].state = "UNENCODED" /\ e.parts[q][k].h \notin ToldHandles
    <3>1. CASE k \in DOMAIN d.parts[q]
      <4>1. k \in DOMAIN d.parts[q] \ DOMAIN c.parts[q] /\ e.parts[q][k] = d.parts[q][k]
        BY <2>4, <2>5, <3>1
      <4>. QED BY <4>1 DEF Grows
    <3>2. CASE k \notin DOMAIN d.parts[q]  BY <2>5, <3>2 DEF Grows
    <3>. QED BY <3>1, <3>2
  <2>. QED BY <2>1, <2>2, <2>3, <2>4, <2>5
<1>2. \A a \in D : i[a].time <= t => e.info[a] = c.info[a]  BY DEF Grows
<1>. QED BY <1>1, <1>2 DEF Grows

LEMMA GrowsNot ==
    ASSUME NEW D, NEW i, NEW c, NEW e, NEW t, e.info = c.info, e.parts = c.parts
    PROVE  Grows(D, i, c, e, t)
BY DEF Grows

\* An addition is one such step.
LEMMA AddsGrows ==
    ASSUME NEW D, NEW e \in GoodPlans(D), NEW d \in GoodPlans(D),
           NEW p \in Packages, NEW a \in D, NEW exact, MayCarry(e, p, a, exact),
           NEW f \in Pointers, NEW g \in Fragments, Adds(e, d, p, a, f, g), NEW i, NEW t,
           ~(i[a].time <= t), i[a].time > t
    PROVE  Grows(D, i, e, d, t)
<1>1. /\ \A b \in D \ {a} : d.info[b] = e.info[b]
      /\ d.parts[p] = Append(e.parts[p], g)
      /\ \A q \in Packages \ {p} : d.parts[q] = e.parts[q]
  BY AddsShrinks
<1>2. e.parts[p] \in Seq(Fragments)  BY DEF GoodPlans, PlansOf
<1>3. IsAppended(e.parts[p], g, d.parts[p])  BY <1>1, <1>2, Appended
<1>4. g.action = a /\ g.state = "UNENCODED" /\ g.h \notin ToldHandles  BY DEF Adds, UsedHandles
<1>5. ~Planned(e, p)  BY DEF MayCarry
<1>6. ASSUME NEW q \in Packages
      PROVE  /\ Planned(e, q) => d.parts[q] = e.parts[q]
             /\ \A k \in DOMAIN e.parts[q] : k \in DOMAIN d.parts[q] /\ d.parts[q][k] = e.parts[q][k]
             /\ \A k \in DOMAIN d.parts[q] \ DOMAIN e.parts[q] :
                    /\ d.parts[q][k].action \in D /\ i[d.parts[q][k].action].time > t
                    /\ d.parts[q][k].state = "UNENCODED" /\ d.parts[q][k].h \notin ToldHandles
  <2>1. CASE q = p
    <3> DEFINE n == Len(e.parts[p])
    <3>1. /\ n \in Nat /\ DOMAIN e.parts[p] = 1 .. n /\ DOMAIN d.parts[p] = 1 .. n + 1
          /\ d.parts[p][n + 1] = g /\ \A k \in 1 .. n : d.parts[p][k] = e.parts[p][k]
      BY <1>3 DEF IsAppended
    <3> HIDE DEF n
    <3>2. \A k \in DOMAIN d.parts[p] \ DOMAIN e.parts[p] : d.parts[p][k] = g
      <4>1. \A k \in (1 .. n + 1) \ (1 .. n) : k = n + 1  BY <3>1
      <4>. QED BY <3>1, <4>1
    <3>3. \A k \in DOMAIN e.parts[p] : k \in DOMAIN d.parts[p] /\ d.parts[p][k] = e.parts[p][k]  BY <3>1
    <3>. QED BY <1>4, <1>5, <2>1, <3>2, <3>3
  <2>2. CASE q # p  BY <1>1, <2>2
  <2>. QED BY <2>1, <2>2
<1>7. \A b \in D : i[b].time <= t => d.info[b] = e.info[b]  BY <1>1
<1>. QED BY <1>6, <1>7 DEF Grows

\* The package p has its turn: those before it are planned, and what its link carries
\* takes place before the action a reaction adds.
HasTurn(D, i, c, p, qs, queues, exact) ==
    LET l == Route[p] IN
    /\ p \in ToSet(queues[l]) /\ OwnPackages(queues)
    /\ \A q \in Packages : Precedes(queues[l], q, p) => q # p /\ Planned(c, q)
    /\ exact \in ToSet(qs[l]) => \A b \in D : Carries(c.info, b, l) => i[b].time <= i[exact].time

\* What the plan e is of c when p has been offered the first k actions of the queue.
Offered(D, i, c, e, p, queue, exact, t, k) ==
    /\ Grows(D, i, c, e, t) /\ \A q \in Packages \ {p} : e.parts[q] = c.parts[q]
    /\ Planned(e, p) \/ \A m \in 1 .. k : ~MayCarry(e, p, queue[m], exact)
    /\ \A b \in D : Carries(e.info, b, Route[p]) => Carries(c.info, b, Route[p]) \/ \E m \in 1 .. k : b = queue[m]

LEMMA OfferedNext ==
    ASSUME NEW D, NEW i, NEW c, NEW e, NEW p \in Packages, NEW queue, NEW exact, NEW t, NEW k \in Nat \ {0},
           Offered(D, i, c, e, p, queue, exact, t, k - 1), ~MayCarry(e, p, queue[k], exact)
    PROVE  Offered(D, i, c, e, p, queue, exact, t, k)
<1>1. 1 .. k = 1 .. (k - 1) \cup {k}  OBVIOUS
<1>. QED BY <1>1 DEF Offered

\* One more action is offered and taken.
LEMMA OfferedTaken ==
    ASSUME TypeOK, NEW D, D \subseteq Actions, NEW i \in [D -> ActionInfo], OneAtATime(i),
           NEW qs \in [Links -> Seq(D)], NEW queues \in [Links -> Seq(Packages)], NEW T, NEW t \in Int,
           NEW c, NEW e \in TurnPlans(D, i, qs, queues, T, t),
           NEW p \in Packages, NEW exact, HasTurn(D, i, c, p, qs, queues, exact),
           NEW queue, queue = qs[Route[p]], Sorted(i, queue), InWindow(D, i, t, exact),
           NEW k \in DOMAIN queue, Offered(D, i, c, e, p, queue, exact, t, k - 1),
           MayCarry(e, p, queue[k], exact), NEW d, d = AddFragment(e, p, queue[k])
    PROVE  d \in TurnPlans(D, i, qs, queues, T, t) /\ Offered(D, i, c, d, p, queue, exact, t, k)
<1>1. PICK a : a = queue[k]  OBVIOUS
<1>2. PICK l \in Links : l = Route[p]  BY PackagesAssumption
<1>3. /\ queue \in Seq(D) /\ DOMAIN queue = 1 .. Len(queue) /\ Len(queue) \in Nat /\ a \in D /\ a \in ToSet(queue)
      /\ queue = qs[l] /\ k \in Nat \ {0} /\ k - 1 \in Nat
  BY <1>1, <1>2, Elements DEF ToSet
<1>4. /\ e \in SameTimes(D, i) /\ SoundPlan(e.info, e.parts, qs, T, t)
      /\ InTurnPlan(e.info, e.parts, qs, queues) /\ OnlyQueued(e.parts, queues)
  BY DEF TurnPlans
<1>5. /\ e \in GoodPlans(D) /\ e.info \in [D -> ActionInfo] /\ DOMAIN e.info = D
      /\ \A b \in D : e.info[b].time = i[b].time /\ e.info[b].enc = i[b].enc
  BY <1>4, PlanParts
<1>6. MayCarry(e, p, a, exact) /\ d = AddFragment(e, p, a)  BY <1>1
<1>7. ~Planned(e, p) /\ (a = exact \/ i[a].time > now + MaxEncodingTime)  BY <1>3, <1>5, <1>6 DEF MayCarry
<1>8. /\ now + MaxEncodingTime \in Int /\ \A b \in D : i[b].time \in Int
  <2>1. now + MaxEncodingTime \in Int /\ Times \subseteq Int  BY NumbersAre
  <2>2. \A b \in D : i[b].time \in Times  BY DEF ActionInfo
  <2>. QED BY <2>1, <2>2
<1>9. i[a].time > t /\ i[a].time >= now + MaxEncodingTime /\ ~(i[a].time <= t)
  <2>1. i[a].time > t /\ i[a].time >= now + MaxEncodingTime  BY <1>3, <1>7 DEF InWindow
  <2>2. ~(i[a].time <= t)  BY <1>3, <1>8, <2>1
  <2>. QED BY <2>1, <2>2
<1>10. OneAtATime(e.info)  BY <1>5 DEF OneAtATime
<1>11. ASSUME NEW b \in ToSet(queue), i[b].time < i[a].time
       PROVE  \E m \in 1 .. k - 1 : b = queue[m]
  <2>1. PICK m \in DOMAIN queue : b = queue[m]  BY <1>11 DEF ToSet
  <2>2. b \in D  BY <1>3, <2>1, Elements
  <2>3. ~(m = k)  BY <1>1, <1>3, <1>8, <1>11, <2>1
  <2>4. ~(k < m)
    <3>1. ASSUME k < m PROVE FALSE
      <4>1. Before(i, a, b)  BY <1>1, <2>1, <3>1 DEF Sorted
      <4>. QED BY <1>3, <1>8, <1>11, <2>2, <4>1 DEF Before
    <3>. QED BY <3>1
  <2>. QED BY <1>3, <2>1, <2>3, <2>4
<1>12. ItsTurn(e, p, a, qs, queues)
  <2>1. p \in ToSet(queues[l]) /\ OnlyQueued(e.parts, queues) /\ OwnPackages(queues)  BY <1>2, <1>4 DEF HasTurn
  <2>2. \A q \in Packages : Precedes(queues[l], q, p) => Planned(e, q)
    BY <1>2 DEF HasTurn, Offered, Planned
  <2>3. ASSUME NEW b \in ToSet(qs[l]), e.info[b].time < e.info[a].time
        PROVE  ~CanTake(e.info, b, l)
    <3>1. b \in D  BY <1>3, <2>3, Elements DEF ToSet
    <3>2. PICK m \in 1 .. k - 1 : b = queue[m]  BY <1>3, <1>5, <1>11, <2>3, <3>1
    <3>3. ~MayCarry(e, p, b, exact)  BY <1>7, <3>2 DEF Offered
    <3>. QED BY <1>2, <1>7, <3>3 DEF MayCarry, CanTake
  <2>4. \/ e.info[a].time > now + MaxEncodingTime
        \/ \A b \in D : Carries(e.info, b, l) => e.info[b].time <= e.info[a].time
    <3>1. CASE a # exact  BY <1>3, <1>5, <1>7, <3>1
    <3>2. CASE a = exact
      <4>1. ASSUME NEW b \in D, Carries(e.info, b, l) PROVE i[b].time <= i[a].time
        <5>1. CASE Carries(c.info, b, l)  BY <1>2, <1>3, <3>2, <5>1 DEF HasTurn
        <5>2. CASE \E m \in 1 .. k - 1 : b = queue[m]
          <6>1. PICK m \in 1 .. k - 1 : b = queue[m]  BY <5>2
          <6>2. m \in DOMAIN queue /\ m < k  BY <1>3, <6>1
          <6>3. Before(i, b, a)  BY <1>1, <6>1, <6>2 DEF Sorted
          <6>. QED BY <1>3, <1>8, <4>1, <6>3 DEF Before
        <5>. QED BY <1>2, <4>1, <5>1, <5>2 DEF Offered
      <4>. QED BY <1>3, <1>5, <4>1
    <3>. QED BY <3>1, <3>2
  <2>. QED BY <1>2, <1>5, <2>1, <2>2, <2>3, <2>4 DEF ItsTurn
<1>13. PICK f \in Pointers, g \in Fragments : d \in GoodPlans(D) /\ Adds(e, d, p, a, f, g)
  <2>1. reports \in Seq(Handles \X Statuses)  BY DEF TypeOK
  <2>. QED BY <1>3, <1>5, <1>6, <2>1, AddFragmentAdds
<1>14. SoundPlan(d.info, d.parts, qs, T, t) /\ InTurnPlan(d.info, d.parts, qs, queues) /\ OnlyQueued(d.parts, queues)
  <2>1. a \in ToSet(qs[Route[p]]) /\ e.info[a].time > t  BY <1>2, <1>3, <1>5, <1>9
  <2>. QED BY <1>3, <1>4, <1>5, <1>6, <1>10, <1>12, <1>13, <2>1, AddsTurn
<1>15. /\ ~MayCarry(d, p, a, exact)
       /\ \A b \in D : \A q \in Packages : \A x : MayCarry(d, q, b, x) => MayCarry(e, q, b, x)
       /\ \A b \in D : d.info[b].time = e.info[b].time /\ d.info[b].enc = e.info[b].enc
       /\ \A b \in D \ {a} : d.info[b] = e.info[b]
       /\ \A q \in Packages \ {p} : d.parts[q] = e.parts[q]
  BY <1>3, <1>5, <1>6, <1>13, AddsShrinks
<1>16. d \in TurnPlans(D, i, qs, queues, T, t)
  <2>1. d \in SameTimes(D, i)  BY <1>5, <1>13, <1>15 DEF SameTimes
  <2>. QED BY <1>14, <2>1 DEF TurnPlans
<1>17. Grows(D, i, c, d, t)
  <2>1. Grows(D, i, e, d, t)  BY <1>3, <1>5, <1>6, <1>9, <1>13, AddsGrows
  <2>2. Grows(D, i, c, e, t)  BY DEF Offered
  <2>. QED BY <2>1, <2>2, GrowsOn
<1>18. Offered(D, i, c, d, p, queue, exact, t, k)
  <2>1. \A q \in Packages \ {p} : d.parts[q] = c.parts[q]  BY <1>15 DEF Offered
  <2>2. \A m \in 1 .. k : ~MayCarry(d, p, queue[m], exact)
    <3>1. ASSUME NEW m \in 1 .. k - 1 PROVE ~MayCarry(d, p, queue[m], exact)
      <4>1. queue[m] \in D
        <5>1. m \in DOMAIN queue  BY <1>3
        <5>. QED BY <1>3, <5>1, Elements
      <4>2. ~MayCarry(e, p, queue[m], exact)  BY <1>7 DEF Offered
      <4>. QED BY <1>15, <4>1, <4>2
    <3>2. 1 .. k = 1 .. (k - 1) \cup {k}  BY <1>3
    <3>. QED BY <1>1, <1>15, <3>1, <3>2
  <2>3. ASSUME NEW b \in D, Carries(d.info, b, Route[p])
        PROVE  Carries(c.info, b, Route[p]) \/ \E m \in 1 .. k : b = queue[m]
    <3>1. CASE b = a
      <4>1. k \in 1 .. k  BY <1>3
      <4>. QED BY <1>1, <3>1, <4>1
    <3>2. CASE b # a
      <4>1. Carries(e.info, b, Route[p])  BY <1>15, <2>3, <3>2 DEF Carries
      <4>2. 1 .. k - 1 \subseteq 1 .. k  BY <1>3
      <4>. QED BY <4>1, <4>2 DEF Offered
    <3>. QED BY <3>1, <3>2
  <2>. QED BY <1>17, <2>1, <2>2, <2>3 DEF Offered
<1>. QED BY <1>16, <1>18

\* A package that has its turn is planned in turn, or found no action for what is
\* left of it.
LEMMA FillTurn ==
    ASSUME TypeOK, NEW D, D \subseteq Actions, NEW i \in [D -> ActionInfo], OneAtATime(i),
           NEW qs \in [Links -> Seq(D)], NEW queues \in [Links -> Seq(Packages)], NEW T, NEW t \in Int,
           NEW c \in TurnPlans(D, i, qs, queues, T, t),
           NEW p \in Packages, NEW exact, HasTurn(D, i, c, p, qs, queues, exact),
           NEW queue, queue = qs[Route[p]], Sorted(i, queue), InWindow(D, i, t, exact),
           NEW r, r = generateFragmentsForPackage(c, p, queue, exact)
    PROVE  r \in TurnPlans(D, i, qs, queues, T, t) /\ Offered(D, i, c, r, p, queue, exact, t, Len(queue))
<1>1. queue \in Seq(D) /\ Len(queue) \in Nat /\ DOMAIN queue = 1 .. Len(queue)
  <2>1. Route[p] \in Links  BY PackagesAssumption
  <2>. QED BY <2>1, Elements
<1> DEFINE P == [k \in 0 .. Len(queue) |-> {e \in TurnPlans(D, i, qs, queues, T, t) :
                                              Offered(D, i, c, e, p, queue, exact, t, k)}]
<1>2. c \in P[0]
  <2>1. Grows(D, i, c, c, t)  BY GrowsNot
  <2>2. Offered(D, i, c, c, p, queue, exact, t, 0)  BY <2>1 DEF Offered
  <2>. QED BY <1>1, <2>2
<1>3. ASSUME NEW k \in 1 .. Len(queue), NEW e \in P[k - 1] PROVE TakeAction(e, p, queue[k], exact) \in P[k]
  <2>1. k \in 0 .. Len(queue) /\ k - 1 \in 0 .. Len(queue) /\ k \in DOMAIN queue /\ k \in Nat \ {0}  BY <1>1
  <2>2. e \in TurnPlans(D, i, qs, queues, T, t) /\ Offered(D, i, c, e, p, queue, exact, t, k - 1)
    BY <2>1
  <2>3. CASE ~MayCarry(e, p, queue[k], exact)
    <3>1. TakeAction(e, p, queue[k], exact) = e  BY <2>3 DEF TakeAction
    <3>2. Offered(D, i, c, e, p, queue, exact, t, k)  BY <2>1, <2>2, <2>3, OfferedNext
    <3>. QED BY <2>1, <2>2, <3>1, <3>2
  <2>4. CASE MayCarry(e, p, queue[k], exact)
    <3>1. PICK d : d = AddFragment(e, p, queue[k])  OBVIOUS
    <3>2. TakeAction(e, p, queue[k], exact) = d  BY <2>4, <3>1 DEF TakeAction
    <3>3. d \in TurnPlans(D, i, qs, queues, T, t) /\ Offered(D, i, c, d, p, queue, exact, t, k)
      BY <2>1, <2>2, <2>4, <3>1, OfferedTaken
    <3>. QED BY <2>1, <3>2, <3>3
  <2>. QED BY <2>3, <2>4
<1>4. r \in P[Len(queue)]
  <2> HIDE DEF P
  <2>1. \A k \in 1 .. Len(queue) : \A e \in P[k - 1] : TakeAction(e, p, queue[k], exact) \in P[k]  BY <1>3
  <2>. QED BY <1>1, <1>2, <2>1, FillAlong
<1>5. Len(queue) \in 0 .. Len(queue)  BY <1>1
<1>. QED BY <1>4, <1>5

--------------------------------------------------------------------------------
LEMMA Division ==
    ASSUME NEW n \in Nat \ {0}, NEW q \in Nat, NEW s \in 0 .. n - 1
    PROVE  (q * n + s) \div n = q /\ (q * n + s) % n = s
<1>1. PICK x \in Nat : x = q * n + s  OBVIOUS
<1>2. /\ x \div n \in Int /\ x % n \in 0 .. n - 1 /\ x = n * (x \div n) + (x % n)
  OBVIOUS
<1>3. PICK y \in Int : y = x \div n  BY <1>2
<1>4. PICK r \in 0 .. n - 1 : r = x % n  BY <1>2
<1>5. q * n + s = n * y + r  BY <1>1, <1>2, <1>3, <1>4
<1>6. ~(y >= q + 1)
  <2>1. ASSUME y >= q + 1 PROVE FALSE
    <3>1. PICK z \in Nat : y = q + 1 + z
      <4>1. y - q - 1 \in Nat  BY <2>1
      <4>. QED BY <4>1
    <3>2. n * y = n * q + n + n * z /\ n * z \in Nat  BY <3>1
    <3>. QED BY <1>5, <3>2
  <2>. QED BY <2>1
<1>7. ~(q >= y + 1)
  <2>1. ASSUME q >= y + 1 PROVE FALSE
    <3>1. PICK z \in Nat : q = y + 1 + z
      <4>1. q - y - 1 \in Nat  BY <2>1
      <4>. QED BY <4>1
    <3>2. q * n = n * y + n + n * z /\ n * z \in Nat  BY <3>1
    <3>. QED BY <1>5, <3>2
  <2>. QED BY <2>1
<1>8. y = q  BY <1>6, <1>7
<1>9. r = s  BY <1>5, <1>8
<1>. QED BY <1>1, <1>3, <1>4, <1>8, <1>9

\* A place of a link has a turn, after those of the places before.
LEMMA TurnOfPlace ==
    ASSUME NEW l \in Links, NEW j \in 1 .. Cardinality(Packages)
    PROVE  \E m \in 1 .. Turns : LinkOfTurn(m) = l /\ PlaceOfTurn(m) = j
<1>1. PICK c : c = Cardinality(Packages)  OBVIOUS
<1>2. PICK n : n = Len(AllLinks)  OBVIOUS
<1>3. c \in Nat /\ AllLinks \in Seq(Links) /\ j \in 1 .. c  BY <1>1, PackagesAssumption, FS_CardinalityType
<1>4. n \in Nat /\ DOMAIN AllLinks = 1 .. n  BY <1>2, <1>3, Elements
<1>5. PICK k \in 1 .. n : AllLinks[k] = l
  <2>1. \E k \in DOMAIN AllLinks : AllLinks[k] = l  BY DEF Links, ToSet
  <2>. QED BY <1>4, <2>1
<1>6. n \in Nat \ {0} /\ k - 1 \in 0 .. n - 1 /\ j - 1 \in Nat  BY <1>3, <1>4
<1>7. PICK m : m = (j - 1) * n + (k - 1) + 1  OBVIOUS
<1>8. (m - 1) \div n = j - 1 /\ (m - 1) % n = k - 1
  <2>1. PICK q \in Nat : q = j - 1  BY <1>6
  <2>2. PICK s \in 0 .. n - 1 : s = k - 1  BY <1>6
  <2>3. PICK y \in Nat : y = q * n  BY <1>6
  <2>4. m = y + s + 1  BY <1>7, <2>1, <2>2, <2>3
  <2>5. m - 1 = q * n + s  BY <1>4, <2>3, <2>4
  <2>6. (q * n + s) \div n = q /\ (q * n + s) % n = s  BY <1>6, Division
  <2>. QED BY <2>1, <2>2, <2>5, <2>6
<1>9. m \in 1 .. Turns
  <2>1. Turns = c * n  BY <1>1, <1>2 DEF Turns
  <2>2. PICK z \in Nat : c = (j - 1) + 1 + z
    <3>1. c - j \in Nat /\ c = (j - 1) + 1 + (c - j)  BY <1>3
    <3>. QED BY <3>1
  <2>3. c * n = (j - 1) * n + n + z * n /\ z * n \in Nat /\ (j - 1) * n \in Nat  BY <1>6, <2>2
  <2>. QED BY <1>4, <1>7, <2>1, <2>3
<1>10. LinkOfTurn(m) = l
  <2>1. ((m - 1) % n) + 1 = k  BY <1>4, <1>8
  <2>. QED BY <1>2, <1>5, <2>1 DEF LinkOfTurn
<1>11. PlaceOfTurn(m) = j
  <2>1. ((m - 1) \div n) + 1 = j  BY <1>3, <1>8
  <2>. QED BY <1>2, <2>1 DEF PlaceOfTurn
<1>. QED BY <1>9, <1>10, <1>11

LEMMA TurnBefore ==
    ASSUME NEW n \in 1 .. Turns, NEW j \in Nat \ {0}, j < PlaceOfTurn(n)
    PROVE  \E m \in 1 .. n - 1 : LinkOfTurn(m) = LinkOfTurn(n) /\ PlaceOfTurn(m) = j
<1>1. PICK L : L = Len(AllLinks)  OBVIOUS
<1>2. L \in Nat \ {0}
  <2>1. LinkOfTurn(n) \in Links  BY TurnsAre
  <2>2. AllLinks \in Seq(Links)  BY PackagesAssumption
  <2>3. L \in Nat /\ DOMAIN AllLinks = 1 .. L  BY <1>1, <2>2, Elements
  <2>4. \E k \in DOMAIN AllLinks : TRUE  BY <2>1 DEF Links, ToSet
  <2>. QED BY <2>3, <2>4
<1>3. n \in Nat \ {0} /\ n - 1 \in Nat  BY TurnsAre
<1>4. PICK s \in 0 .. L - 1 : s = (n - 1) % L  BY <1>2, <1>3
<1>5. PICK q \in Nat : q = (n - 1) \div L  BY <1>2, <1>3
<1>6. n - 1 = L * q + s  BY <1>2, <1>3, <1>4, <1>5
<1>7. PlaceOfTurn(n) = q + 1 /\ j - 1 \in Nat /\ j - 1 < q  BY <1>1, <1>5 DEF PlaceOfTurn
<1>8. PICK m : m = (j - 1) * L + s + 1  OBVIOUS
<1>9. (m - 1) \div L = j - 1 /\ (m - 1) % L = s
  <2>1. PICK r \in Nat : r = j - 1  BY <1>7
  <2>2. PICK y \in Nat : y = r * L  BY <1>2
  <2>3. m = y + s + 1  BY <1>8, <2>1, <2>2
  <2>4. m - 1 = r * L + s  BY <1>2, <2>2, <2>3
  <2>5. (r * L + s) \div L = r /\ (r * L + s) % L = s  BY <1>2, Division
  <2>. QED BY <2>1, <2>4, <2>5
<1>10. m \in 1 .. n - 1
  <2>1. PICK z \in Nat : q = (j - 1) + 1 + z
    <3>1. q - j \in Nat /\ q = (j - 1) + 1 + (q - j)  BY <1>7
    <3>. QED BY <3>1
  <2>2. L * q = (j - 1) * L + L + z * L /\ z * L \in Nat /\ (j - 1) * L \in Nat  BY <1>2, <1>7, <2>1
  <2>. QED BY <1>2, <1>3, <1>6, <1>8, <2>2
<1>11. LinkOfTurn(m) = LinkOfTurn(n)  BY <1>1, <1>4, <1>9 DEF LinkOfTurn
<1>12. PlaceOfTurn(m) = j
  <2>1. ((m - 1) \div L) + 1 = j  BY <1>7, <1>9
  <2>. QED BY <1>1, <2>1 DEF PlaceOfTurn
<1>. QED BY <1>10, <1>11, <1>12

OnceEach(queues) == \A l \in Links : IsInjective(queues[l])

\* Every package had its turn and is planned, or its link is full, up to the turn n.
HadTurns(e, queues, n) ==
    \A m \in 1 .. n : PlaceOfTurn(m) <= Len(queues[LinkOfTurn(m)])
        => LinkOfTurn(m) \in e.full \/ Planned(e, queues[LinkOfTurn(m)][PlaceOfTurn(m)])

LEMMA HadNext ==
    ASSUME NEW c, NEW e, NEW D, NEW i, NEW t, Grows(D, i, c, e, t), c.full \subseteq e.full,
           NEW queues \in [Links -> Seq(Packages)], NEW n \in 1 .. Turns, HadTurns(c, queues, n - 1),
           PlaceOfTurn(n) <= Len(queues[LinkOfTurn(n)])
               => LinkOfTurn(n) \in e.full \/ Planned(e, queues[LinkOfTurn(n)][PlaceOfTurn(n)])
    PROVE  HadTurns(e, queues, n)
<1>1. \A q \in Packages : Planned(c, q) => Planned(e, q)  BY DEF Grows, Planned
<1>2. ASSUME NEW m \in 1 .. n, PlaceOfTurn(m) <= Len(queues[LinkOfTurn(m)])
      PROVE  LinkOfTurn(m) \in e.full \/ Planned(e, queues[LinkOfTurn(m)][PlaceOfTurn(m)])
  <2>1. m \in 1 .. Turns /\ n \in Nat /\ Turns \in Nat  BY TurnsAre
  <2>2. PICK l \in Links : l = LinkOfTurn(m)  BY <2>1, TurnsAre
  <2>3. PICK k \in Nat \ {0} : k = PlaceOfTurn(m)  BY <2>1, TurnsAre
  <2>4. queues[l][k] \in Packages
    <3>1. k \in DOMAIN queues[l]  BY <1>2, <2>2, <2>3, Elements
    <3>. QED BY <3>1, Elements
  <2>5. m # n => m \in 1 .. n - 1  BY <2>1
  <2>. QED BY <1>1, <1>2, <2>2, <2>3, <2>4, <2>5 DEF HadTurns
<1>. QED BY <1>2 DEF HadTurns

LEMMA WindowOpen ==
    ASSUME TypeOK, NEW D, D \subseteq Actions, NEW i \in [D -> ActionInfo], NEW t, Reached(t)
    PROVE  InWindow(D, i, t, NoAction)
<1>1. PICK w \in Int : w = now + MaxEncodingTime  BY NumbersAre
<1>2. t \in Int /\ t <= w  BY <1>1 DEF Reached
<1>3. Times \subseteq Int  BY NumbersAre
<1>4. \A a \in D : i[a].time \in Int /\ a # NoAction  BY <1>3, PackagesAssumption DEF ActionInfo
<1>5. \A a \in D : a = NoAction \/ i[a].time > w => i[a].time > t /\ i[a].time >= w  BY <1>2, <1>4
<1>. QED BY <1>1, <1>5 DEF InWindow

\* The plan with one link more full is one as well.
LEMMA FullTurn ==
    ASSUME NEW D, NEW i, NEW qs, NEW queues, NEW T, NEW t, NEW g \in TurnPlans(D, i, qs, queues, T, t),
           NEW l \in Links, NEW w, w = [g EXCEPT !.full = @ \union {l}]
    PROVE  /\ w \in TurnPlans(D, i, qs, queues, T, t)
           /\ w.info = g.info /\ w.parts = g.parts /\ w.full = g.full \union {l}
<1>1. g \in SameTimes(D, i) /\ g \in GoodPlans(D) /\ g \in PlansOf(D)  BY PlanParts DEF TurnPlans, GoodPlans
<1>2. w = [info |-> g.info, parts |-> g.parts, full |-> g.full \union {l}]  BY <1>1, FullGrows
<1>3. w.info = g.info /\ w.parts = g.parts /\ w.full = g.full \union {l}  BY <1>2
<1>4. w \in GoodPlans(D)  BY <1>1, <1>2, <1>3 DEF GoodPlans, PlansOf
<1>5. w \in SameTimes(D, i)  BY <1>1, <1>3, <1>4 DEF SameTimes
<1>. QED BY <1>3, <1>5 DEF TurnPlans

\* One turn.
LEMMA TurnTaken ==
    ASSUME TypeOK, NEW D, D \subseteq Actions, NEW i \in [D -> ActionInfo], OneAtATime(i),
           NEW qs \in [Links -> Seq(D)], AllSorted(i, qs),
           NEW queues \in [Links -> Seq(Packages)], OwnPackages(queues), OnceEach(queues),
           NEW T, NEW t, Reached(t),
           NEW e \in TurnPlans(D, i, qs, queues, T, t), NEW n \in 1 .. Turns, HadTurns(e, queues, n - 1),
           NEW r, r = TakeTurn(e, qs, queues, n)
    PROVE  r \in TurnPlans(D, i, qs, queues, T, t) /\ Grows(D, i, e, r, t) /\ HadTurns(r, queues, n)
<1>1. PICK l \in Links : l = LinkOfTurn(n)  BY TurnsAre
<1>2. PICK k \in Nat \ {0} : k = PlaceOfTurn(n)  BY TurnsAre
<1>3. queues[l] \in Seq(Packages) /\ Len(queues[l]) \in Nat /\ DOMAIN queues[l] = 1 .. Len(queues[l])
  BY Elements
<1>4. CASE Len(queues[l]) < k \/ l \in e.full
  <2>1. r = e  BY <1>1, <1>2, <1>4 DEF TakeTurn
  <2>2. Grows(D, i, e, r, t)  BY <2>1, GrowsNot
  <2>3. PlaceOfTurn(n) <= Len(queues[LinkOfTurn(n)])
            => LinkOfTurn(n) \in r.full \/ Planned(r, queues[LinkOfTurn(n)][PlaceOfTurn(n)])
    BY <1>1, <1>2, <1>3, <1>4, <2>1
  <2>4. HadTurns(r, queues, n)  BY <2>1, <2>2, <2>3, HadNext
  <2>. QED BY <2>1, <2>2, <2>4
<1>5. CASE ~(Len(queues[l]) < k) /\ l \notin e.full
  <2>1. k \in DOMAIN queues[l]  BY <1>2, <1>3, <1>5
  <2>2. PICK p \in Packages : p = queues[l][k]  BY <1>3, <2>1, Elements
  <2>3. p \in ToSet(queues[l]) /\ Route[p] = l  BY <2>1, <2>2 DEF OwnPackages, ToSet
  <2>4. PICK g : g = generateFragmentsForPackage(e, p, qs[l], NoAction)  OBVIOUS
  <2>5. r = IF Planned(g, p) THEN g ELSE [g EXCEPT !.full = @ \union {l}]
    BY <1>1, <1>2, <1>5, <2>2, <2>4 DEF TakeTurn
  <2>6. ASSUME NEW q \in Packages, Precedes(queues[l], q, p) PROVE q # p /\ Planned(e, q)
    <3>1. PICK j \in DOMAIN queues[l], m \in DOMAIN queues[l] : j < m /\ queues[l][j] = q /\ queues[l][m] = p
      BY <2>6 DEF Precedes
    <3>2. m = k  BY <2>1, <2>2, <3>1 DEF OnceEach, IsInjective
    <3>3. j \in Nat \ {0} /\ j < k  BY <1>3, <3>1, <3>2
    <3>4. q # p
      <4>1. j # k  BY <1>2, <3>3
      <4>. QED BY <2>1, <2>2, <3>1, <4>1 DEF OnceEach, IsInjective
    <3>5. PICK y \in 1 .. n - 1 : LinkOfTurn(y) = l /\ PlaceOfTurn(y) = j
      BY <1>1, <1>2, <3>3, TurnBefore
    <3>6. j <= Len(queues[l])  BY <1>3, <3>1
    <3>7. Planned(e, queues[l][j])  BY <1>5, <3>5, <3>6 DEF HadTurns
    <3>. QED BY <3>1, <3>4, <3>7
  <2>7. HasTurn(D, i, e, p, qs, queues, NoAction)
    <3>1. NoAction \notin ToSet(qs[l])
      <4>1. qs[l] \in Seq(D) /\ NoAction \notin D  BY PackagesAssumption
      <4>. QED BY <4>1, Elements DEF ToSet
    <3>. QED BY <2>3, <2>6, <3>1 DEF HasTurn
  <2>8. g \in TurnPlans(D, i, qs, queues, T, t) /\ Offered(D, i, e, g, p, qs[l], NoAction, t, Len(qs[l]))
    <3>1. InWindow(D, i, t, NoAction)  BY WindowOpen
    <3>2. t \in Int /\ Sorted(i, qs[l])  BY DEF Reached, AllSorted
    <3>3. PICK queue : queue = qs[Route[p]]  OBVIOUS
    <3>4. queue = qs[l]  BY <2>3, <3>3
    <3>5. g = generateFragmentsForPackage(e, p, queue, NoAction) /\ Sorted(i, queue)  BY <2>4, <3>2, <3>4
    <3>6. g \in TurnPlans(D, i, qs, queues, T, t) /\ Offered(D, i, e, g, p, queue, NoAction, t, Len(queue))
      BY <2>7, <3>1, <3>2, <3>3, <3>5, FillTurn
    <3>. QED BY <3>4, <3>6
  <2>9. Grows(D, i, e, g, t)  BY <2>8 DEF Offered
  <2>10. g.full = e.full
    <3>1. qs[l] \in Seq(D) /\ e \in SameTimes(D, i)  BY DEF TurnPlans
    <3>. QED BY <2>4, <3>1, FillFrame
  <2>11. CASE Planned(g, p)
    <3>1. r = g  BY <2>5, <2>11
    <3>2. /\ Planned(r, queues[LinkOfTurn(n)][PlaceOfTurn(n)]) /\ e.full \subseteq r.full
          /\ Grows(D, i, e, r, t)
      BY <1>1, <1>2, <2>2, <2>9, <2>10, <2>11, <3>1
    <3>3. HadTurns(r, queues, n)  BY <3>2, HadNext
    <3>. QED BY <2>8, <3>1, <3>2, <3>3
  <2>12. CASE ~Planned(g, p)
    <3>1. r = [g EXCEPT !.full = @ \union {l}]  BY <2>5, <2>12
    <3>2. /\ r \in TurnPlans(D, i, qs, queues, T, t)
          /\ r.info = g.info /\ r.parts = g.parts /\ r.full = g.full \union {l}
      BY <2>8, <3>1, FullTurn
    <3>3. Grows(D, i, e, r, t)  BY <2>9, <3>2 DEF Grows
    <3>4. HadTurns(r, queues, n)
      <4>1. LinkOfTurn(n) \in r.full /\ e.full \subseteq r.full  BY <1>1, <2>10, <3>2
      <4>. QED BY <3>3, <4>1, HadNext
    <3>. QED BY <3>2, <3>3, <3>4
  <2>. QED BY <2>11, <2>12
<1>. QED BY <1>4, <1>5

\* A queued package is planned, or there is no room for it.
Waiting(i, pa, qs, queues) ==
    \A l \in Links : \A p \in ToSet(queues[l]) :
        InFull(pa, p) \/ NoRoom(now + MaxEncodingTime, i, qs[l], l)

\* Planning all packages.
LEMMA AssignTurn ==
    ASSUME TypeOK, NEW D, D \subseteq Actions, NEW i \in [D -> ActionInfo], OneAtATime(i),
           NEW qs \in [Links -> Seq(D)], AllSorted(i, qs),
           NEW queues \in [Links -> Seq(Packages)], OwnPackages(queues), OnceEach(queues),
           NEW T, NEW t, Reached(t), NEW plan \in GoodPlans(D), NEW marked,
           NEW c, c = Cleared(plan, marked, qs), c \in TurnPlans(D, i, qs, queues, T, t),
           NEW r, r = generateFragmentsForAllPackages(plan, marked, qs, queues)
    PROVE  /\ r \in TurnPlans(D, i, qs, queues, T, t) /\ Grows(D, i, c, r, t)
           /\ Waiting(r.info, r.parts, qs, queues)
<1> DEFINE P == [n \in 0 .. Turns |-> {e \in TurnPlans(D, i, qs, queues, T, t) :
                                            Grows(D, i, c, e, t) /\ HadTurns(e, queues, n)}]
<1>1. Turns \in Nat  BY TurnsAre
<1>2. Cleared(plan, marked, qs) \in P[0]
  <2>1. Grows(D, i, c, c, t)  BY GrowsNot
  <2>2. HadTurns(c, queues, 0)  BY DEF HadTurns
  <2>. QED BY <1>1, <2>1, <2>2
<1>3. ASSUME NEW n \in 1 .. Turns, NEW e \in P[n - 1] PROVE TakeTurn(e, qs, queues, n) \in P[n]
  <2>1. n \in 0 .. Turns /\ n - 1 \in 0 .. Turns  BY <1>1
  <2>2. e \in TurnPlans(D, i, qs, queues, T, t) /\ Grows(D, i, c, e, t) /\ HadTurns(e, queues, n - 1)
    BY <2>1
  <2>3. PICK d : d = TakeTurn(e, qs, queues, n)  OBVIOUS
  <2>4. d \in TurnPlans(D, i, qs, queues, T, t) /\ Grows(D, i, e, d, t) /\ HadTurns(d, queues, n)
    BY <2>2, <2>3, TurnTaken
  <2>5. Grows(D, i, c, d, t)  BY <2>2, <2>4, GrowsOn
  <2>. QED BY <2>1, <2>3, <2>4, <2>5
<1>4. r \in P[Turns]
  <2> HIDE DEF P
  <2>1. \A n \in 1 .. Turns : \A e \in P[n - 1] : TakeTurn(e, qs, queues, n) \in P[n]  BY <1>3
  <2>. QED BY <1>1, <1>2, <2>1, AssignAlong
<1>5. r \in TurnPlans(D, i, qs, queues, T, t) /\ Grows(D, i, c, r, t) /\ HadTurns(r, queues, Turns)
  <2>1. Turns \in 0 .. Turns  BY <1>1
  <2>. QED BY <1>4, <2>1
<1>6. \A l \in r.full : NoRoom(now + MaxEncodingTime, r.info, qs[l], l)
  BY AllRoomFor DEF OwnPackages
<1>7. ASSUME NEW l \in Links, NEW p \in ToSet(queues[l])
      PROVE  InFull(r.parts, p) \/ NoRoom(now + MaxEncodingTime, r.info, qs[l], l)
  <2>1. queues[l] \in Seq(Packages) /\ IsInjective(queues[l])  BY DEF OnceEach
  <2>2. Len(queues[l]) \in Nat /\ DOMAIN queues[l] = 1 .. Len(queues[l])
        /\ \A j \in DOMAIN queues[l] : queues[l][j] \in Packages
    BY <2>1, Elements
  <2>3. Len(queues[l]) <= Cardinality(Packages)
    <3>1. PICK m \in Nat : m = Len(queues[l])  BY <2>2
    <3>2. PICK s : s = queues[l]  OBVIOUS
    <3>3. s \in [1 .. m -> Packages] /\ \A j, k \in 1 .. m : s[j] = s[k] => j = k
      BY <2>1, <2>2, <3>1, <3>2 DEF IsInjective
    <3>4. s \in Injection(1 .. m, Packages)  BY <3>3 DEF Injection, IsInjective
    <3>5. IsFiniteSet(Packages)  BY PackagesAssumption
    <3>6. IsFiniteSet(1 .. m) /\ Cardinality(1 .. m) = m  BY FS_Interval
    <3>7. Cardinality(1 .. m) <= Cardinality(Packages)  BY <3>4, <3>5, FS_Injection
    <3>. QED BY <3>1, <3>6, <3>7
  <2>4. PICK j \in DOMAIN queues[l] : queues[l][j] = p  BY DEF ToSet
  <2>5. j \in 1 .. Cardinality(Packages)
    <3>1. Cardinality(Packages) \in Nat  BY PackagesAssumption, FS_CardinalityType
    <3>. QED BY <2>2, <2>3, <2>4, <3>1
  <2>6. PICK m \in 1 .. Turns : LinkOfTurn(m) = l /\ PlaceOfTurn(m) = j  BY <2>5, TurnOfPlace
  <2>7. l \in r.full \/ Planned(r, p)  BY <1>5, <2>2, <2>4, <2>6 DEF HadTurns
  <2>. QED BY <1>6, <2>7 DEF Planned, InFull
<1>. QED BY <1>5, <1>7 DEF Waiting

--------------------------------------------------------------------------------
\* What clearing leaves of the timeline o and of the packages pa.
LeftIn(O, o, pa, X, W, D, c) ==
    /\ \A a \in D : c.info[a].fragments # <<>>
           => a \in O \ X /\ c.info[a] = o[a] /\ o[a].time <= now + MaxEncodingTime
    /\ \A q \in Packages : \A k \in DOMAIN c.parts[q] :
           /\ q \in W /\ k \in DOMAIN pa[q] /\ c.parts[q][k] = pa[q][k]
           /\ pa[q][k].action # NoAction => /\ pa[q][k].action \in O \ X /\ pa[q][k].action \in D
                                            /\ c.info[pa[q][k].action] = o[pa[q][k].action]
                                            /\ o[pa[q][k].action].time <= now + MaxEncodingTime
    /\ \A q \in W \cap Packages : \A k \in DOMAIN pa[q] :
           (\A m \in 1 .. k : pa[q][m].action # NoAction
                                 => /\ pa[q][m].action \notin X
                                    /\ o[pa[q][m].action].time <= now + MaxEncodingTime)
               => k \in DOMAIN c.parts[q]
    /\ \A a \in O \ X : o[a].time <= now + MaxEncodingTime => a \in D /\ c.info[a] = o[a]

LEMMA ClearedLeft ==
    ASSUME TypeOK, NEW O, O \subseteq Actions, NEW o \in [O -> ActionInfo],
           NEW pa \in [Packages -> Seq(Fragments)], NEW qo, NEW S, NEW t, SoundPlan(o, pa, qo, S, t),
           NEW X, NEW W, NEW D, D \subseteq Actions, NEW e \in GoodPlans(D), NEW T,
           NEW qs \in [Links -> Seq(D)], LeftOf(O, o, pa, X, W, D, e, T, qs),
           NEW marked, marked = CarriedBy(o, X), NEW c, c = Cleared(e, marked, qs)
    PROVE  LeftIn(O, o, pa, X, W, D, c)
<1>1. SoundPlan(c.info, c.parts, qs, T, t) /\ AllPast(c)  BY ClearedSound
<1>2. PICK w \in Int : w = now + MaxEncodingTime  BY NumbersAre
<1>3. /\ X \subseteq O
      /\ \A q \in Packages : e.parts[q] = IF q \in W THEN pa[q] ELSE <<>>
      /\ \A a \in O \ X : a \in D /\ e.info[a] = o[a]
      /\ \A a \in D : a \notin O \ X => e.info[a].fragments = <<>>
  BY DEF LeftOf
<1>4. PICK reset : reset = {a \in UNION {ToSet(qs[l]) : l \in Links} : e.info[a].time > w}  OBVIOUS
<1>5. PICK gone : gone = marked \union UNION {HandlesOf(e.info[a].fragments) : a \in reset}  OBVIOUS
<1>6. /\ e.info \in [D -> ActionInfo] /\ DOMAIN e.info = D /\ e.parts \in [Packages -> Seq(Fragments)]
      /\ c \in GoodPlans(D) /\ c.info \in [D -> ActionInfo] /\ DOMAIN c.info = D
      /\ DOMAIN o = O
      /\ \A a \in D : e.info[a].time \in Int
      /\ \A a \in O : o[a].time \in Int
  <2>1. c \in GoodPlans(D)  BY ClearedIs
  <2>2. Times \subseteq Int  BY NumbersAre
  <2>. QED BY <2>1, <2>2 DEF GoodPlans, PlansOf, ActionInfo
<1>7. /\ \A a \in D : a \notin reset => c.info[a] = e.info[a]
      /\ \A a \in D : a \in reset => c.info[a].fragments = <<>>
      /\ \A q \in Packages : c.parts[q] = removeMarkedFragments(e.parts[q], gone)
  <2> DEFINE anew == [a \in D |-> IF a \notin reset THEN e.info[a]
                                ELSE [e.info[a] EXCEPT !.fragments = <<>>,
                                         !.link = IF Target[a] = Wildcard THEN NoLink ELSE @]]
             rest == [p \in Packages |-> removeMarkedFragments(e.parts[p], gone)]
  <2>1. c = [info |-> anew, parts |-> rest, full |-> {}]
    BY <1>2, <1>4, <1>5, <1>6, Zenon DEF Cleared
  <2> HIDE DEF anew, rest
  <2>2. c.info = anew /\ c.parts = rest  BY ONLY <2>1
  <2>3. \A a \in D : e.info[a] \in ActionInfo  BY <1>6
  <2>4. ASSUME NEW a \in D, a \in reset PROVE c.info[a].fragments = <<>>
    <3>1. c.info[a] = [e.info[a] EXCEPT !.fragments = <<>>, !.link = IF Target[a] = Wildcard THEN NoLink ELSE @]
      BY <2>2, <2>4 DEF anew
    <3>. QED BY <2>3, <3>1 DEF ActionInfo
  <2>. QED BY <2>2, <2>4 DEF anew, rest
<1>8. ASSUME NEW a \in D, c.info[a].fragments # <<>>
      PROVE  a \in O \ X /\ c.info[a] = o[a] /\ o[a].time <= w
  <2>1. a \notin reset /\ c.info[a] = e.info[a]  BY <1>7, <1>8
  <2>2. a \in O \ X /\ e.info[a] = o[a]  BY <1>3, <1>8, <2>1
  <2>3. c.info[a].fragments \in Seq(Pointers)  BY <1>6 DEF ActionInfo
  <2>4. 1 \in DOMAIN c.info[a].fragments  BY <1>8, <2>3
  <2>5. PICK x : x = c.info[a].fragments[1]  OBVIOUS
  <2>6. x.pkg \in Packages  BY <2>3, <2>4, <2>5, PointerIs
  <2>7. PICK j \in DOMAIN c.parts[x.pkg] : c.parts[x.pkg][j].action = a
    BY <1>1, <1>6, <2>4, <2>5 DEF SoundPlan, PointBack
  <2>8. a # NoAction  BY PackagesAssumption
  <2>9. c.info[a].time <= w  BY <1>1, <1>2, <2>6, <2>7, <2>8 DEF AllPast, Past
  <2>. QED BY <2>1, <2>2, <2>9
<1>9. ASSUME NEW q \in Packages
      PROVE  /\ DOMAIN c.parts[q] \subseteq DOMAIN e.parts[q]
             /\ \A k \in DOMAIN c.parts[q] : c.parts[q][k] = e.parts[q][k]
             /\ \A k \in DOMAIN e.parts[q] : (\A m \in 1 .. k : e.parts[q][m].h \notin gone) => k \in DOMAIN c.parts[q]
  <2>1. PICK fs \in Seq(Fragments) : fs = e.parts[q]  BY <1>6
  <2>2. PICK r : r = c.parts[q]  OBVIOUS
  <2>3. r = removeMarkedFragments(fs, gone)  BY <1>7, <2>1, <2>2
  <2>4. /\ DOMAIN r \subseteq DOMAIN fs /\ \A k \in DOMAIN r : r[k] = fs[k]
        /\ \A k \in DOMAIN fs : (\A m \in 1 .. k : fs[m].h \notin gone) => k \in DOMAIN r
    BY <2>3, RemovedIs
  <2>. QED BY <2>1, <2>2, <2>4
<1>10. ASSUME NEW q \in Packages, NEW k \in DOMAIN c.parts[q]
       PROVE  /\ q \in W /\ k \in DOMAIN pa[q] /\ c.parts[q][k] = pa[q][k]
              /\ pa[q][k].action # NoAction => /\ pa[q][k].action \in O \ X /\ pa[q][k].action \in D
                                               /\ c.info[pa[q][k].action] = o[pa[q][k].action]
                                               /\ o[pa[q][k].action].time <= w
  <2>1. k \in DOMAIN e.parts[q] /\ c.parts[q][k] = e.parts[q][k]  BY <1>9
  <2>2. q \in W  BY <1>3, <2>1
  <2>3. k \in DOMAIN pa[q] /\ c.parts[q][k] = pa[q][k]  BY <1>3, <2>1, <2>2
  <2>4. ASSUME pa[q][k].action # NoAction
        PROVE  pa[q][k].action \in D /\ c.info[pa[q][k].action].fragments # <<>>
    <3>1. /\ c.parts[q][k].action \in D
          /\ c.parts[q][k].h \in HandlesOf(c.info[c.parts[q][k].action].fragments)
      BY <1>1, <1>6, <2>3, <2>4 DEF SoundPlan, Carried
    <3>. QED BY <2>3, <3>1, HandlesAre
  <2>. QED BY <1>8, <2>2, <2>3, <2>4
<1>11. ASSUME NEW q \in W \cap Packages, NEW k \in DOMAIN pa[q],
              \A m \in 1 .. k : pa[q][m].action # NoAction
                                   => pa[q][m].action \notin X /\ o[pa[q][m].action].time <= w
       PROVE  k \in DOMAIN c.parts[q]
  <2>1. e.parts[q] = pa[q] /\ pa[q] \in Seq(Fragments)  BY <1>3
  <2>2. DOMAIN pa[q] = 1 .. Len(pa[q]) /\ Len(pa[q]) \in Nat  BY <2>1, Elements
  <2>3. ASSUME NEW m \in 1 .. k, pa[q][m].h \in gone PROVE FALSE
    <3>1. m \in DOMAIN pa[q]  BY <2>2
    <3>2. PICK x \in O : /\ pa[q][m].h \in HandlesOf(o[x].fragments)
                         /\ x \in X \/ o[x].time > w
      <4>1. CASE pa[q][m].h \in marked  BY <1>3, <4>1 DEF CarriedBy
      <4>2. CASE \E x \in reset : pa[q][m].h \in HandlesOf(e.info[x].fragments)
        <5>1. PICK x \in reset : pa[q][m].h \in HandlesOf(e.info[x].fragments)  BY <4>2
        <5>2. x \in D /\ e.info[x].time > w
          <6>1. \A l \in Links : ToSet(qs[l]) \subseteq D  BY Elements DEF ToSet
          <6>. QED BY <1>4, <6>1
        <5>3. x \in O \ X /\ e.info[x] = o[x]  BY <1>3, <5>1, <5>2, HandlesAre
        <5>. QED BY <5>1, <5>2, <5>3
      <4>. QED BY <1>5, <2>3, <4>1, <4>2
    <3>3. PICK y \in DOMAIN o[x].fragments : o[x].fragments[y].h = pa[q][m].h  BY <3>2, HandlesAre
    <3>4. PICK z \in Packages : z = o[x].fragments[y].pkg
      <4>1. o[x].fragments \in Seq(Pointers)  BY DEF ActionInfo
      <4>. QED BY <3>3, <4>1, PointerIs
    <3>5. PICK j \in DOMAIN pa[z] : pa[z][j].h = pa[q][m].h /\ pa[z][j].action = x
      BY <1>6, <3>3, <3>4 DEF SoundPlan, PointBack
    <3>6. z = q /\ j = m  BY <3>1, <3>5 DEF SoundPlan, OneEach
    <3>7. pa[q][m].action = x /\ x # NoAction  BY <3>5, <3>6, PackagesAssumption
    <3>. QED BY <1>6, <1>11, <2>3, <3>2, <3>7
  <2>. QED BY <1>9, <2>1, <2>3
<1>12. ASSUME NEW a \in O \ X, o[a].time <= w PROVE a \in D /\ c.info[a] = o[a]
  <2>1. a \in D /\ e.info[a] = o[a]  BY <1>3
  <2>2. a \notin reset  BY <1>4, <1>6, <1>12, <2>1
  <2>. QED BY <1>7, <2>1, <2>2
<1>. QED BY <1>2, <1>8, <1>10, <1>11, <1>12 DEF LeftIn

\* Queues that hold packages of W only, in the order they had.
LessQueued(pa, W, before, queues) ==
    /\ \A l \in Links : \A p, q \in Packages :
           Precedes(queues[l], p, q) => p \in W /\ Precedes(before[l], p, q)
    /\ \A p \in W \cap Packages : pa[p] # <<>> => p \in ToSet(queues[Route[p]])

\* Clearing keeps the packages in turn.
LEMMA ClearedTurn ==
    ASSUME TypeOK, NEW O, O \subseteq Actions, NEW o \in [O -> ActionInfo], OneAtATime(o),
           NEW pa \in [Packages -> Seq(Fragments)], NEW qo, NEW S, NEW t, SoundPlan(o, pa, qo, S, t),
           NEW before, InTurnPlan(o, pa, qo, before),
           NEW X, X \subseteq O, \A a \in X : o[a].time >= now + MaxEncodingTime,
           NEW W, NEW D, D \subseteq Actions, NEW c \in GoodPlans(D), LeftIn(O, o, pa, X, W, D, c),
           NEW qs \in [Links -> Seq(D)], NEW queues, LessQueued(pa, W, before, queues)
    PROVE  InTurnPlan(c.info, c.parts, qs, queues) /\ OnlyQueued(c.parts, queues)
<1>1. PICK w \in Int : w = now + MaxEncodingTime  BY NumbersAre
<1>2. /\ c.info \in [D -> ActionInfo] /\ DOMAIN c.info = D /\ DOMAIN o = O
      /\ c.parts \in [Packages -> Seq(Fragments)]
      /\ \A a \in O : o[a].time \in Int /\ o[a].fragments \in Seq(Pointers)
  <2>1. Times \subseteq Int  BY NumbersAre
  <2>. QED BY <2>1 DEF GoodPlans, PlansOf, ActionInfo
<1>3. ASSUME NEW a \in D, c.info[a].fragments # <<>>
      PROVE  a \in O \ X /\ c.info[a] = o[a] /\ o[a].time <= w
  BY <1>1, <1>3 DEF LeftIn
<1>4. ASSUME NEW q \in Packages, NEW k \in DOMAIN c.parts[q]
      PROVE  /\ q \in W /\ k \in DOMAIN pa[q] /\ c.parts[q][k] = pa[q][k]
             /\ pa[q][k].action # NoAction => /\ pa[q][k].action \in O \ X
                                              /\ c.info[pa[q][k].action] = o[pa[q][k].action]
                                              /\ o[pa[q][k].action].time <= w
  BY <1>1 DEF LeftIn
<1>5. Packed(c.info)
  <2>1. ASSUME NEW a \in D, NEW k \in DOMAIN c.info[a].fragments
        PROVE  a \in O /\ c.info[a] = o[a]
    BY <1>3, <2>1
  <2>2. Packed(o)  BY DEF InTurnPlan
  <2>. QED BY <1>2, <2>1, <2>2 DEF Packed
<1>6. SamePieces(c.info, c.parts)
  <2>1. ASSUME NEW a \in D, NEW k \in DOMAIN c.info[a].fragments
        PROVE  SamePiece(c.info[a].fragments[k], c.parts[c.info[a].fragments[k].pkg])
    <3>1. a \in O /\ c.info[a] = o[a]  BY <1>3, <2>1
    <3>2. PICK x : x = o[a].fragments[k]  OBVIOUS
    <3>3. PICK q \in Packages : q = x.pkg  BY <1>2, <2>1, <3>1, <3>2, PointerIs
    <3>4. SamePiece(x, pa[q])  BY <1>2, <2>1, <3>1, <3>2, <3>3 DEF InTurnPlan, SamePieces
    <3>5. \A j \in DOMAIN c.parts[q] : j \in DOMAIN pa[q] /\ c.parts[q][j] = pa[q][j]  BY <1>4
    <3>6. SamePiece(x, c.parts[q])  BY <3>4, <3>5 DEF SamePiece
    <3>. QED BY <3>1, <3>2, <3>3, <3>6
  <2>. QED BY <1>2, <2>1 DEF SamePieces
<1>7. OneInEach(c.parts)
  <2>1. OneInEach(pa)  BY DEF InTurnPlan
  <2>. QED BY <1>4, <2>1 DEF OneInEach
<1>8. ASSUME NEW l \in Links, NEW p \in Packages, NEW q \in Packages, Precedes(queues[l], p, q)
      PROVE  Ahead(c.info, c.parts, p, q)
  <2>1. p \in W /\ Ahead(o, pa, p, q)
    <3>1. p \in W /\ Precedes(before[l], p, q)  BY <1>8 DEF LessQueued
    <3>. QED BY <3>1 DEF InTurnPlan, InQueueOrder
  <2>2. ASSUME c.parts[q] # <<>>
        PROVE  InFull(c.parts, p)
    <3>1. 1 \in DOMAIN c.parts[q]
      <4>1. c.parts[q] \in Seq(Fragments)  BY <1>2
      <4>. QED BY <2>2, <4>1
    <3>2. 1 \in DOMAIN pa[q] /\ pa[q] # <<>>  BY <1>4, <3>1
    <3>3. InFull(pa, p)  BY <2>1, <3>2 DEF Ahead
    <3>4. pa[p] \in Seq(Fragments) /\ c.parts[p] \in Seq(Fragments)  BY <1>2
    <3>5. DOMAIN pa[p] = 1 .. Len(pa[p]) /\ Len(pa[p]) \in Nat  BY <3>4, Elements
    <3>6. ASSUME NEW m \in DOMAIN pa[p], pa[p][m].action # NoAction
          PROVE  pa[p][m].action \notin X /\ o[pa[p][m].action].time <= w
      <4>1. PICK b \in O : b = pa[p][m].action  BY <1>2, <3>6 DEF SoundPlan, Carried
      <4>2. PICK a : a = pa[q][1].action  OBVIOUS
      <4>3. a # NoAction /\ o[b].time <= o[a].time  BY <2>1, <3>2, <3>6, <4>1, <4>2 DEF Ahead
      <4>4. a \in O \ X /\ o[a].time <= w  BY <1>4, <3>1, <4>2, <4>3
      <4>5. ASSUME b \in X PROVE FALSE
        <5>1. o[b].time >= w  BY <1>1, <4>5
        <5>2. o[b].time = o[a].time  BY <1>2, <4>1, <4>3, <4>4, <5>1
        <5>3. b = a  BY <1>2, <4>1, <4>4, <5>2 DEF OneAtATime
        <5>. QED BY <4>4, <4>5, <5>3
      <4>6. o[b].time <= w
        <5>1. o[a].time \in Int /\ o[b].time \in Int  BY <1>2, <4>1, <4>4
        <5>. QED BY <1>1, <4>3, <4>4, <5>1
      <4>. QED BY <4>1, <4>5, <4>6
    <3>7. ASSUME NEW k \in DOMAIN pa[p] PROVE k \in DOMAIN c.parts[p]
      <4>1. \A m \in 1 .. k : m \in DOMAIN pa[p]  BY <3>5
      <4>. QED BY <1>1, <2>1, <3>6, <4>1 DEF LeftIn
    <3>8. c.parts[p] = pa[p]
      <4>1. DOMAIN c.parts[p] = DOMAIN pa[p]  BY <1>4, <3>7
      <4>2. \A k \in DOMAIN pa[p] : c.parts[p][k] = pa[p][k]  BY <1>4, <3>7
      <4>. QED BY <3>4, <4>1, <4>2
    <3>. QED BY <3>3, <3>8 DEF InFull
  <2>3. ASSUME NEW m \in DOMAIN c.parts[p], NEW n \in DOMAIN c.parts[q], c.parts[p][m].action # NoAction
        PROVE  /\ c.parts[q][n].action # NoAction
               /\ c.info[c.parts[p][m].action].time <= c.info[c.parts[q][n].action].time
    <3>1. m \in DOMAIN pa[p] /\ c.parts[p][m] = pa[p][m] /\ n \in DOMAIN pa[q] /\ c.parts[q][n] = pa[q][n]
      BY <1>4
    <3>2. pa[q][n].action # NoAction /\ o[pa[p][m].action].time <= o[pa[q][n].action].time
      BY <2>1, <2>3, <3>1 DEF Ahead
    <3>3. /\ c.info[pa[p][m].action] = o[pa[p][m].action]
          /\ c.info[pa[q][n].action] = o[pa[q][n].action]
      BY <1>4, <2>3, <3>1, <3>2
    <3>. QED BY <3>1, <3>2, <3>3
  <2>. QED BY <2>2, <2>3 DEF Ahead
<1>9. NoGaps(c.info, qs)
  <2>1. ASSUME NEW l \in Links, NEW a \in ToSet(qs[l]), NEW b \in ToSet(qs[l]),
               c.info[a].time < c.info[b].time, Carries(c.info, b, l), CanTake(c.info, a, l)
        PROVE  FALSE
    <3>1. a \in D /\ b \in D  BY Elements DEF ToSet
    <3>2. c.info[b].time <= w /\ c.info[b].time \in Int  BY <1>2, <1>3, <2>1, <3>1 DEF Carries
    <3>3. c.info[a].time > w  BY <1>1, <2>1 DEF CanTake
    <3>4. c.info[a].time \in Int
      <4>1. Times \subseteq Int  BY NumbersAre
      <4>. QED BY <1>2, <3>1, <4>1 DEF ActionInfo
    <3>. QED BY <2>1, <3>2, <3>3, <3>4
  <2>. QED BY <2>1 DEF NoGaps
<1>10. OnlyQueued(c.parts, queues)
  <2>1. ASSUME NEW p \in Packages, c.parts[p] # <<>> PROVE p \in ToSet(queues[Route[p]])
    <3>1. 1 \in DOMAIN c.parts[p]
      <4>1. c.parts[p] \in Seq(Fragments)  BY <1>2
      <4>. QED BY <2>1, <4>1
    <3>2. p \in W /\ pa[p] # <<>>  BY <1>4, <3>1
    <3>. QED BY <3>2 DEF LessQueued
  <2>. QED BY <2>1 DEF OnlyQueued
<1>. QED BY <1>5, <1>6, <1>7, <1>8, <1>9, <1>10 DEF InTurnPlan, InQueueOrder

\* The fragment f is done or its action has been encoded when encoding got to t.
Enc(i, f, t) == f.action = NoAction \/ i[f.action].time <= t

\* Planning leaves what is encoded or done of the packages W as it is, and adds
\* fragments that are new.
KeepsEncoded(O, o, pa, W, D, r, t) ==
    /\ \A q \in Packages \cap W : \A k \in DOMAIN pa[q] :
           Enc(o, pa[q][k], t) => k \in DOMAIN r.parts[q] /\ r.parts[q][k] = pa[q][k] /\ Enc(r.info, pa[q][k], t)
    /\ \A q \in Packages : \A k \in DOMAIN r.parts[q] :
           \/ q \in W /\ k \in DOMAIN pa[q] /\ r.parts[q][k] = pa[q][k]
              /\ (Enc(r.info, pa[q][k], t) => Enc(o, pa[q][k], t))
           \/ /\ r.parts[q][k].action \in D /\ r.info[r.parts[q][k].action].time > t
              /\ r.parts[q][k].state = "UNENCODED" /\ r.parts[q][k].h \notin ToldHandles
    /\ \A a \in O : o[a].time <= t => a \in D /\ r.info[a] = o[a]

LEMMA ClearedEncoded ==
    ASSUME TypeOK, NEW O, O \subseteq Actions, NEW o \in [O -> ActionInfo],
           NEW pa \in [Packages -> Seq(Fragments)], NEW qo, NEW S, NEW t, SoundPlan(o, pa, qo, S, t),
           Reached(t), NEW X, X \subseteq O, \A a \in X : o[a].time > t,
           NEW W, NEW D, D \subseteq Actions, NEW c \in GoodPlans(D), LeftIn(O, o, pa, X, W, D, c)
    PROVE  KeepsEncoded(O, o, pa, W, D, c, t)
<1>1. PICK w \in Int : w = now + MaxEncodingTime  BY NumbersAre
<1>2. t \in Int /\ t <= w  BY <1>1 DEF Reached
<1>3. DOMAIN o = O /\ \A a \in O : o[a].time \in Int
  <2>1. Times \subseteq Int  BY NumbersAre
  <2>. QED BY <2>1 DEF ActionInfo
<1>4. ASSUME NEW a \in O, o[a].time <= t PROVE a \notin X /\ o[a].time <= w /\ a \in D /\ c.info[a] = o[a]
  <2>1. a \notin X /\ o[a].time <= w  BY <1>2, <1>3, <1>4
  <2>. QED BY <1>1, <2>1 DEF LeftIn
<1>5. ASSUME NEW q \in Packages, NEW k \in DOMAIN c.parts[q]
      PROVE  /\ q \in W /\ k \in DOMAIN pa[q] /\ c.parts[q][k] = pa[q][k]
             /\ pa[q][k].action # NoAction => c.info[pa[q][k].action] = o[pa[q][k].action]
  BY DEF LeftIn
<1>6. ASSUME NEW q \in Packages \cap W, NEW k \in DOMAIN pa[q], Enc(o, pa[q][k], t)
      PROVE  k \in DOMAIN c.parts[q] /\ c.parts[q][k] = pa[q][k] /\ Enc(c.info, pa[q][k], t)
  <2>1. DOMAIN pa[q] = 1 .. Len(pa[q]) /\ Len(pa[q]) \in Nat
    <3>1. pa[q] \in Seq(Fragments)  OBVIOUS
    <3>. QED BY <3>1, Elements
  <2>2. ASSUME NEW m \in 1 .. k, pa[q][m].action # NoAction
        PROVE  pa[q][m].action \in O /\ o[pa[q][m].action].time <= t
    <3>1. m \in DOMAIN pa[q]  BY <2>1
    <3>2. pa[q][m].action \in O  BY <1>3, <2>2, <3>1 DEF SoundPlan, Carried
    <3>3. CASE m = k  BY <1>6, <2>2, <3>2, <3>3 DEF Enc
    <3>4. CASE m # k
      <4>1. m < k  BY <2>1, <3>4
      <4>2. pa[q][k].action # NoAction /\ o[pa[q][m].action].time <= o[pa[q][k].action].time
        BY <2>2, <3>1, <4>1 DEF SoundPlan, InTimeOrder
      <4>3. pa[q][k].action \in O  BY <1>3, <4>2 DEF SoundPlan, Carried
      <4>4. o[pa[q][k].action].time <= t  BY <1>6, <4>2 DEF Enc
      <4>. QED BY <1>2, <1>3, <3>2, <4>2, <4>3, <4>4
    <3>. QED BY <3>3, <3>4
  <2>3. k \in DOMAIN c.parts[q]
    <3>1. \A m \in 1 .. k : pa[q][m].action # NoAction
                                => pa[q][m].action \notin X /\ o[pa[q][m].action].time <= w
      BY <1>4, <2>2
    <3>. QED BY <1>1, <3>1 DEF LeftIn
  <2>4. c.parts[q][k] = pa[q][k]  BY <1>5, <2>3
  <2>5. Enc(c.info, pa[q][k], t)
    <3>1. k \in 1 .. k  BY <2>1
    <3>2. pa[q][k].action # NoAction => o[pa[q][k].action].time <= t /\ c.info[pa[q][k].action] = o[pa[q][k].action]
      BY <1>5, <2>2, <2>3, <3>1
    <3>. QED BY <3>2 DEF Enc
  <2>. QED BY <2>3, <2>4, <2>5
<1>7. \A q \in Packages : \A k \in DOMAIN c.parts[q] :
          Enc(c.info, pa[q][k], t) => Enc(o, pa[q][k], t)
  BY <1>5 DEF Enc
<1>. QED BY <1>4, <1>5, <1>6, <1>7 DEF KeepsEncoded

\* What grows from a plan that keeps it does so as well.
LEMMA GrowsKept ==
    ASSUME NEW O, NEW o, NEW pa, NEW W, NEW D, NEW i, NEW c \in SameTimes(D, i), NEW e \in SameTimes(D, i),
           NoAction \notin D, NEW qs, NEW T, NEW t \in Int, SoundPlan(c.info, c.parts, qs, T, t),
           SoundPlan(e.info, e.parts, qs, T, t),
           KeepsEncoded(O, o, pa, W, D, c, t), Grows(D, i, c, e, t), \A a \in O : o[a].time <= t => i[a].time = o[a].time
    PROVE  KeepsEncoded(O, o, pa, W, D, e, t)
<1>1. /\ \A a \in D : c.info[a].time = i[a].time /\ e.info[a].time = i[a].time
      /\ DOMAIN c.info = D /\ DOMAIN e.info = D
  BY PlanParts
<1>2. ASSUME NEW q \in Packages, NEW k \in DOMAIN c.parts[q]
      PROVE  /\ k \in DOMAIN e.parts[q] /\ e.parts[q][k] = c.parts[q][k]
             /\ Enc(e.info, c.parts[q][k], t) <=> Enc(c.info, c.parts[q][k], t)
  <2>1. k \in DOMAIN e.parts[q] /\ e.parts[q][k] = c.parts[q][k]  BY DEF Grows
  <2>2. c.parts[q][k].action # NoAction => c.parts[q][k].action \in D
    BY <1>1 DEF SoundPlan, Carried
  <2>. QED BY <1>1, <2>1, <2>2 DEF Enc
<1>3. ASSUME NEW q \in Packages \cap W, NEW k \in DOMAIN pa[q], Enc(o, pa[q][k], t)
      PROVE  k \in DOMAIN e.parts[q] /\ e.parts[q][k] = pa[q][k] /\ Enc(e.info, pa[q][k], t)
  <2>1. k \in DOMAIN c.parts[q] /\ c.parts[q][k] = pa[q][k] /\ Enc(c.info, pa[q][k], t)
    BY <1>3 DEF KeepsEncoded
  <2>. QED BY <1>2, <2>1
<1>4. ASSUME NEW q \in Packages, NEW k \in DOMAIN e.parts[q]
      PROVE  \/ q \in W /\ k \in DOMAIN pa[q] /\ e.parts[q][k] = pa[q][k]
                /\ (Enc(e.info, pa[q][k], t) => Enc(o, pa[q][k], t))
             \/ /\ e.parts[q][k].action \in D /\ e.info[e.parts[q][k].action].time > t
                /\ e.parts[q][k].state = "UNENCODED" /\ e.parts[q][k].h \notin ToldHandles
  <2>1. CASE k \in DOMAIN c.parts[q]
    <3>1. e.parts[q][k] = c.parts[q][k] /\ (Enc(e.info, c.parts[q][k], t) <=> Enc(c.info, c.parts[q][k], t))
      BY <1>2, <2>1
    <3>2. \/ q \in W /\ k \in DOMAIN pa[q] /\ c.parts[q][k] = pa[q][k]
             /\ (Enc(c.info, pa[q][k], t) => Enc(o, pa[q][k], t))
          \/ /\ c.parts[q][k].action \in D /\ c.info[c.parts[q][k].action].time > t
             /\ c.parts[q][k].state = "UNENCODED" /\ c.parts[q][k].h \notin ToldHandles
      BY <2>1 DEF KeepsEncoded
    <3>3. CASE q \in W /\ k \in DOMAIN pa[q] /\ c.parts[q][k] = pa[q][k]
               /\ (Enc(c.info, pa[q][k], t) => Enc(o, pa[q][k], t))
      BY <3>1, <3>3
    <3>4. CASE /\ c.parts[q][k].action \in D /\ c.info[c.parts[q][k].action].time > t
               /\ c.parts[q][k].state = "UNENCODED" /\ c.parts[q][k].h \notin ToldHandles
      BY <1>1, <3>1, <3>4
    <3>. QED BY <3>2, <3>3, <3>4
  <2>2. CASE k \notin DOMAIN c.parts[q]
    <3>1. /\ e.parts[q][k].action \in D /\ i[e.parts[q][k].action].time > t
          /\ e.parts[q][k].state = "UNENCODED" /\ e.parts[q][k].h \notin ToldHandles
      BY <1>4, <2>2 DEF Grows
    <3>. QED BY <1>1, <3>1
  <2>. QED BY <2>1, <2>2
<1>5. ASSUME NEW a \in O, o[a].time <= t PROVE a \in D /\ e.info[a] = o[a]
  <2>1. a \in D /\ c.info[a] = o[a] /\ i[a].time <= t  BY <1>5 DEF KeepsEncoded
  <2>. QED BY <2>1 DEF Grows
<1>. QED BY <1>3, <1>4, <1>5 DEF KeepsEncoded

\* What a planning of all packages results in.
TurnPlanned(O, o, pa, W, D, i, qs, queues, T, t, r) ==
    /\ r \in TurnPlans(D, i, qs, queues, T, t)
    /\ Waiting(r.info, r.parts, qs, queues) /\ KeepsEncoded(O, o, pa, W, D, r, t)

\* A package in full that is planned for no later than the window stays as it is.
Stays(o, pa, X, W, r) ==
    \A q \in W \cap Packages :
        /\ InFull(pa, q)
        /\ \A k \in DOMAIN pa[q] : pa[q][k].action # NoAction
              => pa[q][k].action \notin X /\ o[pa[q][k].action].time <= now + MaxEncodingTime
        => r.parts[q] = pa[q]

LEMMA LeftStays ==
    ASSUME NEW O, NEW o, NEW pa \in [Packages -> Seq(Fragments)], NEW X, NEW W, NEW D, NEW c \in GoodPlans(D),
           LeftIn(O, o, pa, X, W, D, c), NEW i, NEW t, NEW r, Grows(D, i, c, r, t)
    PROVE  Stays(o, pa, X, W, r)
<1>1. ASSUME NEW q \in W \cap Packages, InFull(pa, q),
             \A k \in DOMAIN pa[q] : pa[q][k].action # NoAction
                => pa[q][k].action \notin X /\ o[pa[q][k].action].time <= now + MaxEncodingTime
      PROVE  r.parts[q] = pa[q]
  <2>1. /\ pa[q] \in Seq(Fragments) /\ c.parts[q] \in Seq(Fragments)  BY <1>1 DEF GoodPlans, PlansOf
  <2>2. /\ Len(pa[q]) \in Nat /\ DOMAIN pa[q] = 1 .. Len(pa[q])
        /\ Len(c.parts[q]) \in Nat /\ DOMAIN c.parts[q] = 1 .. Len(c.parts[q])
    BY <2>1, Elements
  <2>3. \A k \in DOMAIN c.parts[q] : k \in DOMAIN pa[q] /\ c.parts[q][k] = pa[q][k]  BY <1>1 DEF LeftIn
  <2>4. \A k \in DOMAIN pa[q] : k \in DOMAIN c.parts[q]
    <3>1. \A k \in DOMAIN pa[q] : \A m \in 1 .. k : m \in DOMAIN pa[q]  BY <2>2
    <3>. QED BY <1>1, <3>1 DEF LeftIn
  <2>5. DOMAIN c.parts[q] = DOMAIN pa[q]  BY <2>3, <2>4
  <2>6. c.parts[q] = pa[q]
    <3>1. Len(c.parts[q]) = Len(pa[q])  BY <2>2, <2>5
    <3>2. \A k \in 1 .. Len(pa[q]) : c.parts[q][k] = pa[q][k]  BY <2>2, <2>3, <2>5
    <3>. QED BY <2>1, <3>1, <3>2, SeqEqual
  <2>7. Planned(c, q)  BY <1>1, <2>6 DEF Planned, InFull
  <2>. QED BY <1>1, <2>6, <2>7 DEF Grows
<1>. QED BY <1>1 DEF Stays

\* Planning anew keeps the packages in turn, leaves what is encoded alone, and lets
\* a package wait only where there is no room.
LEMMA AllTurn ==
    ASSUME TypeOK, NEW O, O \subseteq Actions, NEW o \in [O -> ActionInfo],
           NEW pa \in [Packages -> Seq(Fragments)], NEW qo, NEW S, NEW t, SoundPlan(o, pa, qo, S, t),
           Reached(t), NEW X, NEW W, NEW D, D \subseteq Actions, NEW e \in GoodPlans(D), NEW T,
           NEW qs \in [Links -> Seq(D)], LeftOf(O, o, pa, X, W, D, e, T, qs), AllSorted(e.info, qs),
           OneAtATime(e.info), NEW before, InTurnPlan(o, pa, qo, before), \A a \in X : o[a].time > t,
           NEW queues \in [Links -> Seq(Packages)], OwnPackages(queues), OnceEach(queues),
           LessQueued(pa, W, before, queues),
           NEW marked, marked = CarriedBy(o, X),
           NEW r, r = generateFragmentsForAllPackages(e, marked, qs, queues)
    PROVE  TurnPlanned(O, o, pa, W, D, e.info, qs, queues, T, t, r) /\ Stays(o, pa, X, W, r)
<1>1. PICK c : c = Cleared(e, marked, qs)  OBVIOUS
<1>2. PICK i : i = e.info  OBVIOUS
<1>3. i \in [D -> ActionInfo]  BY <1>2 DEF GoodPlans, PlansOf
<1>4. c \in GoodPlans(D) /\ c \in SameTimes(D, i)
  <2>1. c \in GoodPlans(D)  BY <1>1, ClearedIs
  <2>2. \A a \in D : c.info[a].time = i[a].time /\ c.info[a].enc = i[a].enc
    BY <1>1, <1>2, ClearedKeepsTimes
  <2>. QED BY <2>1, <2>2 DEF SameTimes
<1>5. SoundPlan(c.info, c.parts, qs, T, t)  BY <1>1, ClearedSound
<1>6. LeftIn(O, o, pa, X, W, D, c)  BY <1>1, ClearedLeft
<1>7. OneAtATime(o) /\ X \subseteq O /\ \A a \in X : o[a].time >= now + MaxEncodingTime  BY DEF LeftOf
<1>8. InTurnPlan(c.info, c.parts, qs, queues) /\ OnlyQueued(c.parts, queues)
  BY <1>4, <1>6, <1>7, ClearedTurn
<1>9. KeepsEncoded(O, o, pa, W, D, c, t)  BY <1>4, <1>6, <1>7, ClearedEncoded
<1>10. c \in TurnPlans(D, i, qs, queues, T, t)  BY <1>4, <1>5, <1>8 DEF TurnPlans
<1>11. /\ r \in TurnPlans(D, i, qs, queues, T, t) /\ Grows(D, i, c, r, t)
       /\ Waiting(r.info, r.parts, qs, queues)
  BY <1>1, <1>2, <1>3, <1>10, AssignTurn
<1>12. KeepsEncoded(O, o, pa, W, D, r, t)
  <2>1. r \in SameTimes(D, i) /\ SoundPlan(r.info, r.parts, qs, T, t)  BY <1>11 DEF TurnPlans
  <2>2. \A a \in O : o[a].time <= t => i[a].time = o[a].time
    <3>1. \A a \in O : o[a].time <= t => a \in D /\ c.info[a] = o[a]  BY <1>9 DEF KeepsEncoded
    <3>2. \A a \in D : c.info[a].time = i[a].time  BY <1>4, PlanParts
    <3>. QED BY <3>1, <3>2
  <2>3. NoAction \notin D /\ t \in Int  BY PackagesAssumption DEF Reached
  <2>. QED BY <1>4, <1>5, <1>9, <1>11, <2>1, <2>2, <2>3, GrowsKept
<1>13. Stays(o, pa, X, W, r)  BY <1>4, <1>6, <1>11, LeftStays
<1>. QED BY <1>2, <1>11, <1>12, <1>13 DEF TurnPlanned

--------------------------------------------------------------------------------
(* The plan of the managers is one in turn: the packages of a link are planned  *)
(* in the order of its queue, and wait only where there is no room.             *)

TurnInv ==
    InTurnPlan(info, parts, actionQueue, packageQueue) /\ Waiting(info, parts, actionQueue, packageQueue)

\* Fragments in other states cover what they did.
LEMMA RestatedFull ==
    ASSUME NEW pa \in [Packages -> Seq(Fragments)], NEW pb \in [Packages -> Seq(Fragments)],
           Restated(pa, pb), NEW p \in Packages
    PROVE  /\ InFull(pa, p) <=> InFull(pb, p)
           /\ pb[p] # <<>> <=> pa[p] # <<>>
<1>1. /\ DOMAIN pa[p] = 1 .. Len(pa[p]) /\ Len(pa[p]) \in Nat
      /\ DOMAIN pb[p] = 1 .. Len(pb[p]) /\ Len(pb[p]) \in Nat
      /\ DOMAIN pa[p] = DOMAIN pb[p]
  <2>1. pa[p] \in Seq(Fragments) /\ pb[p] \in Seq(Fragments)  OBVIOUS
  <2>. QED BY <2>1, Elements DEF Restated
<1>2. Len(pa[p]) = Len(pb[p])
  <2>1. \A m, n \in Nat : 1 .. m = 1 .. n => m <= n
    <3>1. ASSUME NEW m \in Nat, NEW n \in Nat, 1 .. m = 1 .. n, ~(m <= n) PROVE FALSE
      <4>1. m \in 1 .. m /\ m \notin 1 .. n  BY <3>1
      <4>. QED BY <3>1, <4>1
    <3>. QED BY <3>1
  <2>2. \A m, n \in Nat : m <= n /\ n <= m => m = n  OBVIOUS
  <2>3. 1 .. Len(pa[p]) = 1 .. Len(pb[p])  BY <1>1
  <2>4. Len(pa[p]) <= Len(pb[p]) /\ Len(pb[p]) <= Len(pa[p])  BY <1>1, <2>1, <2>3
  <2>. QED BY <1>1, <2>2, <2>4
<1>3. /\ pa[p] = <<>> <=> Len(pa[p]) = 0
      /\ pb[p] = <<>> <=> Len(pb[p]) = 0
  <2>1. pa[p] \in Seq(Fragments) /\ pb[p] \in Seq(Fragments)  OBVIOUS
  <2>2. \A s \in Seq(Fragments) : s = <<>> <=> Len(s) = 0  BY EmptySeq
  <2>. QED BY <2>1, <2>2
<1>4. pa[p] # <<>> => Len(pa[p]) \in DOMAIN pa[p]  BY <1>1, <1>3
<1>. QED BY <1>1, <1>2, <1>3, <1>4 DEF Restated, InFull, Covered, Last

\* A step that plans nothing and leaves no action more room keeps the turn.
LEMMA TurnRestated ==
    ASSUME TypeOK, TypeOK', TurnInv, SameLoads(info, info'), Restated(parts, parts'), now <= now',
           \A a \in DOMAIN info : isActionAbleToFit(info'[a]) => isActionAbleToFit(info[a]),
           UNCHANGED <<actionQueue, packageQueue>>,
           PlanInv, \A l \in Links : ToSet(actionQueue[l]) \subseteq DOMAIN info
    PROVE  TurnInv'
<1>1. /\ parts \in [Packages -> Seq(Fragments)] /\ parts' \in [Packages -> Seq(Fragments)]
      /\ info \in [DOMAIN info -> ActionInfo]
  BY DEF TypeOK
<1>2. /\ DOMAIN info' = DOMAIN info
      /\ \A a \in DOMAIN info : /\ info'[a].time = info[a].time /\ info'[a].link = info[a].link
                                /\ info'[a].fragments = info[a].fragments
  BY DEF SameLoads
<1>3. \A p \in Packages :
         /\ InFull(parts, p) <=> InFull(parts', p)
         /\ parts'[p] # <<>> <=> parts[p] # <<>>
  BY <1>1, RestatedFull
<1>4. now + MaxEncodingTime <= now' + MaxEncodingTime
  <2>1. now \in Int /\ now' \in Int /\ MaxEncodingTime \in Int
    BY PackagesAssumption DEF TypeOK
  <2>. QED BY <2>1
<1>5. \A a \in DOMAIN info : info[a].time > now' + MaxEncodingTime => info[a].time > now + MaxEncodingTime
  <2>1. now + MaxEncodingTime \in Int /\ now' + MaxEncodingTime \in Int
    BY PackagesAssumption DEF TypeOK
  <2>2. \A a \in DOMAIN info : info[a].time \in Int
    <3>1. \A a \in DOMAIN info : info[a].time \in Times  BY <1>1 DEF ActionInfo
    <3>. QED BY <3>1, NumbersAre
  <2>. QED BY <1>4, <2>1, <2>2
<1>6. \A a \in DOMAIN info : \A l \in Links : CanTake(info, a, l)' => CanTake(info, a, l)
  BY <1>2, <1>5 DEF CanTake
<1>7. Packed(info)'  BY <1>2 DEF Packed, TurnInv, InTurnPlan
<1>8. SamePieces(info, parts)'
  <2>1. \A a \in DOMAIN info : info[a].fragments \in Seq(Pointers)  BY <1>1 DEF ActionInfo
  <2>2. \A a \in DOMAIN info : \A k \in DOMAIN info[a].fragments : info[a].fragments[k].pkg \in Packages
    BY <2>1, PointerIs
  <2>3. ASSUME NEW a \in DOMAIN info, NEW k \in DOMAIN info[a].fragments,
               NEW j \in DOMAIN parts'[info[a].fragments[k].pkg],
               parts'[info[a].fragments[k].pkg][j].h = info[a].fragments[k].h
        PROVE  /\ info[a].fragments[k].off = parts'[info[a].fragments[k].pkg][j].off
               /\ info[a].fragments[k].len = parts'[info[a].fragments[k].pkg][j].len
    <3>1. PICK x : x = info[a].fragments[k]  OBVIOUS
    <3>2. x.pkg \in Packages /\ j \in DOMAIN parts'[x.pkg] /\ parts'[x.pkg][j].h = x.h
      BY <2>2, <2>3, <3>1
    <3>3. j \in DOMAIN parts[x.pkg] /\ parts[x.pkg][j].h = x.h  BY <3>2 DEF Restated
    <3>4. SamePiece(x, parts[x.pkg])  BY <3>1 DEF SamePieces, TurnInv, InTurnPlan
    <3>5. x.off = parts[x.pkg][j].off /\ x.len = parts[x.pkg][j].len  BY <3>3, <3>4 DEF SamePiece
    <3>6. x.off = parts'[x.pkg][j].off /\ x.len = parts'[x.pkg][j].len
      BY <3>2, <3>3, <3>5 DEF Restated
    <3>. QED BY <3>1, <3>6
  <2>4. \A a \in DOMAIN info : \A k \in DOMAIN info[a].fragments :
           SamePiece(info[a].fragments[k], parts'[info[a].fragments[k].pkg])
    BY <2>3 DEF SamePiece
  <2>. QED BY <1>2, <2>4 DEF SamePieces
<1>9. OneInEach(parts)'  BY DEF OneInEach, TurnInv, InTurnPlan, Restated
<1>10. InQueueOrder(info, parts, packageQueue)'
  <2>1. ASSUME NEW l \in Links, NEW p \in Packages, NEW q \in Packages, Precedes(packageQueue[l], p, q)
        PROVE  Ahead(info, parts, p, q)'
    <3>1. Ahead(info, parts, p, q)  BY <2>1 DEF TurnInv, InTurnPlan, InQueueOrder
    <3>2. parts'[q] # <<>> => InFull(parts', p)  BY <1>3, <3>1 DEF Ahead
    <3>3. ASSUME NEW m \in DOMAIN parts'[p], NEW n \in DOMAIN parts'[q], parts'[p][m].action # NoAction
          PROVE  /\ parts'[q][n].action # NoAction
                 /\ info'[parts'[p][m].action].time <= info'[parts'[q][n].action].time
      <4>1. /\ m \in DOMAIN parts[p] /\ n \in DOMAIN parts[q]
            /\ parts'[p][m].action = parts[p][m].action /\ parts'[q][n].action = parts[q][n].action
        BY DEF Restated
      <4>2. /\ parts[q][n].action # NoAction
            /\ info[parts[p][m].action].time <= info[parts[q][n].action].time
        BY <3>1, <3>3, <4>1 DEF Ahead
      <4>3. parts[p][m].action \in DOMAIN info /\ parts[q][n].action \in DOMAIN info
        BY <3>3, <4>1, <4>2 DEF PlanInv, SoundPlan, Carried
      <4>. QED BY <1>2, <4>1, <4>2, <4>3
    <3>. QED BY <3>2, <3>3 DEF Ahead
  <2>. QED BY <2>1 DEF InQueueOrder
<1>11. NoGaps(info, actionQueue)'
  <2>1. ASSUME NEW l \in Links, NEW a \in ToSet(actionQueue[l]), NEW b \in ToSet(actionQueue[l]),
               info'[a].time < info'[b].time, Carries(info', b, l)
        PROVE  ~CanTake(info, a, l)'
    <3>1. a \in DOMAIN info /\ b \in DOMAIN info  OBVIOUS
    <3>2. info[a].time < info[b].time /\ Carries(info, b, l)  BY <1>2, <2>1, <3>1 DEF Carries
    <3>3. ~CanTake(info, a, l)  BY <3>2 DEF TurnInv, InTurnPlan, NoGaps
    <3>. QED BY <1>6, <3>1, <3>3
  <2>. QED BY <2>1 DEF NoGaps
<1>12. Waiting(info, parts, actionQueue, packageQueue)'
  <2>1. ASSUME NEW l \in Links, NEW p \in ToSet(packageQueue[l]), ~InFull(parts', p)
        PROVE  NoRoom(now + MaxEncodingTime, info, actionQueue[l], l)'
    <3>1. p \in Packages
      <4>1. packageQueue[l] \in Seq(Packages)  BY DEF TypeOK
      <4>. QED BY <4>1 DEF ToSet
    <3>2. NoRoom(now + MaxEncodingTime, info, actionQueue[l], l)
      BY <1>3, <2>1, <3>1 DEF TurnInv, Waiting
    <3>3. ASSUME NEW k \in DOMAIN actionQueue[l], info'[actionQueue[l][k]].time > now' + MaxEncodingTime,
                 info'[actionQueue[l][k]].link \in {l, NoLink}
          PROVE  ~isActionAbleToFit(info'[actionQueue[l][k]])
      <4>1. actionQueue[l][k] \in DOMAIN info  BY DEF ToSet
      <4>. QED BY <1>2, <1>5, <3>2, <3>3, <4>1 DEF NoRoom
    <3>. QED BY <3>3 DEF NoRoom
  <2>. QED BY <2>1 DEF Waiting
<1>. QED BY <1>7, <1>8, <1>9, <1>10, <1>11, <1>12 DEF TurnInv, InTurnPlan

LEMMA StatesRestated ==
    ASSUME TypeOK, NEW hs, NEW state \in FragmentStates,
           NEW pb, pb = [p \in Packages |-> SetState(p, hs, state)]
    PROVE  Restated(parts, pb)
<1>1. ASSUME NEW p \in Packages
      PROVE  /\ DOMAIN SetState(p, hs, state) = DOMAIN parts[p]
             /\ \A k \in DOMAIN parts[p] :
                   LET f == parts[p][k]
                       g == SetState(p, hs, state)[k]
                   IN  g.h = f.h /\ g.off = f.off /\ g.len = f.len /\ g.action = f.action
  BY SetStateIs
<1>2. \A p \in Packages : pb[p] = SetState(p, hs, state)  OBVIOUS
<1>. QED BY <1>1, <1>2 DEF Restated

LEMMA NotRestated ==
    ASSUME NEW pa, NEW pb, pb = pa
    PROVE  Restated(pa, pb)
BY DEF Restated

\* What is not UNENCODED has no room.
LEMMA EncodedFull == \A i : i.enc # "UNENCODED" => ~isActionAbleToFit(i)
BY DEF isActionAbleToFit, spaceAvailableInAction

\* Steps that do not touch what is planned.
LEMMA TurnSame ==
    ASSUME TypeInv, TypeInv', PlanInv, TurnInv, now <= now', UNCHANGED <<info, parts, actionQueue, packageQueue>>
    PROVE  TurnInv'
<1>1. SameLoads(info, info') /\ Restated(parts, parts')  BY NotRestated DEF SameLoads
<1>2. \A l \in Links : ToSet(actionQueue[l]) \subseteq DOMAIN info
  <2>1. \A l \in Links : actionQueue[l] \in Seq(DOMAIN info)  BY DEF TypeInv, QueuesSorted
  <2>. QED BY <2>1 DEF ToSet
<1>. QED BY <1>1, <1>2, TurnRestated DEF TypeInv

LEMMA TurnTick ==
    ASSUME TypeInv, TypeInv', PlanInv, TurnInv, Tick
    PROVE  TurnInv'
<1>1. now' = now + 1 /\ UNCHANGED <<info, parts, actionQueue, packageQueue>>
  BY DEF Tick, actionVars, packageVars
<1>2. now <= now'  BY <1>1 DEF TypeInv, TypeOK
<1>. QED BY <1>1, <1>2, TurnSame

\* The actions of info' are those of info, some of them further on in encoding.
FurtherOn ==
    /\ SameLoads(info, info')
    /\ \A a \in DOMAIN info : info'[a] = info[a] \/ info'[a].enc # "UNENCODED"

LEMMA TurnFurther ==
    ASSUME TypeInv, TypeInv', PlanInv, TurnInv, FurtherOn, Restated(parts, parts'),
           UNCHANGED <<now, actionQueue, packageQueue>>
    PROVE  TurnInv'
<1>1. now <= now'  BY DEF TypeInv, TypeOK
<1>2. \A a \in DOMAIN info : isActionAbleToFit(info'[a]) => isActionAbleToFit(info[a])
  BY EncodedFull DEF FurtherOn
<1>3. \A l \in Links : ToSet(actionQueue[l]) \subseteq DOMAIN info
  <2>1. \A l \in Links : actionQueue[l] \in Seq(DOMAIN info)  BY DEF TypeInv, QueuesSorted
  <2>. QED BY <2>1 DEF ToSet
<1>. QED BY <1>1, <1>2, <1>3, TurnRestated DEF TypeInv, FurtherOn

LEMMA EncodeFurther ==
    ASSUME TypeInv, EncodeActions
    PROVE  FurtherOn /\ Restated(parts, parts') /\ UNCHANGED <<now, linkStatus, actionQueue, packageQueue, reports, told>>
<1>1. PICK started : info' = [a \in DOMAIN info |-> IF a \in started THEN [info[a] EXCEPT !.enc = "ENCODING"]
                                                    ELSE info[a]]
  BY DEF EncodeActions
<1>2. info \in [DOMAIN info -> ActionInfo]  BY DEF TypeInv, TypeOK
<1>3. \A a \in DOMAIN info : [info[a] EXCEPT !.enc = "ENCODING"].enc = "ENCODING"
  BY <1>2 DEF ActionInfo
<1>4. \A a \in DOMAIN info : info'[a] = info[a] \/ info'[a].enc # "UNENCODED"  BY <1>1, <1>3
<1>5. PICK due : SameLoads(info, info') /\ parts' = [p \in Packages |-> SetState(p, CarriedBy(info, due), "ENCODING")]
  BY EncodeIs DEF TypeInv
<1>6. "ENCODING" \in FragmentStates  BY DEF FragmentStates
<1>7. Restated(parts, parts')  BY <1>5, <1>6, StatesRestated DEF TypeInv
<1>8. UNCHANGED <<now, linkStatus, actionQueue, packageQueue, reports, told>>  BY DEF EncodeActions
<1>. QED BY <1>4, <1>5, <1>7, <1>8 DEF FurtherOn

LEMMA EncodedFurther ==
    ASSUME TypeInv, EncodedInTime, NEW a \in Actions, OnBytesEncoded(a)
    PROVE  FurtherOn /\ Restated(parts, parts') /\ UNCHANGED <<now, linkStatus, actionQueue, packageQueue, reports, told>>
<1> DEFINE hs == HandlesOf(info[a].fragments)
<1>1. /\ a \in DOMAIN encoder
      /\ \/ /\ info' = [info EXCEPT ![a].enc = "ENQUEUED"]
            /\ parts' = [p \in Packages |-> SetState(p, hs, "ENQUEUED")]
         \/ info' = info /\ parts' = parts
      /\ UNCHANGED <<now, linkStatus, actionQueue, packageQueue, reports, told>>
  BY DEF OnBytesEncoded
<1>2. a \in DOMAIN info  BY <1>1 DEF EncodedInTime
<1>3. CASE info' = info /\ parts' = parts
  BY <1>1, <1>3, NotRestated DEF FurtherOn, SameLoads
<1>4. CASE /\ info' = [info EXCEPT ![a].enc = "ENQUEUED"]
           /\ parts' = [p \in Packages |-> SetState(p, hs, "ENQUEUED")]
  <2>1. info \in [DOMAIN info -> ActionInfo]  BY DEF TypeInv, TypeOK
  <2>2. info' = [b \in DOMAIN info |-> IF b = a THEN [info[a] EXCEPT !.enc = "ENQUEUED"] ELSE info[b]]
    BY <1>4, <2>1
  <2>3. /\ [info[a] EXCEPT !.enc = "ENQUEUED"].time = info[a].time
        /\ [info[a] EXCEPT !.enc = "ENQUEUED"].link = info[a].link
        /\ [info[a] EXCEPT !.enc = "ENQUEUED"].fragments = info[a].fragments
        /\ [info[a] EXCEPT !.enc = "ENQUEUED"].enc = "ENQUEUED"
    BY <1>2, <2>1 DEF ActionInfo
  <2>4. "ENQUEUED" \in FragmentStates  BY DEF FragmentStates
  <2> HIDE DEF hs
  <2>5. Restated(parts, parts')  BY <1>4, <2>4, StatesRestated DEF TypeInv
  <2>6. FurtherOn  BY <2>2, <2>3 DEF FurtherOn, SameLoads
  <2>. QED BY <1>1, <2>5, <2>6
<1>. QED BY <1>1, <1>3, <1>4

\* The packages not in W are gone, and the actions A are done.
LessParts(pa, pb, W, A) ==
    \A q \in Packages :
        /\ q \notin W => pb[q] = <<>>
        /\ q \in W =>
              /\ DOMAIN pb[q] = DOMAIN pa[q]
              /\ \A k \in DOMAIN pa[q] :
                    /\ pb[q][k].h = pa[q][k].h /\ pb[q][k].off = pa[q][k].off /\ pb[q][k].len = pa[q][k].len
                    /\ pa[q][k].action \in A => pb[q][k].action = NoAction
                    /\ pa[q][k].action \notin A => pb[q][k].action = pa[q][k].action

\* The timeline j has no more actions than o, which carry what they did or nothing.
LessActions(o, j, A) ==
    /\ DOMAIN j \subseteq DOMAIN o \ A
    /\ \A a \in DOMAIN j : /\ j[a].time = o[a].time
                           /\ j[a].fragments # <<>> => j[a] = o[a]
    /\ \A a \in A : a \in DOMAIN o /\ \A b \in DOMAIN j : o[a].time < o[b].time

LEMMA LessFull ==
    ASSUME NEW pa \in [Packages -> Seq(Fragments)], NEW pb \in [Packages -> Seq(Fragments)], NEW W, NEW A,
           LessParts(pa, pb, W, A), NEW p \in Packages, p \in W
    PROVE  /\ InFull(pa, p) <=> InFull(pb, p)
           /\ pb[p] # <<>> <=> pa[p] # <<>>
<1>1. /\ DOMAIN pa[p] = 1 .. Len(pa[p]) /\ Len(pa[p]) \in Nat
      /\ DOMAIN pb[p] = 1 .. Len(pb[p]) /\ Len(pb[p]) \in Nat
      /\ DOMAIN pa[p] = DOMAIN pb[p]
  <2>1. pa[p] \in Seq(Fragments) /\ pb[p] \in Seq(Fragments)  OBVIOUS
  <2>. QED BY <2>1, Elements DEF LessParts
<1>2. Len(pa[p]) = Len(pb[p])
  <2>1. \A m, n \in Nat : 1 .. m = 1 .. n => m <= n
    <3>1. ASSUME NEW m \in Nat, NEW n \in Nat, 1 .. m = 1 .. n, ~(m <= n) PROVE FALSE
      <4>1. m \in 1 .. m /\ m \notin 1 .. n  BY <3>1
      <4>. QED BY <3>1, <4>1
    <3>. QED BY <3>1
  <2>2. \A m, n \in Nat : m <= n /\ n <= m => m = n  OBVIOUS
  <2>3. 1 .. Len(pa[p]) = 1 .. Len(pb[p])  BY <1>1
  <2>4. Len(pa[p]) <= Len(pb[p]) /\ Len(pb[p]) <= Len(pa[p])  BY <1>1, <2>1, <2>3
  <2>. QED BY <1>1, <2>2, <2>4
<1>3. /\ pa[p] = <<>> <=> Len(pa[p]) = 0
      /\ pb[p] = <<>> <=> Len(pb[p]) = 0
  <2>1. pa[p] \in Seq(Fragments) /\ pb[p] \in Seq(Fragments)  OBVIOUS
  <2>2. \A s \in Seq(Fragments) : s = <<>> <=> Len(s) = 0  BY EmptySeq
  <2>. QED BY <2>1, <2>2
<1>4. pa[p] # <<>> => Len(pa[p]) \in DOMAIN pa[p]  BY <1>1, <1>3
<1>. QED BY <1>1, <1>2, <1>3, <1>4 DEF LessParts, InFull, Covered, Last

LEMMA TurnLess ==
    ASSUME TypeOK, TypeOK', PlanInv, PlanInv', TurnInv, now' = now, NEW W, NEW A,
           LessActions(info, info', A), LessParts(parts, parts', W, A),
           \A l \in Links : ToSet(actionQueue'[l]) \subseteq ToSet(actionQueue[l]) \cap DOMAIN info',
           \A l \in Links : \A a \in ToSet(actionQueue'[l]) : CanTake(info', a, l) => CanTake(info, a, l),
           \A l \in Links : ToSet(packageQueue'[l]) \subseteq ToSet(packageQueue[l]) \cap W,
           \A l \in Links : \A p, q \in Packages :
               Precedes(packageQueue'[l], p, q) => p \in W /\ q \in W /\ Precedes(packageQueue[l], p, q)
    PROVE  TurnInv'
<1>1. /\ parts \in [Packages -> Seq(Fragments)] /\ parts' \in [Packages -> Seq(Fragments)]
      /\ info \in [DOMAIN info -> ActionInfo] /\ info' \in [DOMAIN info' -> ActionInfo]
  BY DEF TypeOK
<1>2. \A p \in Packages : p \in W => /\ InFull(parts, p) <=> InFull(parts', p)
                                     /\ parts'[p] # <<>> <=> parts[p] # <<>>
  BY <1>1, LessFull
<1>3. \A a \in DOMAIN info' : info'[a].fragments \in Seq(Pointers)  BY <1>1 DEF ActionInfo
<1>4. \A a \in DOMAIN info' : \A k \in DOMAIN info'[a].fragments :
         info'[a] = info[a] /\ a \in DOMAIN info /\ info'[a].fragments[k].pkg \in Packages
  <2>1. ASSUME NEW a \in DOMAIN info', NEW k \in DOMAIN info'[a].fragments
        PROVE  info'[a].fragments # <<>> /\ info'[a].fragments[k].pkg \in Packages
    BY <1>3, <2>1, PointerIs
  <2>. QED BY <2>1 DEF LessActions
<1>5. Packed(info)'  BY <1>4 DEF Packed, TurnInv, InTurnPlan
<1>6. SamePieces(info, parts)'
  <2>1. ASSUME NEW a \in DOMAIN info', NEW k \in DOMAIN info'[a].fragments,
               NEW j \in DOMAIN parts'[info'[a].fragments[k].pkg],
               parts'[info'[a].fragments[k].pkg][j].h = info'[a].fragments[k].h
        PROVE  /\ info'[a].fragments[k].off = parts'[info'[a].fragments[k].pkg][j].off
               /\ info'[a].fragments[k].len = parts'[info'[a].fragments[k].pkg][j].len
    <3>1. PICK x : x = info'[a].fragments[k]  OBVIOUS
    <3>2. x.pkg \in Packages /\ j \in DOMAIN parts'[x.pkg] /\ parts'[x.pkg][j].h = x.h
      BY <1>4, <2>1, <3>1
    <3>3. x.pkg \in W
      <4>1. parts'[x.pkg] # <<>>  BY <3>2
      <4>. QED BY <3>2, <4>1 DEF LessParts
    <3>4. /\ j \in DOMAIN parts[x.pkg] /\ parts[x.pkg][j].h = x.h
          /\ parts'[x.pkg][j].off = parts[x.pkg][j].off /\ parts'[x.pkg][j].len = parts[x.pkg][j].len
      BY <3>2, <3>3 DEF LessParts
    <3>5. a \in DOMAIN info /\ k \in DOMAIN info[a].fragments /\ x = info[a].fragments[k]
      BY <1>4, <3>1
    <3>6. SamePiece(x, parts[x.pkg])  BY <3>5 DEF SamePieces, TurnInv, InTurnPlan
    <3>7. x.off = parts[x.pkg][j].off /\ x.len = parts[x.pkg][j].len  BY <3>4, <3>6 DEF SamePiece
    <3>. QED BY <3>1, <3>4, <3>7
  <2>2. \A a \in DOMAIN info' : \A k \in DOMAIN info'[a].fragments :
           SamePiece(info'[a].fragments[k], parts'[info'[a].fragments[k].pkg])
    BY <2>1 DEF SamePiece
  <2>. QED BY <2>2 DEF SamePieces
<1>7. OneInEach(parts)'
  <2>1. ASSUME NEW p \in Packages, NEW j \in DOMAIN parts'[p], NEW k \in DOMAIN parts'[p],
               parts'[p][j].action # NoAction, parts'[p][j].action = parts'[p][k].action
        PROVE  j = k
    <3>1. p \in W
      <4>1. parts'[p] # <<>>  OBVIOUS
      <4>. QED BY <4>1 DEF LessParts
    <3>2. /\ j \in DOMAIN parts[p] /\ k \in DOMAIN parts[p]
          /\ parts[p][j].action \in A => parts'[p][j].action = NoAction
          /\ parts[p][j].action \notin A => parts'[p][j].action = parts[p][j].action
          /\ parts[p][k].action \in A => parts'[p][k].action = NoAction
          /\ parts[p][k].action \notin A => parts'[p][k].action = parts[p][k].action
      BY <3>1 DEF LessParts
    <3>3. parts[p][j].action # NoAction /\ parts[p][j].action = parts[p][k].action  BY <2>1, <3>2
    <3>. QED BY <3>2, <3>3 DEF TurnInv, InTurnPlan, OneInEach
  <2>. QED BY <2>1 DEF OneInEach
<1>8. InQueueOrder(info, parts, packageQueue)'
  <2>1. ASSUME NEW l \in Links, NEW p \in Packages, NEW q \in Packages, Precedes(packageQueue'[l], p, q)
        PROVE  Ahead(info', parts', p, q)
    <3>0. p \in W /\ q \in W /\ Precedes(packageQueue[l], p, q)  BY <2>1
    <3>1. Ahead(info, parts, p, q)  BY <3>0 DEF TurnInv, InTurnPlan, InQueueOrder
    <3>2. parts'[q] # <<>> => InFull(parts', p)  BY <1>2, <3>0, <3>1 DEF Ahead
    <3>3. ASSUME NEW m \in DOMAIN parts'[p], NEW n \in DOMAIN parts'[q], parts'[p][m].action # NoAction
          PROVE  /\ parts'[q][n].action # NoAction
                 /\ info'[parts'[p][m].action].time <= info'[parts'[q][n].action].time
      <4>1. /\ m \in DOMAIN parts[p] /\ n \in DOMAIN parts[q]
            /\ parts'[p][m].action = parts[p][m].action
            /\ parts[q][n].action \in A => parts'[q][n].action = NoAction
            /\ parts[q][n].action \notin A => parts'[q][n].action = parts[q][n].action
        BY <3>0, <3>3 DEF LessParts
      <4>2. PICK a : a = parts[p][m].action  OBVIOUS
      <4>3. PICK b : b = parts[q][n].action  OBVIOUS
      <4>4. b # NoAction /\ info[a].time <= info[b].time
        BY <3>1, <3>3, <4>1, <4>2, <4>3 DEF Ahead
      <4>5. a \in DOMAIN info' /\ info'[a].time = info[a].time
        <5>1. a \in DOMAIN info'  BY <3>3, <4>1, <4>2 DEF PlanInv, SoundPlan, Carried
        <5>. QED BY <5>1 DEF LessActions
      <4>6. b \notin A
        <5>1. ASSUME b \in A PROVE FALSE
          <6>1. b \in DOMAIN info /\ info[b].time < info[a].time  BY <4>5, <5>1 DEF LessActions
          <6>2. a \in DOMAIN info  BY <4>5 DEF LessActions
          <6>3. info[a].time \in Times /\ info[b].time \in Times  BY <1>1, <6>1, <6>2 DEF ActionInfo
          <6>4. info[a].time \in Nat /\ info[b].time \in Nat  BY <6>3, NumbersAre
          <6>. QED BY <4>4, <6>1, <6>4
        <5>. QED BY <5>1
      <4>7. parts'[q][n].action = b  BY <4>1, <4>3, <4>6
      <4>8. b \in DOMAIN info' /\ info'[b].time = info[b].time
        <5>1. b \in DOMAIN info'  BY <4>4, <4>7 DEF PlanInv, SoundPlan, Carried
        <5>. QED BY <5>1 DEF LessActions
      <4>. QED BY <4>1, <4>2, <4>4, <4>5, <4>7, <4>8
    <3>. QED BY <3>2, <3>3 DEF Ahead
  <2>. QED BY <2>1 DEF InQueueOrder
<1>9. NoGaps(info, actionQueue)'
  <2>1. ASSUME NEW l \in Links, NEW a \in ToSet(actionQueue'[l]), NEW b \in ToSet(actionQueue'[l]),
               info'[a].time < info'[b].time, Carries(info', b, l)
        PROVE  ~CanTake(info', a, l)
    <3>1. /\ a \in ToSet(actionQueue[l]) /\ b \in ToSet(actionQueue[l])
          /\ a \in DOMAIN info' /\ b \in DOMAIN info'
      OBVIOUS
    <3>2. info[a].time < info[b].time /\ Carries(info, b, l)
      BY <2>1, <3>1 DEF Carries, LessActions
    <3>3. ~CanTake(info, a, l)  BY <3>1, <3>2 DEF TurnInv, InTurnPlan, NoGaps
    <3>. QED BY <3>1, <3>3
  <2>2. \A l \in Links : \A a \in ToSet(actionQueue'[l]) : CanTake(info, a, l)' = CanTake(info', a, l)
    BY DEF CanTake
  <2>. QED BY <2>1, <2>2 DEF NoGaps
<1>10. Waiting(info, parts, actionQueue, packageQueue)'
  <2>1. ASSUME NEW l \in Links, NEW p \in ToSet(packageQueue'[l]), ~InFull(parts', p)
        PROVE  NoRoom(now' + MaxEncodingTime, info', actionQueue'[l], l)
    <3>1. p \in Packages /\ p \in W /\ p \in ToSet(packageQueue[l])
      <4>1. packageQueue[l] \in Seq(Packages)  BY DEF TypeOK
      <4>2. p \in ToSet(packageQueue[l]) /\ p \in W  OBVIOUS
      <4>. QED BY <4>1, <4>2 DEF ToSet
    <3>2. NoRoom(now + MaxEncodingTime, info, actionQueue[l], l)
      BY <1>2, <2>1, <3>1 DEF TurnInv, Waiting
    <3>3. \A a \in ToSet(actionQueue[l]) : ~CanTake(info, a, l)
      BY <3>2 DEF NoRoom, CanTake, ToSet
    <3>4. \A a \in ToSet(actionQueue'[l]) : ~CanTake(info', a, l)  BY <3>3
    <3>5. \A k \in DOMAIN actionQueue'[l] : actionQueue'[l][k] \in ToSet(actionQueue'[l])  BY DEF ToSet
    <3>. QED BY <3>4, <3>5 DEF NoRoom, CanTake
  <2>. QED BY <2>1 DEF Waiting
<1>. QED BY <1>5, <1>6, <1>7, <1>8, <1>9, <1>10 DEF TurnInv, InTurnPlan

\* The fragments that point to an action are those it carries.
LEMMA CarriedIs ==
    ASSUME TypeOK, PlanInv, NEW a \in DOMAIN info, NEW p \in Packages
    PROVE  \A k \in DOMAIN parts[p] : parts[p][k].h \in HandlesOf(info[a].fragments) <=> parts[p][k].action = a
<1> DEFINE D == DOMAIN info
<1>1. OneEach(parts) /\ PointBack(info, parts) /\ Carried(info, parts, ToldHandles)  BY DEF PlanInv, SoundPlan
<1>2. D \subseteq Actions /\ info \in [D -> ActionInfo]  BY DEF TypeOK
<1>. QED BY <1>1, <1>2, CarrierIs

\* What a step of the transport does to what is planned.
LEMMA DoLess ==
    ASSUME Spaced, TypeInv, PlanInv, DoAction, NEW a, a = FirstAction
    PROVE  /\ a \in DOMAIN info /\ LessActions(info, info', {a}) /\ LessParts(parts, parts', Packages, {a})
           /\ \A b \in DOMAIN info' : info'[b] = info[b]
           /\ DOMAIN info' = DOMAIN info \ {a}
           /\ \A l \in Links : ToSet(actionQueue'[l]) \subseteq ToSet(actionQueue[l]) \cap DOMAIN info'
           /\ UNCHANGED <<now, packageQueue>>
<1> DEFINE fs == info[a].fragments
<1>1. /\ info # <<>>
      /\ info' = Without(info, {a}) /\ actionQueue' = [l \in Links |-> Popped(l)]
      /\ parts' = DoneParts(HandlesOf(fs))
      /\ UNCHANGED <<now, packageQueue>>
  BY DoIs
<1>2. TypeOK /\ QueuesSorted  BY DEF TypeInv
<1>3. a \in DOMAIN info /\ \A b \in DOMAIN info \ {a} : Before(info, a, b)
  BY <1>1, <1>2, FirstActionIs
<1>4. \A l \in Links : Popped(l) = IF actionQueue[l] # <<>> /\ Head(actionQueue[l]) = a
                                   THEN Tail(actionQueue[l]) ELSE actionQueue[l]
  BY DEF Popped
<1>5. DOMAIN info \subseteq Actions /\ info \in [DOMAIN info -> ActionInfo] /\ Timed(info)
  <2>1. DOMAIN info \subseteq Actions /\ info \in [DOMAIN info -> ActionInfo]  BY <1>2 DEF TypeOK
  <2>. QED BY <1>2, <1>3, <2>1, TimelineIs
<1>6. OneAtATime(info)  BY <1>5, SpacedOnes DEF PlanInv
<1>7. ASSUME NEW l \in Links
      PROVE  ToSet(Popped(l)) \subseteq ToSet(actionQueue[l]) \cap (DOMAIN info \ {a})
  <2>1. actionQueue[l] \in Seq(DOMAIN info) /\ Sorted(info, actionQueue[l])  BY <1>2 DEF QueuesSorted
  <2>2. ToSet(Popped(l)) \subseteq ToSet(actionQueue[l])  BY <1>4, <2>1, PopKeeps
  <2>3. Popped(l) \in Seq(DOMAIN info \ {a})  BY <1>3, <1>4, <1>5, <2>1, PopIs
  <2>. QED BY <2>2, <2>3 DEF ToSet
<1>8. DOMAIN info' = DOMAIN info \ {a} /\ \A b \in DOMAIN info' : info'[b] = info[b]
  BY <1>1 DEF Without
<1>9. \A b \in DOMAIN info \ {a} : info[a].time < info[b].time
  <2>1. \A b \in DOMAIN info : info[b].time \in Int  BY <1>5 DEF Timed
  <2>. QED BY <1>3, <1>6, <2>1 DEF Before, OneAtATime
<1>10. LessActions(info, info', {a})  BY <1>3, <1>8, <1>9 DEF LessActions
<1>11. ASSUME NEW q \in Packages
       PROVE  /\ DOMAIN parts'[q] = DOMAIN parts[q]
              /\ \A k \in DOMAIN parts[q] :
                    /\ parts'[q][k].h = parts[q][k].h /\ parts'[q][k].off = parts[q][k].off
                    /\ parts'[q][k].len = parts[q][k].len
                    /\ parts[q][k].action \in {a} => parts'[q][k].action = NoAction
                    /\ parts[q][k].action \notin {a} => parts'[q][k].action = parts[q][k].action
  <2>1. /\ DOMAIN parts'[q] = DOMAIN parts[q]
        /\ \A k \in DOMAIN parts[q] :
              LET f == parts[q][k]
                  g == parts'[q][k]
              IN  /\ g.h = f.h /\ g.off = f.off /\ g.len = f.len
                  /\ g.action = IF f.h \in HandlesOf(fs) THEN NoAction ELSE f.action
    <3> HIDE DEF fs
    <3>. QED BY <1>1, <1>2, DoneIs
  <2>2. \A k \in DOMAIN parts[q] : parts[q][k].h \in HandlesOf(fs) <=> parts[q][k].action = a
    BY <1>2, <1>3, CarriedIs
  <2>. QED BY <2>1, <2>2
<1>12. LessParts(parts, parts', Packages, {a})  BY <1>11 DEF LessParts
<1>. QED BY <1>1, <1>3, <1>7, <1>8, <1>10, <1>12

LEMMA TurnDo ==
    ASSUME Spaced, TypeInv, TypeInv', PlanInv, PlanInv', TurnInv, DoAction
    PROVE  TurnInv'
<1>1. PICK a : a = FirstAction  OBVIOUS
<1>2. /\ a \in DOMAIN info /\ LessActions(info, info', {a}) /\ LessParts(parts, parts', Packages, {a})
      /\ \A b \in DOMAIN info' : info'[b] = info[b]
      /\ \A l \in Links : ToSet(actionQueue'[l]) \subseteq ToSet(actionQueue[l]) \cap DOMAIN info'
      /\ UNCHANGED <<now, packageQueue>>
  BY <1>1, DoLess
<1>3. \A l \in Links : \A b \in ToSet(actionQueue'[l]) : CanTake(info', b, l) => CanTake(info, b, l)
  BY <1>2 DEF CanTake
<1>4. \A l \in Links : ToSet(packageQueue'[l]) \subseteq ToSet(packageQueue[l]) \cap Packages
  <2>1. \A l \in Links : packageQueue[l] \in Seq(Packages)  BY DEF TypeInv, TypeOK
  <2>. QED BY <1>2, <2>1 DEF ToSet
<1>5. TypeOK /\ TypeOK' /\ now' = now /\ packageQueue' = packageQueue  BY <1>2 DEF TypeInv
<1>. QED BY <1>2, <1>3, <1>4, <1>5, TurnLess

\* What is left of the plan when a link is destroyed.
LEMMA DestroyedLess ==
    ASSUME Careful, TypeInv, ReportInv, BlockInv, PlanInv, NEW l \in Links, OnLinkDestroyed(l),
           NEW W, W = Packages \ ToSet(packageQueue[l])
    PROVE  /\ LessActions(info, info', {}) /\ LessParts(parts, parts', W, {}) /\ DOMAIN info' = DOMAIN info
           /\ \A m \in Links : actionQueue'[m] = IF m = l THEN <<>> ELSE actionQueue[m]
           /\ \A m \in Links : packageQueue'[m] = IF m = l THEN <<>> ELSE packageQueue[m]
           /\ \A m \in Links \ {l} : \A a \in DOMAIN info : CanTake(info', a, m) => CanTake(info, a, m)
           /\ now' = now
<1> DEFINE hit == ToSet(actionQueue[l])
           O == DOMAIN info
<1>1. /\ l \in links /\ \A a \in hit : info[a].fragments # <<>> => info[a].link = l
      /\ info' = [a \in DOMAIN info |-> IF a \in hit
                    THEN [info[a] EXCEPT !.enc = "UNENCODED", !.fragments = <<>>] ELSE info[a]]
      /\ parts' = [p \in Packages |-> IF p \in ToSet(packageQueue[l]) THEN <<>> ELSE parts[p]]
      /\ actionQueue' = [actionQueue EXCEPT ![l] = <<>>]
      /\ packageQueue' = [packageQueue EXCEPT ![l] = <<>>]
      /\ now' = now
  BY DEF OnLinkDestroyed
<1>2. /\ info \in [O -> ActionInfo] /\ parts \in [Packages -> Seq(Fragments)]
      /\ actionQueue \in [Links -> Seq(Actions)] /\ packageQueue \in [Links -> Seq(Packages)]
  BY DEF TypeInv, TypeOK
<1>3. /\ \A m \in Links : actionQueue'[m] = IF m = l THEN <<>> ELSE actionQueue[m]
      /\ \A m \in Links : packageQueue'[m] = IF m = l THEN <<>> ELSE packageQueue[m]
  BY <1>1, <1>2
<1> HIDE DEF hit
<1>4. DOMAIN info' = O /\ \A a \in O : /\ info'[a].time = info[a].time /\ info'[a].link = info[a].link
                                       /\ a \notin hit => info'[a] = info[a]
                                       /\ a \in hit => info'[a].fragments = <<>>
  <2>1. ASSUME NEW a \in DOMAIN info
        PROVE  LET i == [info[a] EXCEPT !.enc = "UNENCODED", !.fragments = <<>>]
               IN  i.time = info[a].time /\ i.link = info[a].link /\ i.fragments = <<>>
    <3>1. info[a] \in ActionInfo  BY <1>2
    <3>. QED BY <3>1 DEF ActionInfo
  <2>. QED BY <1>1, <2>1
<1>5. LessActions(info, info', {})  BY <1>4 DEF LessActions
<1>6. LessParts(parts, parts', W, {})  BY <1>1, Zenon DEF LessParts
<1>7. ASSUME NEW m \in Links \ {l}, NEW a \in O, CanTake(info', a, m) PROVE CanTake(info, a, m)
  <2>1. a \notin hit => CanTake(info, a, m)  BY <1>4, <1>7 DEF CanTake
  <2>2. ASSUME a \in hit PROVE CanTake(info, a, m)
    <3>1. info[a].link # l /\ info[a].link \in {m, NoLink} /\ info[a].time > now + MaxEncodingTime
      <4>1. info[a].link \in {m, NoLink} /\ info[a].time > now + MaxEncodingTime
        BY <1>4, <1>7 DEF CanTake
      <4>2. l # NoLink  BY PackagesAssumption
      <4>. QED BY <4>1, <4>2
    <3>2. info[a].fragments = <<>>  BY <1>1, <2>2, <3>1
    <3>3. info[a].enc = "UNENCODED"
      <4>1. ASSUME info[a].enc # "UNENCODED" PROVE FALSE
        <5>1. info[a].time <= now + MaxEncodingTime  BY <4>1 DEF BlockInv, EncodedInTime
        <5>2. info[a].time \in Times  BY <1>2 DEF ActionInfo
        <5>3. now + MaxEncodingTime \in Times /\ Times \subseteq Nat  BY NumbersAre DEF TypeInv
        <5>4. info[a].time \in Nat /\ now + MaxEncodingTime \in Nat  BY <5>2, <5>3
        <5>. QED BY <3>1, <5>1, <5>4
      <4>. QED BY <4>1
    <3>4. info'[a] = info[a]
      <4>1. info'[a] = [info[a] EXCEPT !.enc = "UNENCODED", !.fragments = <<>>]  BY <1>1, <2>2
      <4>2. info[a] \in ActionInfo  BY <1>2
      <4>. QED BY <3>2, <3>3, <4>1, <4>2 DEF ActionInfo
    <3>. QED BY <1>7, <3>4 DEF CanTake
  <2>. QED BY <2>1, <2>2
<1>. QED BY <1>1, <1>3, <1>4, <1>5, <1>6, <1>7

LEMMA TurnDestroyed ==
    ASSUME Careful, TypeInv, TypeInv', ReportInv, BlockInv, PlanInv, PlanInv', TurnInv,
           NEW l \in Links, OnLinkDestroyed(l)
    PROVE  TurnInv'
<1>1. PICK W : W = Packages \ ToSet(packageQueue[l])  OBVIOUS
<1>2. /\ LessActions(info, info', {}) /\ LessParts(parts, parts', W, {}) /\ DOMAIN info' = DOMAIN info
      /\ \A m \in Links : actionQueue'[m] = IF m = l THEN <<>> ELSE actionQueue[m]
      /\ \A m \in Links : packageQueue'[m] = IF m = l THEN <<>> ELSE packageQueue[m]
      /\ \A m \in Links \ {l} : \A a \in DOMAIN info : CanTake(info', a, m) => CanTake(info, a, m)
      /\ now' = now
  BY <1>1, DestroyedLess
<1>3. DOMAIN <<>> = {} /\ ToSet(<<>>) = {}  BY DEF ToSet
<1>4. \A m \in Links : actionQueue[m] \in Seq(DOMAIN info) /\ packageQueue[m] \in Seq(Packages)
  BY DEF TypeInv, TypeOK, QueuesSorted
<1>5. \A m \in Links : ToSet(actionQueue'[m]) \subseteq ToSet(actionQueue[m]) \cap DOMAIN info'
  <2>1. \A m \in Links : ToSet(actionQueue[m]) \subseteq DOMAIN info  BY <1>4 DEF ToSet
  <2>. QED BY <1>2, <1>3, <2>1
<1>6. \A m \in Links : \A a \in ToSet(actionQueue'[m]) : CanTake(info', a, m) => CanTake(info, a, m)
  <2>1. ASSUME NEW m \in Links, NEW a \in ToSet(actionQueue'[m]), CanTake(info', a, m) PROVE CanTake(info, a, m)
    <3>1. m # l /\ a \in DOMAIN info  BY <1>2, <1>3, <1>5, <2>1
    <3>. QED BY <1>2, <2>1, <3>1
  <2>. QED BY <2>1
<1>7. ASSUME NEW m \in Links, NEW p \in ToSet(packageQueue'[m])
      PROVE  m # l /\ p \in ToSet(packageQueue[m]) /\ p \in W
  <2>1. m # l /\ p \in ToSet(packageQueue[m])  BY <1>2, <1>3, <1>7
  <2>2. Route[p] = m  BY <2>1 DEF ReportInv, OwnQueues
  <2>3. p \notin ToSet(packageQueue[l])  BY <2>1, <2>2 DEF ReportInv, OwnQueues
  <2>4. p \in Packages  BY <1>4, <2>1 DEF ToSet
  <2>. QED BY <1>1, <2>1, <2>3, <2>4
<1>8. ASSUME NEW m \in Links, NEW p \in Packages, NEW q \in Packages, Precedes(packageQueue'[m], p, q)
      PROVE  p \in W /\ q \in W /\ Precedes(packageQueue[m], p, q)
  <2>1. p \in ToSet(packageQueue'[m]) /\ q \in ToSet(packageQueue'[m])  BY <1>8 DEF Precedes, ToSet
  <2>2. m # l /\ p \in W /\ q \in W  BY <1>7, <2>1
  <2>3. packageQueue'[m] = packageQueue[m]  BY <1>2, <2>2
  <2>. QED BY <1>8, <2>2, <2>3
<1>9. TypeOK /\ TypeOK'  BY DEF TypeInv
<1>. QED BY <1>2, <1>5, <1>6, <1>7, <1>8, <1>9, TurnLess

\* Removing an element leaves the others in their order.
LEMMA RemovedOrder ==
    ASSUME NEW T, NEW s \in Seq(T), IsInjective(s), NEW x \in ToSet(s),
           NEW p, NEW q, Precedes(RemoveFirst(s, x), p, q)
    PROVE  Precedes(s, p, q)
<1> DEFINE k == SelectInSeq(s, LAMBDA v : v = x)
           t == RemoveFirst(s, x)
           n == Len(s)
<1>1. n \in Nat /\ DOMAIN s = 1 .. n  BY LenProperties
<1>2. k \in 1 .. n /\ s[k] = x
  <2>1. PICK j \in 1 .. n : s[j] = x  BY <1>1 DEF ToSet
  <2>2. {i \in 1 .. n : s[i] = x} = {j}  BY <1>1, <2>1 DEF IsInjective
  <2>3. Min({j}) = j  BY <2>1 DEF Min
  <2>. QED BY <2>1, <2>2, <2>3 DEF SelectInSeq
<1>3. t = RemoveAt(s, k)  BY <1>2 DEF RemoveFirst
<1>4. Precedes(t, p, q)  OBVIOUS
<1> HIDE DEF k, t
<1>5. /\ t \in Seq(T) /\ Len(t) = n - 1
      /\ \A i \in 1 .. n - 1 : t[i] = IF i <= k - 1 THEN s[i] ELSE s[i + 1]
  BY <1>2, <1>3, RemovedAt
<1>6. DOMAIN t = 1 .. n - 1  BY <1>5, LenProperties
<1>7. PICK a, b \in 1 .. n - 1 : a < b /\ t[a] = p /\ t[b] = q  BY <1>4, <1>6 DEF Precedes
<1> DEFINE from(i) == IF i <= k - 1 THEN i ELSE i + 1
<1>8. from(a) \in 1 .. n /\ from(b) \in 1 .. n /\ from(a) < from(b)  BY <1>1, <1>2, <1>7
<1>9. s[from(a)] = p /\ s[from(b)] = q  BY <1>5, <1>7
<1>. QED BY <1>1, <1>8, <1>9 DEF Precedes

LEMMA DequeuedOrder ==
    ASSUME TypeOK, OwnQueues, NEW p \in Packages, p \in Queued, NEW W, W = Packages \ {p}
    PROVE  /\ \A l \in Links : ToSet(Dequeued(p)[l]) = ToSet(packageQueue[l]) \cap W
           /\ \A l \in Links : \A x, y \in Packages :
                  Precedes(Dequeued(p)[l], x, y) => x \in W /\ y \in W /\ Precedes(packageQueue[l], x, y)
<1> DEFINE l == Route[p]
           q == packageQueue[l]
           t == RemoveFirst(q, p)
<1>1. packageQueue \in [Links -> Seq(Packages)] /\ l \in Links  BY PackagesAssumption DEF TypeOK
<1>2. q \in Seq(Packages) /\ IsInjective(q) /\ p \in ToSet(q)
  <2>1. PICK m \in Links : p \in ToSet(packageQueue[m])  BY DEF Queued
  <2>2. m = l  BY <2>1 DEF OwnQueues
  <2>. QED BY <1>1, <2>1, <2>2 DEF OwnQueues
<1>3. Dequeued(p) = [packageQueue EXCEPT ![l] = t]  BY DEF Dequeued
<1>4. t = RemoveFirst(q, p)  OBVIOUS
<1>5. \A m \in Links \ {l} : p \notin ToSet(packageQueue[m])  BY DEF OwnQueues
<1>6. q = packageQueue[l]  OBVIOUS
<1>7. \A m \in Links : ToSet(packageQueue[m]) \subseteq Packages
  <2>1. \A m \in Links : packageQueue[m] \in Seq(Packages)  BY <1>1
  <2>. QED BY <2>1 DEF ToSet
<1> HIDE DEF q, l
<1>8. ToSet(t) = ToSet(q) \ {p}  BY <1>2, RemoveOne
<1>9. \A x, y \in Packages : Precedes(t, x, y) => Precedes(q, x, y)
  BY <1>2, RemovedOrder
<1> HIDE DEF t
<1>10. /\ Dequeued(p)[l] = t
       /\ \A m \in Links \ {l} : Dequeued(p)[m] = packageQueue[m]
  BY <1>1, <1>3
<1>11. \A m \in Links : ToSet(Dequeued(p)[m]) = ToSet(packageQueue[m]) \cap W
  BY <1>5, <1>6, <1>7, <1>8, <1>10
<1>12. ASSUME NEW m \in Links, NEW x \in Packages, NEW y \in Packages, Precedes(Dequeued(p)[m], x, y)
       PROVE  x \in W /\ y \in W /\ Precedes(packageQueue[m], x, y)
  <2>1. x \in ToSet(Dequeued(p)[m]) /\ y \in ToSet(Dequeued(p)[m])  BY <1>12 DEF Precedes, ToSet
  <2>2. Precedes(packageQueue[m], x, y)
    <3>1. CASE m = l  BY <1>6, <1>9, <1>10, <1>12, <3>1
    <3>2. CASE m # l  BY <1>10, <1>12, <3>2
    <3>. QED BY <3>1, <3>2
  <2>. QED BY <1>11, <2>1, <2>2
<1>. QED BY <1>11, <1>12

\* What is encoded or done of the packages W stays as it is.
Kept(W) ==
    KeepsEncoded(DOMAIN info, info, parts, W, DOMAIN info', [info |-> info', parts |-> parts'], lastEncodeTime)

LEMMA KeptIs ==
    ASSUME NEW W, NEW D, NEW r, r.info = info', r.parts = parts', D = DOMAIN info',
           KeepsEncoded(DOMAIN info, info, parts, W, D, r, lastEncodeTime)
    PROVE  Kept(W)
<1>1. PICK e : e = [info |-> info', parts |-> parts']  OBVIOUS
<1>2. e.info = info' /\ e.parts = parts'  BY <1>1
<1>3. KeepsEncoded(DOMAIN info, info, parts, W, D, e, lastEncodeTime)
  BY <1>2 DEF KeepsEncoded
<1>. QED BY <1>1, <1>3 DEF Kept

\* What a report that frees actions does to what is planned.
LEMMA StatusTurn ==
    ASSUME Spaced, TypeInv, ReportInv, PlanInv, TurnInv, reports # <<>>, reports' = Tail(reports),
           UNCHANGED <<now, actionQueue>>,
           NEW p \in Packages, Pending(p),
           \A k \in Open(Updated(p)) : Updated(p)[k].state = "UNENCODED",
           NEW freed, freed = Freed(Updated(p)), packageQueue' = Dequeued(p),
           info' = Replanned(p, freed).info, parts' = Replanned(p, freed).parts
    PROVE  TurnInv' /\ Kept(Packages \ {p})
<1> DEFINE D == DOMAIN info
           T == ToldHandles'
           W == Packages \ {p}
           marked == UNION {HandlesOf(info[a].fragments) : a \in freed}
           aqs == [l \in Links |-> actionQueue[l]]
           queues == Dequeued(p)
           t == lastEncodeTime
<1>1. TypeOK /\ Whole(parts) /\ OwnQueues  BY DEF TypeInv, ReportInv
<1>2. /\ D \subseteq Actions /\ info \in [D -> ActionInfo] /\ parts \in [Packages -> Seq(Fragments)]
      /\ aqs \in [Links -> Seq(D)] /\ actionQueue = aqs /\ reports \in Seq(Handles \X Statuses)
      /\ AllSorted(info, aqs)
  BY <1>1 DEF TypeInv, TypeOK, QueuesSorted, AllSorted
<1>3. SoundPlan(info, parts, aqs, ToldHandles, t)  BY <1>2 DEF PlanInv
<1>4. PICK e : e = Rest(p, freed)  OBVIOUS
<1>5. PICK r : r = Replanned(p, freed)  OBVIOUS
<1>6. /\ e \in GoodPlans(D) /\ \A a \in D : e.info[a].time = info[a].time
      /\ freed \subseteq D /\ LeftOf(D, info, parts, freed, W, D, e, T, aqs)
  BY <1>2, <1>4, StatusLeft
<1>7. r = generateFragmentsForAllPackages(e, marked, aqs, queues)  BY <1>2, <1>4, <1>5 DEF Replanned
<1>8. p \in Queued
  <2>1. DOMAIN <<>> = {}  OBVIOUS
  <2>2. parts[p] # <<>>  BY <2>1 DEF Pending
  <2>. QED BY <2>2 DEF ReportInv
<1>9. queues \in [Links -> Seq(Packages)] /\ OwnPackages(queues) /\ OnceEach(queues)
  BY <1>1, <1>8, DequeuedIs DEF OwnPackages, OnceEach
<1>10. marked = CarriedBy(info, freed)  BY DEF CarriedBy
<1>11. Reached(t)  BY <1>1, NumbersAre DEF PlanInv, EncodesInTime, Reached, TypeOK
<1>12. LessQueued(parts, W, packageQueue, queues)
  <2>1. /\ \A l \in Links : ToSet(queues[l]) = ToSet(packageQueue[l]) \cap W
        /\ \A l \in Links : \A x, y \in Packages :
               Precedes(queues[l], x, y) => x \in W /\ y \in W /\ Precedes(packageQueue[l], x, y)
    BY <1>1, <1>8, DequeuedOrder
  <2>2. ASSUME NEW q \in W \cap Packages, parts[q] # <<>> PROVE q \in ToSet(queues[Route[q]])
    <3>1. q \in Queued  BY <2>2 DEF ReportInv
    <3>2. PICK l \in Links : q \in ToSet(packageQueue[l])  BY <3>1 DEF Queued
    <3>3. l = Route[q]  BY <1>1, <3>2 DEF OwnQueues
    <3>. QED BY <2>1, <2>2, <3>2, <3>3
  <2> HIDE DEF W, queues
  <2>. QED BY <2>1, <2>2 DEF LessQueued
<1>13. \A a \in freed : info[a].time > t
  <2>1. ASSUME NEW k \in DOMAIN Updated(p), Updated(p)[k].action # NoAction, Updated(p)[k].state = "UNENCODED"
        PROVE  info[Updated(p)[k].action].time > t
    <3>1. /\ k \in DOMAIN parts[p] /\ Updated(p)[k].action = parts[p][k].action
          /\ Updated(p)[k].state \in {"SENT", "FAILED"} \/ Updated(p)[k].state = parts[p][k].state
      BY <1>1, <2>1, UpdatedIs
    <3>2. parts[p][k].state = "UNENCODED" /\ parts[p][k].action # NoAction  BY <2>1, <3>1
    <3>. QED BY <3>1, <3>2 DEF PlanInv, SoundPlan, NotYetEncoded
  <2>. QED BY <2>1 DEF Freed, Open
<1>14. InTurnPlan(info, parts, aqs, packageQueue)  BY <1>2 DEF TurnInv
<1>15. OneAtATime(e.info)
  <2>1. OneAtATime(info)
    <3>1. Timed(info)  BY <1>1, <1>2, TimelineIs
    <3>. QED BY <3>1, SpacedOnes DEF PlanInv
  <2>2. e.info \in [D -> ActionInfo]  BY <1>6 DEF GoodPlans, PlansOf
  <2>. QED BY <1>6, <2>1, <2>2 DEF OneAtATime
<1> HIDE DEF D, T, marked, aqs, queues, W, t
<1>16. AllSorted(e.info, aqs)
  <2>1. e.info \in [D -> ActionInfo]  BY <1>6 DEF GoodPlans, PlansOf
  <2>. QED BY <1>2, <1>6, SortedSame DEF AllSorted
<1>17. TurnPlanned(D, info, parts, W, D, e.info, aqs, queues, T, t, r)
  BY <1>1, <1>2, <1>3, <1>6, <1>7, <1>9, <1>10, <1>11, <1>12, <1>13, <1>14, <1>15, <1>16, AllTurn
<1>18. /\ r \in TurnPlans(D, e.info, aqs, queues, T, t) /\ Waiting(r.info, r.parts, aqs, queues)
       /\ KeepsEncoded(D, info, parts, W, D, r, t)
  BY <1>17 DEF TurnPlanned
<1>19. r \in SameTimes(D, e.info) /\ InTurnPlan(r.info, r.parts, aqs, queues)  BY <1>18 DEF TurnPlans
<1>20. info' = r.info /\ parts' = r.parts /\ actionQueue' = aqs /\ packageQueue' = queues /\ now' = now
  BY <1>2, <1>5 DEF queues
<1>21. DOMAIN info' = D  BY <1>19, <1>20 DEF SameTimes, GoodPlans, PlansOf
<1>22. Kept(W)  BY <1>18, <1>20, <1>21, KeptIs DEF D, t
<1>23. InTurnPlan(info', parts', actionQueue', packageQueue') /\ Waiting(info', parts', actionQueue', packageQueue')
  BY <1>18, <1>19, <1>20
<1>24. InTurnPlan(info, parts, actionQueue, packageQueue)'
  BY <1>20, <1>23 DEF InTurnPlan, Packed, SamePieces, OneInEach, InQueueOrder, NoGaps, Ahead, CanTake, Carries
<1>25. Waiting(info, parts, actionQueue, packageQueue)'
  BY <1>20, <1>23 DEF Waiting
<1>. QED BY <1>22, <1>24, <1>25 DEF TurnInv, W

\* What a report does that finishes no package.
LEMMA StatusRestated ==
    ASSUME TypeOK, reports # <<>>, NEW p \in Packages, parts' = [parts EXCEPT ![p] = Updated(p)]
    PROVE  Restated(parts, parts')
<1>1. \A q \in Packages : parts'[q] = IF q = p THEN Updated(p) ELSE parts[q]  BY DEF TypeOK
<1>2. /\ DOMAIN Updated(p) = DOMAIN parts[p]
      /\ \A k \in DOMAIN parts[p] :
            LET f == parts[p][k]
                g == Updated(p)[k]
            IN  g.h = f.h /\ g.off = f.off /\ g.len = f.len /\ g.action = f.action
  BY UpdatedIs
<1>. QED BY <1>1, <1>2 DEF Restated

\* What a report does that finishes a package of which nothing is planned any more.
LEMMA StatusLess ==
    ASSUME TypeInv, ReportInv, NEW p \in Packages, Pending(p), NEW freed, freed = {},
           info' = Rest(p, freed).info, parts' = Rest(p, freed).parts,
           packageQueue' = Dequeued(p), UNCHANGED <<now, actionQueue>>
    PROVE  /\ info' = info /\ parts' = [parts EXCEPT ![p] = <<>>]
           /\ LessActions(info, info', {}) /\ LessParts(parts, parts', Packages \ {p}, {})
           /\ \A l \in Links : ToSet(packageQueue'[l]) \subseteq ToSet(packageQueue[l]) \cap (Packages \ {p})
           /\ \A l \in Links : \A x, y \in Packages :
                  Precedes(packageQueue'[l], x, y)
                      => x \in Packages \ {p} /\ y \in Packages \ {p} /\ Precedes(packageQueue[l], x, y)
<1>1. info \in [DOMAIN info -> ActionInfo] /\ parts \in [Packages -> Seq(Fragments)] /\ TypeOK
  BY DEF TypeInv, TypeOK
<1>2. info = [a \in DOMAIN info |-> info[a]]  BY <1>1
<1>3. FreedTimeline(freed) = [a \in DOMAIN info |-> info[a]]  BY DEF FreedTimeline
<1>4. info' = info /\ parts' = [parts EXCEPT ![p] = <<>>]  BY <1>2, <1>3 DEF Rest
<1>5. LessActions(info, info', {})  BY <1>4 DEF LessActions
<1>6. \A q \in Packages : parts'[q] = IF q = p THEN <<>> ELSE parts[q]  BY <1>1, <1>4
<1>7. LessParts(parts, parts', Packages \ {p}, {})  BY <1>6, Zenon DEF LessParts
<1>8. p \in Queued
  <2>1. DOMAIN <<>> = {}  OBVIOUS
  <2>2. parts[p] # <<>>  BY <2>1 DEF Pending
  <2>. QED BY <2>2 DEF ReportInv
<1>9. PICK W : W = Packages \ {p}  OBVIOUS
<1>10. OwnQueues  BY DEF ReportInv
<1>11. /\ \A l \in Links : ToSet(Dequeued(p)[l]) = ToSet(packageQueue[l]) \cap W
       /\ \A l \in Links : \A x, y \in Packages :
              Precedes(Dequeued(p)[l], x, y) => x \in W /\ y \in W /\ Precedes(packageQueue[l], x, y)
  BY <1>1, <1>8, <1>9, <1>10, DequeuedOrder
<1>. QED BY <1>4, <1>5, <1>7, <1>9, <1>11

LEMMA TurnStatus ==
    ASSUME Careful, Spaced, TypeInv, TypeInv', ReportInv, PlanInv, PlanInv', TurnInv, OnPackageStatusChanged
    PROVE  TurnInv'
<1>1. /\ reports # <<>> /\ reports' = Tail(reports) /\ UNCHANGED <<now, actionQueue>>
  BY StatusIs
<1>2. TypeOK /\ TypeOK'  BY DEF TypeInv
<1>3. CASE UNCHANGED <<info, parts, packageQueue, told, blocked>>
  <2>1. now <= now'  BY <1>1, <1>2 DEF TypeOK
  <2>. QED BY <1>1, <1>3, <2>1, TurnSame
<1>4. ASSUME NEW p \in Packages, parts' = [parts EXCEPT ![p] = Updated(p)], UNCHANGED <<info, packageQueue>>
      PROVE  TurnInv'
  <2>1. Restated(parts, parts')  BY <1>1, <1>2, <1>4, StatusRestated
  <2>2. FurtherOn  BY <1>4 DEF FurtherOn, SameLoads
  <2>. QED BY <1>1, <1>4, <2>1, <2>2, TurnFurther
<1>5. ASSUME NEW p \in Packages, NEW freed, freed = Freed(Updated(p)),
             \E k \in DOMAIN parts[p] :
                 parts[p][k].h = Head(reports)[1] /\ parts[p][k].state \notin {"SENT", "FAILED"},
             Careful => \A k \in Open(Updated(p)) : Updated(p)[k].state = "UNENCODED",
             packageQueue' = Dequeued(p),
             IF freed = {} THEN info' = Rest(p, freed).info /\ parts' = Rest(p, freed).parts
             ELSE info' = Replanned(p, freed).info /\ parts' = Replanned(p, freed).parts
      PROVE  TurnInv'
  <2>1. Pending(p) /\ \A k \in Open(Updated(p)) : Updated(p)[k].state = "UNENCODED"  BY <1>5 DEF Pending
  <2>2. CASE freed = {}
    <3>1. info' = Rest(p, freed).info /\ parts' = Rest(p, freed).parts  BY <1>5, <2>2
    <3>2. PICK W : W = Packages \ {p}  OBVIOUS
    <3>3. /\ info' = info
          /\ LessActions(info, info', {}) /\ LessParts(parts, parts', W, {})
          /\ \A l \in Links : ToSet(packageQueue'[l]) \subseteq ToSet(packageQueue[l]) \cap W
          /\ \A l \in Links : \A x, y \in Packages :
                 Precedes(packageQueue'[l], x, y) => x \in W /\ y \in W /\ Precedes(packageQueue[l], x, y)
      BY <1>1, <1>5, <2>1, <2>2, <3>1, <3>2, StatusLess
    <3>4. \A l \in Links : ToSet(actionQueue'[l]) \subseteq ToSet(actionQueue[l]) \cap DOMAIN info'
      <4>1. \A l \in Links : actionQueue[l] \in Seq(DOMAIN info)  BY DEF TypeInv, QueuesSorted
      <4>. QED BY <1>1, <3>3, <4>1 DEF ToSet
    <3>5. \A l \in Links : \A a \in ToSet(actionQueue'[l]) : CanTake(info', a, l) => CanTake(info, a, l)
      BY <3>3
    <3>6. now' = now  BY <1>1
    <3>. QED BY <1>2, <3>3, <3>4, <3>5, <3>6, TurnLess
  <2>3. CASE freed # {}  BY <1>1, <1>5, <2>1, <2>3, StatusTurn
  <2>. QED BY <2>2, <2>3
<1>. QED BY <1>3, <1>4, <1>5, StatusIs

\* A package that has fragments is in its own queue.
LEMMA OwnOnes ==
    ASSUME ReportInv
    PROVE  OnlyQueued(parts, packageQueue) /\ OwnPackages(packageQueue) /\ OnceEach(packageQueue)
<1>1. ASSUME NEW q \in Packages, parts[q] # <<>> PROVE q \in ToSet(packageQueue[Route[q]])
  <2>1. q \in Queued  BY <1>1 DEF ReportInv
  <2>2. PICK l \in Links : q \in ToSet(packageQueue[l])  BY <2>1 DEF Queued
  <2>3. l = Route[q]  BY <2>2 DEF ReportInv, OwnQueues
  <2>. QED BY <2>2, <2>3
<1>. QED BY <1>1 DEF OnlyQueued, ReportInv, OwnQueues, OwnPackages, OnceEach

\* Planning a new timeline, in turn.
LEMMA TimelineTurn ==
    ASSUME Spaced, TypeInv, ReportInv, PlanInv, TurnInv, NEW D, D \subseteq Actions,
           NEW i \in [D -> ActionInfo], Extends(D, i), SpacedOut(i), NEW r, r = Replan(i)
    PROVE  /\ TurnPlanned(DOMAIN info, info, parts, Packages, D, i, updateLinkTimelines(i), packageQueue,
                          ToldHandles, lastEncodeTime, r)
           /\ Stays(info, parts, DOMAIN info \ D, Packages, r)
<1> DEFINE O == DOMAIN info
           X == O \ D
           qs == updateLinkTimelines(i)
           marked == UNION {HandlesOf(info[a].fragments) : a \in DOMAIN info \ DOMAIN i}
           t == lastEncodeTime
<1>1. TypeOK /\ Whole(parts) /\ OwnQueues  BY DEF TypeInv, ReportInv
<1>2. PICK e : e = [Plan EXCEPT !.info = i]  OBVIOUS
<1>3. /\ e \in GoodPlans(D) /\ e.info = i
      /\ LeftOf(O, info, parts, X, Packages, D, e, ToldHandles, qs)
  BY <1>2, TimelineLeft
<1>4. DOMAIN i = D  OBVIOUS
<1>5. r = generateFragmentsForAllPackages(e, marked, qs, packageQueue)  BY <1>2 DEF Replan
<1>6. marked = CarriedBy(info, X)  BY <1>4 DEF CarriedBy
<1>7. O \subseteq Actions /\ info \in [O -> ActionInfo] /\ parts \in [Packages -> Seq(Fragments)]
      /\ packageQueue \in [Links -> Seq(Packages)]
  BY <1>1 DEF TypeOK
<1>8. SoundPlan(info, parts, actionQueue, ToldHandles, t)  BY DEF PlanInv
<1>9. Reached(t) /\ t \in Int  BY <1>1, NumbersAre DEF PlanInv, EncodesInTime, Reached, TypeOK
<1>10. qs \in [Links -> Seq(D)] /\ AllSorted(i, qs) /\ Timed(i)
  BY <1>1, TimelineIs DEF AllSorted
<1>11. OneAtATime(i)  BY <1>10, SpacedOnes
<1>12. InTurnPlan(info, parts, actionQueue, packageQueue)  BY DEF TurnInv
<1>13. OwnPackages(packageQueue) /\ OnceEach(packageQueue) /\ OnlyQueued(parts, packageQueue)  BY OwnOnes
<1>14. LessQueued(parts, Packages, packageQueue, packageQueue)  BY <1>13 DEF LessQueued, OnlyQueued
<1>15. ASSUME NEW a \in X PROVE info[a].time > t
  <2>1. ~(info[a].time <= now + MaxEncodingTime)  BY DEF Extends
  <2>2. info[a].time \in Times  BY <1>7 DEF ActionInfo
  <2>3. info[a].time \in Nat /\ now + MaxEncodingTime \in Nat  BY <1>1, <2>2, NumbersAre
  <2>. QED BY <1>9, <2>1, <2>3 DEF Reached
<1> HIDE DEF O, X, qs, marked, t
<1>16. TurnPlanned(O, info, parts, Packages, D, e.info, qs, packageQueue, ToldHandles, t, r)
       /\ Stays(info, parts, X, Packages, r)
  BY <1>1, <1>3, <1>5, <1>6, <1>7, <1>8, <1>9, <1>10, <1>11, <1>12, <1>13, <1>14, <1>15, AllTurn
<1>. QED BY <1>3, <1>16 DEF O, X, qs, t

\* The plan of a step is in turn when what it takes is.
LEMMA TurnFrom ==
    ASSUME NEW r, NEW qs, NEW queues, info' = r.info, parts' = r.parts, actionQueue' = qs,
           packageQueue' = queues, now' = now,
           InTurnPlan(r.info, r.parts, qs, queues), Waiting(r.info, r.parts, qs, queues)
    PROVE  TurnInv'
<1>1. InTurnPlan(info', parts', actionQueue', packageQueue') /\ Waiting(info', parts', actionQueue', packageQueue')
  OBVIOUS
<1>2. InTurnPlan(info, parts, actionQueue, packageQueue)'
  BY <1>1 DEF InTurnPlan, Packed, SamePieces, OneInEach, InQueueOrder, NoGaps, Ahead, CanTake, Carries
<1>3. Waiting(info, parts, actionQueue, packageQueue)'  BY <1>1 DEF Waiting
<1>. QED BY <1>2, <1>3 DEF TurnInv

LEMMA TurnFetch ==
    ASSUME Spaced, TypeInv, ReportInv, PlanInv, TurnInv, FetchTimeline
    PROVE  TurnInv' /\ Kept(Packages)
<1>1. PICK D \in SUBSET Actions : \E i \in [D -> ActionInfo] :
          /\ \A a \in DOMAIN info : info[a].time <= now + MaxEncodingTime => a \in D
          /\ \A a \in D : /\ a \in DOMAIN info => i[a] = info[a]
                          /\ a \notin DOMAIN info => i[a].fragments = <<>>
                                                     /\ i[a].time > now + MaxEncodingTime
          /\ SpacedOut(i)
          /\ info' = Replan(i).info /\ parts' = Replan(i).parts
          /\ actionQueue' = updateLinkTimelines(i)
          /\ UNCHANGED <<now, linkStatus, lastEncodeTime, reports>>
  BY FetchIs DEF TypeInv
<1>2. PICK i \in [D -> ActionInfo] :
          /\ \A a \in DOMAIN info : info[a].time <= now + MaxEncodingTime => a \in D
          /\ \A a \in D : /\ a \in DOMAIN info => i[a] = info[a]
                          /\ a \notin DOMAIN info => i[a].fragments = <<>>
                                                     /\ i[a].time > now + MaxEncodingTime
          /\ SpacedOut(i)
          /\ info' = Replan(i).info /\ parts' = Replan(i).parts
          /\ actionQueue' = updateLinkTimelines(i)
          /\ UNCHANGED <<now, linkStatus, lastEncodeTime, reports>>
  BY <1>1
<1>3. Extends(D, i)
  <2>1. \A a \in D : i[a].time \in Times  BY DEF ActionInfo
  <2>2. now + MaxEncodingTime \in Int /\ Times \subseteq Nat  BY NumbersAre DEF TypeInv
  <2>3. \A a \in D : i[a].time > now + MaxEncodingTime => i[a].time >= now + MaxEncodingTime
    <3>0. \A t \in Times : t \in Int  BY <2>2
    <3>1. \A a \in D : i[a].time \in Int  BY <2>1, <3>0
    <3>2. \A x, y \in Int : x > y => x >= y  OBVIOUS
    <3>. QED BY <2>2, <3>1, <3>2
  <2>. QED BY <1>2, <2>3 DEF Extends
<1>4. PICK r : r = Replan(i)  OBVIOUS
<1>5. PICK qs : qs = updateLinkTimelines(i)  OBVIOUS
<1>6. TurnPlanned(DOMAIN info, info, parts, Packages, D, i, qs, packageQueue, ToldHandles, lastEncodeTime, r)
  BY <1>2, <1>3, <1>4, <1>5, TimelineTurn
<1>7. /\ r \in TurnPlans(D, i, qs, packageQueue, ToldHandles, lastEncodeTime)
      /\ Waiting(r.info, r.parts, qs, packageQueue)
      /\ KeepsEncoded(DOMAIN info, info, parts, Packages, D, r, lastEncodeTime)
  BY <1>6 DEF TurnPlanned
<1>8. r \in SameTimes(D, i) /\ InTurnPlan(r.info, r.parts, qs, packageQueue)  BY <1>7 DEF TurnPlans
<1>9. info' = r.info /\ parts' = r.parts /\ actionQueue' = qs /\ now' = now  BY <1>2, <1>4, <1>5
<1>10. packageQueue' = packageQueue  BY DEF FetchTimeline
<1>11. DOMAIN info' = D  BY <1>8, <1>9 DEF SameTimes, GoodPlans, PlansOf
<1>12. Kept(Packages)  BY <1>7, <1>9, <1>11, KeptIs
<1>13. TurnInv'  BY <1>7, <1>8, <1>9, <1>10, TurnFrom
<1>. QED BY <1>12, <1>13

\* The queues with the package p of the link l at the end.
IsQueued(before, queues, p, l) ==
    /\ queues \in [Links -> Seq(Packages)] /\ OwnPackages(queues) /\ p \in ToSet(queues[l])
    /\ \A m \in Links : ToSet(queues[m]) \subseteq ToSet(before[m]) \cup {p}
    /\ \A m \in Links : ToSet(before[m]) \subseteq ToSet(queues[m])
    /\ \A m \in Links \ {l} : queues[m] = before[m]
    /\ \A m \in Links : \A x, y \in Packages :
           Precedes(queues[m], x, y) => Precedes(before[m], x, y) \/ (y = p /\ m = l)
    /\ \A x \in Packages : Precedes(queues[l], x, p) => x # p /\ x \in ToSet(before[l])

LEMMA QueuedIs ==
    ASSUME NEW before \in [Links -> Seq(Packages)], OwnPackages(before), NEW p \in Packages,
           NEW l, l = Route[p], p \notin ToSet(before[l]),
           NEW queues, queues = [before EXCEPT ![l] = Append(@, p)]
    PROVE  IsQueued(before, queues, p, l)
<1>1. l \in Links  BY PackagesAssumption
<1>2. PICK s : s = before[l]  OBVIOUS
<1>3. PICK r : r = Append(s, p)  OBVIOUS
<1>4. s \in Seq(Packages) /\ r \in Seq(Packages)  BY <1>1, <1>2, <1>3
<1>5. queues[l] = r /\ \A m \in Links \ {l} : queues[m] = before[m]  BY <1>1, <1>2, <1>3
<1>6. queues \in [Links -> Seq(Packages)]  BY <1>1, <1>2, <1>3, <1>4
<1>7. IsAppended(s, p, r)  BY <1>3, <1>4, Appended
<1>8. PICK n \in Nat : n = Len(s)  BY <1>4
<1>9. /\ DOMAIN r = 1 .. n + 1 /\ DOMAIN s = 1 .. n
      /\ r[n + 1] = p /\ \A k \in 1 .. n : r[k] = s[k]
  BY <1>7, <1>8 DEF IsAppended
<1>10. ToSet(r) = ToSet(s) \cup {p}
  <2>1. \A k \in 1 .. n + 1 : k \in 1 .. n \/ k = n + 1  OBVIOUS
  <2>2. 1 .. n \subseteq 1 .. n + 1 /\ n + 1 \in 1 .. n + 1  OBVIOUS
  <2>. QED BY <1>9, <2>1, <2>2 DEF ToSet
<1>11. \A m \in Links : /\ ToSet(queues[m]) \subseteq ToSet(before[m]) \cup {p}
                        /\ ToSet(before[m]) \subseteq ToSet(queues[m])
  BY <1>2, <1>5, <1>10
<1>12. OwnPackages(queues)
  <2>1. \A m \in Links : \A x \in ToSet(queues[m]) : x \in ToSet(before[m]) \/ (x = p /\ m = l)
    BY <1>2, <1>5, <1>10
  <2>. QED BY <2>1 DEF OwnPackages
<1>13. ASSUME NEW x, NEW y, Precedes(r, x, y)
       PROVE  x \in ToSet(s) /\ (Precedes(s, x, y) \/ y = p)
  <2>1. PICK j \in 1 .. n + 1, k \in 1 .. n + 1 : j < k /\ r[j] = x /\ r[k] = y  BY <1>9, <1>13 DEF Precedes
  <2>2. j \in 1 .. n /\ s[j] = x  BY <1>9, <2>1
  <2>3. k \in 1 .. n \/ k = n + 1  OBVIOUS
  <2>. QED BY <1>9, <2>1, <2>2, <2>3 DEF Precedes, ToSet
<1>14. \A m \in Links : \A x, y \in Packages :
           Precedes(queues[m], x, y) => Precedes(before[m], x, y) \/ (y = p /\ m = l)
  BY <1>2, <1>5, <1>13
<1>15. \A x \in Packages : Precedes(queues[l], x, p) => x # p /\ x \in ToSet(before[l])
  BY <1>2, <1>5, <1>13
<1>. QED BY <1>5, <1>6, <1>10, <1>11, <1>12, <1>14, <1>15 DEF IsQueued

\* A plan in turn remains one when a package is queued that has no fragments.
LEMMA QueuedTurn ==
    ASSUME NEW D, NEW i, NEW qs, NEW T, NEW t, NEW before, NEW e \in TurnPlans(D, i, qs, before, T, t),
           NEW p \in Packages, e.parts[p] = <<>>, NEW l, l = Route[p], NEW queues, IsQueued(before, queues, p, l)
    PROVE  e \in TurnPlans(D, i, qs, queues, T, t)
<1>1. /\ e \in SameTimes(D, i) /\ SoundPlan(e.info, e.parts, qs, T, t)
      /\ InTurnPlan(e.info, e.parts, qs, before) /\ OnlyQueued(e.parts, before)
  BY DEF TurnPlans
<1>2. OnlyQueued(e.parts, queues)
  <2>1. \A q \in Packages : Route[q] \in Links  BY PackagesAssumption
  <2>. QED BY <1>1, <2>1 DEF OnlyQueued, IsQueued
<1>3. \A x \in Packages : Ahead(e.info, e.parts, x, p)
  <2>1. DOMAIN e.parts[p] = {}  OBVIOUS
  <2>. QED BY <2>1 DEF Ahead
<1>4. InQueueOrder(e.info, e.parts, queues)
  BY <1>1, <1>3 DEF InQueueOrder, InTurnPlan, IsQueued
<1>5. InTurnPlan(e.info, e.parts, qs, queues)  BY <1>1, <1>4 DEF InTurnPlan
<1>. QED BY <1>1, <1>2, <1>5 DEF TurnPlans

\* A link that has no room has none after a package was planned.
LEMMA FillNoRoom ==
    ASSUME TypeOK, NEW D, D \subseteq Actions, NEW qs \in [Links -> Seq(D)], NEW c \in GoodPlans(D),
           NEW p \in Packages, NEW queue \in Seq(D), NEW exact, NEW m \in Links,
           NoRoom(now + MaxEncodingTime, c.info, qs[m], m),
           NEW e, e = generateFragmentsForPackage(c, p, queue, exact)
    PROVE  NoRoom(now + MaxEncodingTime, e.info, qs[m], m)
<1>1. c \in RoomFor(D, {m}, qs)  BY DEF RoomFor
<1>2. {m} \subseteq Links  OBVIOUS
<1>3. e \in RoomFor(D, {m}, qs)  BY <1>1, <1>2, OneRoomFor
<1>. QED BY <1>3 DEF RoomFor

\* Where there is no room, planning a package changes nothing.
LEMMA FillNothing ==
    ASSUME NEW D, NEW c, NEW p \in Packages, NEW l, l = Route[p], NEW queue \in Seq(D),
           NoRoom(now + MaxEncodingTime, c.info, queue, l), NEW exact, exact \notin D
    PROVE  generateFragmentsForPackage(c, p, queue, exact) = c
<1>1. Len(queue) \in Nat /\ \A k \in 1 .. Len(queue) : k \in DOMAIN queue /\ queue[k] \in D  BY Elements
<1> DEFINE P == [k \in 0 .. Len(queue) |-> {c}]
<1>2. c \in P[0]  BY <1>1
<1>3. \A k \in 1 .. Len(queue) : \A e \in P[k - 1] : TakeAction(e, p, queue[k], exact) \in P[k]
  <2>1. ASSUME NEW k \in 1 .. Len(queue) PROVE TakeAction(c, p, queue[k], exact) = c
    <3>1. ~MayCarry(c, p, queue[k], exact)  BY <1>1 DEF NoRoom, MayCarry
    <3>. QED BY <3>1 DEF TakeAction
  <2>2. \A k \in 1 .. Len(queue) : k - 1 \in 0 .. Len(queue) /\ k \in 0 .. Len(queue)  BY <1>1
  <2>. QED BY <2>1, <2>2
<1>4. Len(queue) \in 0 .. Len(queue)  BY <1>1
<1> HIDE DEF P
<1>5. generateFragmentsForPackage(c, p, queue, exact) \in P[Len(queue)]  BY <1>1, <1>2, <1>3, FillAlong
<1>. QED BY <1>4, <1>5 DEF P

\* The package sent is planned when all before it are.
LEMMA SendInTurn ==
    ASSUME TypeOK, NEW D, D \subseteq Actions, NEW i \in [D -> ActionInfo], OneAtATime(i),
           NEW qs \in [Links -> Seq(D)], AllSorted(i, qs), NEW T, NEW t \in Int,
           NEW before, NEW c \in TurnPlans(D, i, qs, before, T, t), Waiting(c.info, c.parts, qs, before),
           NEW p \in Packages, c.parts[p] = <<>>, NEW l, l = Route[p],
           NEW queues, IsQueued(before, queues, p, l), NEW exact, InWindow(D, i, t, exact),
           \A q \in ToSet(before[l]) : Planned(c, q),
           exact \in ToSet(qs[l]) => \A b \in D : Carries(c.info, b, l) => i[b].time <= i[exact].time,
           NEW r, r = generateFragmentsForPackage(c, p, qs[l], exact)
    PROVE  /\ r \in TurnPlans(D, i, qs, queues, T, t) /\ Waiting(r.info, r.parts, qs, queues)
           /\ Grows(D, i, c, r, t)
<1>1. c \in TurnPlans(D, i, qs, queues, T, t)  BY QueuedTurn
<1>2. HasTurn(D, i, c, p, qs, queues, exact)  BY DEF HasTurn, IsQueued
<1>3. queues \in [Links -> Seq(Packages)]  BY DEF IsQueued
<1>4. l \in Links  BY PackagesAssumption
<1>5. PICK queue : queue = qs[l]  OBVIOUS
<1>6. Sorted(i, queue) /\ queue \in Seq(D)  BY <1>4, <1>5 DEF AllSorted
<1>7. r \in TurnPlans(D, i, qs, queues, T, t) /\ Offered(D, i, c, r, p, queue, exact, t, Len(queue))
  BY <1>1, <1>2, <1>3, <1>5, <1>6, FillTurn
<1>8. Grows(D, i, c, r, t)  BY <1>7 DEF Offered
<1>9. c \in GoodPlans(D) /\ DOMAIN queue = 1 .. Len(queue)  BY <1>6, Elements DEF TurnPlans, SameTimes
<1>10. ASSUME NEW m \in Links, NEW q \in ToSet(queues[m])
       PROVE  InFull(r.parts, q) \/ NoRoom(now + MaxEncodingTime, r.info, qs[m], m)
  <2>1. q \in Packages
    <3>1. queues[m] \in Seq(Packages)  BY <1>3
    <3>. QED BY <3>1, Elements DEF ToSet
  <2>2. CASE m = l /\ q # p
    <3>1. q \in ToSet(before[l])  BY <1>4, <2>2 DEF IsQueued
    <3>2. Planned(c, q)  BY <3>1
    <3>3. r.parts[q] = c.parts[q]  BY <1>8, <2>1, <3>2 DEF Grows
    <3>. QED BY <3>2, <3>3 DEF Planned, InFull
  <2>3. CASE m = l /\ q = p
    <3>1. Planned(r, p) \/ \A k \in DOMAIN queue : ~MayCarry(r, p, queue[k], exact)
      BY <1>7, <1>9 DEF Offered
    <3>2. ~Planned(r, p) => NoRoom(now + MaxEncodingTime, r.info, qs[l], l)
      BY <1>5, <3>1 DEF NoRoom, MayCarry
    <3>. QED BY <2>3, <3>2 DEF Planned, InFull
  <2>4. CASE m # l
    <3>1. q \in ToSet(before[m])  BY <2>4 DEF IsQueued
    <3>2. InFull(c.parts, q) \/ NoRoom(now + MaxEncodingTime, c.info, qs[m], m)  BY <3>1 DEF Waiting
    <3>3. InFull(c.parts, q) => InFull(r.parts, q)
      BY <1>8, <2>1 DEF Grows, InFull, Planned
    <3>4. NoRoom(now + MaxEncodingTime, c.info, qs[m], m) => NoRoom(now + MaxEncodingTime, r.info, qs[m], m)
      BY <1>5, <1>6, <1>9, FillNoRoom
    <3>. QED BY <3>2, <3>3, <3>4
  <2>. QED BY <2>2, <2>3, <2>4
<1>. QED BY <1>7, <1>8, <1>10 DEF Waiting

\* Where one before it waits there is no room for it either.
LEMMA SendWaits ==
    ASSUME TypeOK, NEW D, D \subseteq Actions, NEW i, NEW qs \in [Links -> Seq(D)], NEW T, NEW t,
           NEW before, NEW c \in TurnPlans(D, i, qs, before, T, t), Waiting(c.info, c.parts, qs, before),
           NEW p \in Packages, c.parts[p] = <<>>, NEW l, l = Route[p],
           NEW queues, IsQueued(before, queues, p, l), NEW exact, exact \notin D,
           NEW q \in ToSet(before[l]), ~Planned(c, q),
           NEW r, r = generateFragmentsForPackage(c, p, qs[l], exact)
    PROVE  /\ r \in TurnPlans(D, i, qs, queues, T, t) /\ Waiting(r.info, r.parts, qs, queues)
           /\ Grows(D, i, c, r, t)
<1>1. c \in TurnPlans(D, i, qs, queues, T, t)  BY QueuedTurn
<1>2. l \in Links  BY PackagesAssumption
<1>3. NoRoom(now + MaxEncodingTime, c.info, qs[l], l)  BY <1>2 DEF Waiting, InFull, Planned
<1>4. qs[l] \in Seq(D)  BY <1>2
<1>5. r = c
  <2>1. PICK queue : queue = qs[l]  OBVIOUS
  <2>. QED BY <1>3, <1>4, <2>1, FillNothing
<1>6. Waiting(c.info, c.parts, qs, queues)
  <2>1. ASSUME NEW m \in Links, NEW x \in ToSet(queues[m])
        PROVE  InFull(c.parts, x) \/ NoRoom(now + MaxEncodingTime, c.info, qs[m], m)
    <3>1. CASE m = l  BY <1>3, <3>1
    <3>2. CASE m # l
      <4>1. x \in ToSet(before[m])  BY <3>2 DEF IsQueued
      <4>. QED BY <4>1 DEF Waiting
    <3>. QED BY <3>1, <3>2
  <2>. QED BY <2>1 DEF Waiting
<1>7. Grows(D, i, c, r, t)  BY <1>5, GrowsNot
<1>. QED BY <1>1, <1>5, <1>6, <1>7

\* The plan a send starts from is in turn.
LEMMA BaseTurn ==
    ASSUME Spaced, TypeInv, ReportInv, PlanInv, TurnInv, NEW p \in Packages,
           NEW r \in Reactive \union {NoAction}, NEW D, NEW i, NEW qs, qs = SendQueues(r),
           NEW base, base = SendBase(r), SendReady(p, r, D, i, qs, base), i = SendTimeline(r)
    PROVE  /\ TurnPlanned(DOMAIN info, info, parts, Packages, D, i, qs, packageQueue, ToldHandles,
                          lastEncodeTime, base)
           /\ r # NoAction => Stays(info, parts, DOMAIN info \ D, Packages, base)
<1>1. TypeOK  BY DEF TypeInv
<1>2. CASE r # NoAction
  <2>1. /\ D \subseteq Actions /\ i \in [D -> ActionInfo] /\ Extends(D, i) /\ SpacedOut(i)
        /\ base = Replan(i) /\ qs = updateLinkTimelines(i)
    BY <1>2 DEF SendReady, SendBase, SendQueues
  <2>. QED BY <2>1, TimelineTurn
<1>3. CASE r = NoAction
  <2>1. /\ base.info = info /\ base.parts = parts /\ qs = actionQueue /\ i = info
        /\ base \in SameTimes(D, i) /\ i \in [D -> ActionInfo]
        /\ SoundPlan(base.info, base.parts, qs, ToldHandles, lastEncodeTime)
    BY <1>3 DEF SendReady, SendBase, SendQueues, Plan
  <2>2. OnlyQueued(base.parts, packageQueue)  BY <2>1, OwnOnes
  <2>3. InTurnPlan(base.info, base.parts, qs, packageQueue) /\ Waiting(base.info, base.parts, qs, packageQueue)
    BY <2>1 DEF TurnInv
  <2>4. base \in TurnPlans(D, i, qs, packageQueue, ToldHandles, lastEncodeTime)
    BY <2>1, <2>2, <2>3 DEF TurnPlans
  <2>5. DOMAIN info = D  BY <2>1
  <2>6. KeepsEncoded(DOMAIN info, info, parts, Packages, D, base, lastEncodeTime)
    BY <2>1, <2>5 DEF KeepsEncoded
  <2>. QED BY <1>3, <2>3, <2>4, <2>6 DEF TurnPlanned
<1>. QED BY <1>2, <1>3

\* What is queued before the package a reaction adds an action for goes out before.
LEMMA GoesBefore ==
    ASSUME TypeOK, NEW p \in Packages, NEW l, l = Route[p], GoOutBy(packageQueue[l], now + MaxEncodingTime),
           NEW D, NEW i \in [D -> ActionInfo], NEW qs, NEW T, NEW t,
           NEW c \in TurnPlans(D, i, qs, packageQueue, T, t), NoAction \notin D,
           NEW X, Stays(info, parts, X, Packages, c),
           \A a \in X : ~(info[a].time <= now + MaxEncodingTime), PlanInv,
           \A a \in DOMAIN info : a \in D => i[a].time = info[a].time
    PROVE  /\ \A q \in ToSet(packageQueue[l]) : Planned(c, q)
           /\ \A b \in D : Carries(c.info, b, l) => i[b].time <= now + MaxEncodingTime
<1>1. l \in Links  BY PackagesAssumption
<1>2. packageQueue[l] \in Seq(Packages)  BY <1>1 DEF TypeOK
<1>3. ASSUME NEW q \in ToSet(packageQueue[l])
      PROVE  /\ q \in Packages /\ Planned(c, q) /\ c.parts[q] = parts[q]
             /\ \A j \in DOMAIN parts[q] : parts[q][j].action # NoAction
                    => parts[q][j].action \in DOMAIN info /\ info[parts[q][j].action].time <= now + MaxEncodingTime
  <2>1. q \in Packages /\ \E k \in DOMAIN packageQueue[l] : packageQueue[l][k] = q
    BY <1>2, Elements DEF ToSet
  <2>2. PICK k \in DOMAIN packageQueue[l] : packageQueue[l][k] = q  BY <2>1
  <2>3. /\ Planned(Plan, q)
        /\ \A j \in DOMAIN parts[q] :
               parts[q][j].action # NoAction => info[parts[q][j].action].time <= now + MaxEncodingTime
    BY <2>2, Zenon DEF GoOutBy
  <2>4. InFull(parts, q)  BY <2>3 DEF Planned, Plan, InFull
  <2>5. \A j \in DOMAIN parts[q] : parts[q][j].action # NoAction => parts[q][j].action \in DOMAIN info
    BY <2>1 DEF PlanInv, SoundPlan, Carried
  <2>6. c.parts[q] = parts[q]
    <3>1. \A j \in DOMAIN parts[q] : parts[q][j].action # NoAction
             => parts[q][j].action \notin X /\ info[parts[q][j].action].time <= now + MaxEncodingTime
      BY <2>3
    <3>2. q \in Packages \cap Packages  BY <2>1
    <3>. QED BY <2>4, <3>1, <3>2 DEF Stays
  <2>. QED BY <2>1, <2>3, <2>4, <2>5, <2>6 DEF Planned, InFull
<1>4. ASSUME NEW b \in D, Carries(c.info, b, l) PROVE i[b].time <= now + MaxEncodingTime
  <2>1. /\ c \in SameTimes(D, i) /\ SoundPlan(c.info, c.parts, qs, T, t)
        /\ InTurnPlan(c.info, c.parts, qs, packageQueue) /\ OnlyQueued(c.parts, packageQueue)
    BY DEF TurnPlans
  <2>2. c.info \in [D -> ActionInfo] /\ c.info[b].time = i[b].time  BY <2>1 DEF SameTimes, GoodPlans, PlansOf
  <2>3. 1 \in DOMAIN c.info[b].fragments
    <3>1. c.info[b].fragments \in Seq(Pointers) /\ c.info[b].fragments # <<>>
      BY <1>4, <2>2 DEF ActionInfo, Carries
    <3>. QED BY <3>1, Elements
  <2>4. PICK x : x = c.info[b].fragments[1]  OBVIOUS
  <2>5. LeadsBack(c.info, c.parts, b, x)
    <3>1. SamePieces(c.info, c.parts)  BY <2>1 DEF InTurnPlan
    <3>. QED BY <2>1, <2>2, <2>3, <2>4, <3>1, PointsTo
  <2>6. PICK q \in Packages : q = x.pkg  BY <2>5 DEF LeadsBack
  <2>7. Route[q] = l  BY <1>4, <2>5, <2>6 DEF LeadsBack, Carries
  <2>8. PICK j \in DOMAIN c.parts[q] : c.parts[q][j].action = b  BY <2>5, <2>6 DEF LeadsBack
  <2>9. c.parts[q] # <<>>  BY <2>8
  <2>10. q \in ToSet(packageQueue[l])  BY <2>1, <2>7, <2>9 DEF OnlyQueued
  <2>11. parts[q][j].action = b /\ j \in DOMAIN parts[q]  BY <1>3, <2>8, <2>10
  <2>12. b # NoAction  OBVIOUS
  <2>13. b \in DOMAIN info /\ info[b].time <= now + MaxEncodingTime  BY <1>3, <2>10, <2>11, <2>12
  <2>. QED BY <2>13
<1>. QED BY <1>3, <1>4

LEMMA TurnSend ==
    ASSUME Spaced, InTurn, TypeInv, ReportInv, PlanInv, TurnInv, NEW p \in Packages,
           NEW r \in Reactive \union {NoAction}, SendPackage(p, r)
    PROVE  TurnInv' /\ Kept(Packages)
<1>1. PICK i : i = SendTimeline(r)  OBVIOUS
<1>2. PICK D : D = DOMAIN i  OBVIOUS
<1>3. PICK qs : qs = SendQueues(r)  OBVIOUS
<1>4. PICK c : c = SendBase(r)  OBVIOUS
<1>5. PICK l : l = Route[p]  OBVIOUS
<1>6. PICK e : e = SendPlan(p, r)  OBVIOUS
<1>7. PICK t : t = lastEncodeTime  OBVIOUS
<1>8. SendReady(p, r, D, i, qs, c)  BY <1>1, <1>2, <1>3, <1>4, SendPrepared
<1>9. /\ TurnPlanned(DOMAIN info, info, parts, Packages, D, i, qs, packageQueue, ToldHandles, t, c)
      /\ r # NoAction => Stays(info, parts, DOMAIN info \ D, Packages, c)
  BY <1>1, <1>3, <1>4, <1>7, <1>8, BaseTurn
<1>10. /\ info' = e.info /\ parts' = e.parts /\ actionQueue' = qs
       /\ packageQueue' = IF SendFits(p, r) THEN [packageQueue EXCEPT ![l] = Append(@, p)] ELSE packageQueue
       /\ now' = now
       /\ InTurn /\ r # NoAction => GoOutBy(packageQueue[l], now + MaxEncodingTime)
       /\ e = IF SendFits(p, r) THEN generateFragmentsForPackage(c, p, qs[l], r) ELSE c
  <2>1. /\ info' = SendPlan(p, r).info /\ parts' = SendPlan(p, r).parts /\ actionQueue' = SendQueues(r)
        /\ packageQueue' = IF SendFits(p, r) THEN [packageQueue EXCEPT ![Route[p]] = Append(@, p)]
                           ELSE packageQueue
        /\ now' = now
    BY SendIs
  <2>2. InTurn /\ r # NoAction => GoOutBy(packageQueue[Route[p]], now + MaxEncodingTime)
    BY Zenon DEF SendPackage
  <2>. QED BY <1>3, <1>4, <1>5, <1>6, <2>1, <2>2 DEF SendPlan
<1>11. /\ D \subseteq Actions /\ i \in [D -> ActionInfo] /\ qs \in [Links -> Seq(D)] /\ AllSorted(i, qs)
       /\ c.parts[p] = <<>> /\ p \notin Queued /\ SpacedOut(i) /\ InWindow(D, i, t, r)
       /\ r # NoAction => D = DOMAIN info \union {r} /\ i[r].time = now + MaxEncodingTime
       /\ \A a \in DOMAIN info : a \in D /\ i[a] = info[a]
  BY <1>7, <1>8 DEF SendReady, AllSorted
<1>12. /\ TypeOK /\ packageQueue \in [Links -> Seq(Packages)] /\ l \in Links /\ t \in Int
       /\ OneAtATime(i) /\ NoAction \notin D
  <2>1. TypeOK  BY DEF TypeInv
  <2>2. packageQueue \in [Links -> Seq(Packages)] /\ lastEncodeTime \in Times  BY <2>1 DEF TypeOK
  <2>3. Times \subseteq Nat  BY <2>1, NumbersAre
  <2>4. OneAtATime(i)  BY <1>11, <2>1, TimelineIs, SpacedOnes
  <2>5. NoAction \notin D /\ l \in Links  BY <1>5, <1>11, PackagesAssumption
  <2>. QED BY <1>7, <2>1, <2>2, <2>3, <2>4, <2>5
<1>13. /\ c \in TurnPlans(D, i, qs, packageQueue, ToldHandles, t) /\ Waiting(c.info, c.parts, qs, packageQueue)
       /\ KeepsEncoded(DOMAIN info, info, parts, Packages, D, c, t)
  BY <1>9 DEF TurnPlanned
<1>14. CASE ~SendFits(p, r)
  <2>1. e = c /\ packageQueue' = packageQueue  BY <1>10, <1>14
  <2>2. InTurnPlan(e.info, e.parts, qs, packageQueue) /\ c \in SameTimes(D, i)  BY <1>13, <2>1 DEF TurnPlans
  <2>3. DOMAIN info' = D  BY <1>10, <2>1, <2>2 DEF SameTimes, GoodPlans, PlansOf
  <2>4. Kept(Packages)  BY <1>7, <1>10, <1>13, <2>1, <2>3, KeptIs
  <2>5. TurnInv'  BY <1>10, <1>13, <2>1, <2>2, TurnFrom
  <2>. QED BY <2>4, <2>5
<1>15. CASE SendFits(p, r)
  <2>1. PICK queues : queues = [packageQueue EXCEPT ![l] = Append(@, p)]  OBVIOUS
  <2>2. IsQueued(packageQueue, queues, p, l)
    <3>1. p \notin ToSet(packageQueue[l])  BY <1>11, <1>12 DEF Queued
    <3>2. OwnPackages(packageQueue)  BY OwnOnes
    <3>. QED BY <1>5, <1>12, <2>1, <3>1, <3>2, QueuedIs
  <2>3. e = generateFragmentsForPackage(c, p, qs[l], r)  BY <1>10, <1>15
  <2>4. /\ e \in TurnPlans(D, i, qs, queues, ToldHandles, t) /\ Waiting(e.info, e.parts, qs, queues)
        /\ Grows(D, i, c, e, t)
    <3>1. CASE r # NoAction
      <4>1. GoOutBy(packageQueue[l], now + MaxEncodingTime)  BY <1>10, <3>1
      <4>2. PICK X : X = DOMAIN info \ D  OBVIOUS
      <4>3. Stays(info, parts, X, Packages, c)  BY <1>9, <3>1, <4>2
      <4>4. \A a \in X : ~(info[a].time <= now + MaxEncodingTime)  BY <1>11, <4>2
      <4>5. \A a \in DOMAIN info : a \in D => i[a].time = info[a].time  BY <1>11
      <4>6. /\ \A q \in ToSet(packageQueue[l]) : Planned(c, q)
            /\ \A b \in D : Carries(c.info, b, l) => i[b].time <= now + MaxEncodingTime
        <5>1. /\ TypeOK /\ i \in [D -> ActionInfo] /\ NoAction \notin D /\ PlanInv
              /\ c \in TurnPlans(D, i, qs, packageQueue, ToldHandles, t)
          BY <1>11, <1>12, <1>13
        <5>2. PICK T : T = ToldHandles  OBVIOUS
        <5>3. c \in TurnPlans(D, i, qs, packageQueue, T, t)  BY <5>1, <5>2
        <5>. QED BY <1>5, <4>1, <4>3, <4>4, <4>5, <5>1, <5>3, GoesBefore
      <4>7. i[r].time = now + MaxEncodingTime  BY <1>11, <3>1
      <4>8. r \in ToSet(qs[l]) => \A b \in D : Carries(c.info, b, l) => i[b].time <= i[r].time
        BY <4>6, <4>7
      <4>9. \A q \in ToSet(packageQueue[l]) : Planned(c, q)  BY <4>6
      <4>. QED BY <1>5, <1>11, <1>12, <1>13, <2>2, <2>3, <4>8, <4>9, SendInTurn
    <3>2. CASE r = NoAction /\ \A q \in ToSet(packageQueue[l]) : Planned(c, q)
      <4>1. r \notin D  BY <1>12, <3>2
      <4>2. r \notin ToSet(qs[l])
        <5>1. qs[l] \in Seq(D)  BY <1>11, <1>12
        <5>. QED BY <4>1, <5>1, Elements DEF ToSet
      <4>3. r \in ToSet(qs[l]) => \A b \in D : Carries(c.info, b, l) => i[b].time <= i[r].time  BY <4>2
      <4>. QED BY <1>5, <1>11, <1>12, <1>13, <2>2, <2>3, <3>2, <4>3, SendInTurn
    <3>3. CASE r = NoAction /\ ~(\A q \in ToSet(packageQueue[l]) : Planned(c, q))
      <4>1. r \notin D  BY <1>12, <3>3
      <4>2. PICK q \in ToSet(packageQueue[l]) : ~Planned(c, q)  BY <3>3
      <4>3. /\ TypeOK /\ D \subseteq Actions /\ qs \in [Links -> Seq(D)] /\ c.parts[p] = <<>>
            /\ c \in TurnPlans(D, i, qs, packageQueue, ToldHandles, t)
            /\ Waiting(c.info, c.parts, qs, packageQueue)
        BY <1>11, <1>12, <1>13
      <4>4. PICK before : before = packageQueue  OBVIOUS
      <4>5. /\ c \in TurnPlans(D, i, qs, before, ToldHandles, t) /\ Waiting(c.info, c.parts, qs, before)
            /\ q \in ToSet(before[l]) /\ IsQueued(before, queues, p, l)
        BY <2>2, <4>3, <4>4
      <4>. QED BY <1>5, <2>3, <4>1, <4>2, <4>3, <4>5, SendWaits
    <3>. QED BY <3>1, <3>2, <3>3
  <2>5. /\ c \in SameTimes(D, i) /\ SoundPlan(c.info, c.parts, qs, ToldHandles, t)
        /\ e \in SameTimes(D, i) /\ SoundPlan(e.info, e.parts, qs, ToldHandles, t)
        /\ InTurnPlan(e.info, e.parts, qs, queues)
    BY <1>13, <2>4 DEF TurnPlans
  <2>6. \A a \in DOMAIN info : info[a].time <= t => i[a].time = info[a].time
    <3>1. \A a \in DOMAIN info : i[a] = info[a]  BY <1>11
    <3>. QED BY <3>1
  <2>7. KeepsEncoded(DOMAIN info, info, parts, Packages, D, e, t)
    BY <1>12, <1>13, <2>4, <2>5, <2>6, GrowsKept
  <2>8. DOMAIN info' = D  BY <1>10, <2>5 DEF SameTimes, GoodPlans, PlansOf
  <2>9. Kept(Packages)  BY <1>7, <1>10, <2>7, <2>8, KeptIs
  <2>10. packageQueue' = queues  BY <1>10, <1>15, <2>1
  <2>11. TurnInv'  BY <1>10, <2>4, <2>5, <2>10, TurnFrom
  <2>. QED BY <2>9, <2>11
<1>. QED BY <1>14, <1>15

LEMMA TurnInit == Init => TurnInv
<1> SUFFICES ASSUME Init PROVE TurnInv  OBVIOUS
<1>1. /\ DOMAIN info = {} /\ parts = [p \in Packages |-> <<>>]
      /\ actionQueue = [l \in Links |-> <<>>] /\ packageQueue = [l \in Links |-> <<>>]
  BY DEF Init
<1>2. /\ \A l \in Links : ToSet(actionQueue[l]) = {} /\ ToSet(packageQueue[l]) = {} /\ DOMAIN packageQueue[l] = {}
      /\ \A p \in Packages : DOMAIN parts[p] = {}
  BY <1>1 DEF ToSet
<1>3. Packed(info) /\ SamePieces(info, parts)  BY <1>1 DEF Packed, SamePieces
<1>4. OneInEach(parts) /\ InQueueOrder(info, parts, packageQueue)  BY <1>2 DEF OneInEach, InQueueOrder, Precedes
<1>5. NoGaps(info, actionQueue) /\ Waiting(info, parts, actionQueue, packageQueue)  BY <1>2 DEF NoGaps, Waiting
<1>. QED BY <1>3, <1>4, <1>5 DEF TurnInv, InTurnPlan

\* Steps that leave the managers alone.
LEMMA TurnElse ==
    ASSUME TypeInv, TypeInv', PlanInv, TurnInv, UNCHANGED <<now, info, parts, actionQueue, packageQueue>>
    PROVE  TurnInv'
<1>1. now <= now'  BY NumbersAre DEF TypeInv
<1>. QED BY <1>1, TurnSame

LEMMA TurnKept ==
    ASSUME Careful, Spaced, InTurn, TypeInv, TypeInv', ReportInv, BlockInv, PlanInv, PlanInv', TurnInv, [Next]_vars
    PROVE  TurnInv'
<1>1. CASE Tick  BY <1>1, TurnTick
<1>2. CASE FetchTimeline  BY <1>2, TurnFetch
<1>3. CASE EncodeActions  BY <1>3, EncodeFurther, TurnFurther
<1>4. CASE DoAction  BY <1>4, TurnDo
<1>5. CASE OnPackageStatusChanged  BY <1>5, TurnStatus
<1>6. CASE \E p \in Packages, r \in Reactive \union {NoAction} : SendPackage(p, r)  BY <1>6, TurnSend
<1>7. CASE \E a \in Actions : OnBytesEncoded(a)  BY <1>7, EncodedFurther, TurnFurther DEF BlockInv
<1>8. ASSUME NEW l \in Links, OnLinkCreated(l) \/ OnLinkDestroyed(l) \/ Receive(l) \/ Fault(l)
      PROVE  TurnInv'
  <2>1. CASE OnLinkCreated(l)
    <3>1. UNCHANGED <<now, actionVars, packageVars>>  BY <2>1, Zenon DEF OnLinkCreated
    <3>. QED BY <3>1, TurnElse DEF actionVars, packageVars
  <2>2. CASE OnLinkDestroyed(l)  BY <2>2, TurnDestroyed
  <2>3. CASE Receive(l)
    <3>1. UNCHANGED <<now, actionVars, packageVars>>  BY <2>3, Zenon DEF Receive
    <3>. QED BY <3>1, TurnElse DEF actionVars, packageVars
  <2>4. CASE Fault(l)
    <3>1. UNCHANGED <<now, actionVars, packageVars>>  BY <2>4, Zenon DEF Fault
    <3>. QED BY <3>1, TurnElse DEF actionVars, packageVars
  <2>. QED BY <1>8, <2>1, <2>2, <2>3, <2>4
<1>9. CASE UNCHANGED vars  BY <1>9, TurnElse DEF vars, actionVars, packageVars
<1>. QED BY <1>1, <1>2, <1>3, <1>4, <1>5, <1>6, <1>7, <1>8, <1>9 DEF Next

--------------------------------------------------------------------------------
(* The stream of a link.  What goes out on a link is cut from a stream of      *)
(* packages, piece after piece: the receiving end puts together what belongs   *)
(* together when the content that goes on with a package is the next one.      *)

Ends(x) == x.off + x.len

\* The piece y goes on where x ends.
GoesOn(x, y) == y.pkg = x.pkg /\ y.off = Ends(x)

\* Pieces of one package, one after the other from its beginning.
Tiled(s) ==
    \A k \in DOMAIN s : /\ s[k].pkg = s[1].pkg
                        /\ k = 1 => s[k].off = 0
                        /\ k # 1 => s[k].off = Ends(s[k - 1])

\* Content carries packages from their beginning to their end, but for the first,
\* which may go on, and the last, which may go on in what follows.
WellCut(c) ==
    /\ c.data # <<>>
    /\ \A k \in DOMAIN c.data :
           /\ Ends(c.data[k]) <= Size[c.data[k].pkg]
           /\ k # 1 => c.data[k].off = 0
           /\ k # Len(c.data) => Ends(c.data[k]) = Size[c.data[k].pkg]
    /\ c.continueLast = (c.data[1].off # 0)
    /\ c.continueNext = (Ends(Last(c.data)) < Size[Last(c.data).pkg])

\* Receive, for what the link has received last and holds pending: state s.
Joined(s, c) == IF c.continueLast /\ c.id = s[1] + 1 THEN s[2] ELSE <<>>
Taken(s, c) == IF c.continueLast /\ Joined(s, c) = <<>> THEN Tail(c.data) ELSE c.data
Parcels(s, c) ==
    [k \in DOMAIN Taken(s, c) |-> IF k = 1 THEN Joined(s, c) \o <<Taken(s, c)[1]>> ELSE <<Taken(s, c)[k]>>]
StaysOpen(s, c) == c.continueNext /\ Taken(s, c) # <<>>
After(s, c) == <<c.id, IF StaysOpen(s, c) THEN Last(Parcels(s, c)) ELSE <<>>>>
Hands(s, c) == ToSet(IF StaysOpen(s, c) THEN Front(Parcels(s, c)) ELSE Parcels(s, c))

LEMMA ReceiveIs ==
    ASSUME NEW l, Receive(l), NEW c, c = Head(wire[l]), NEW s, s = <<last[l], pending[l]>>
    PROVE  /\ wire[l] # <<>> /\ wire' = [wire EXCEPT ![l] = Tail(@)]
           /\ last' = [last EXCEPT ![l] = After(s, c)[1]]
           /\ pending' = [pending EXCEPT ![l] = After(s, c)[2]]
           /\ delivered' = delivered \union Hands(s, c)
           /\ UNCHANGED <<now, linkStatus, actionVars, packageVars, held, reports, spent>>
<1> DEFINE before == IF Joins(c, l) THEN pending[l] ELSE <<>>
           data == IF c.continueLast /\ before = <<>> THEN Tail(c.data) ELSE c.data
           packages == [k \in DOMAIN data |-> IF k = 1 THEN before \o <<data[1]>> ELSE <<data[k]>>]
           open == c.continueNext /\ data # <<>>
<1>1. /\ wire[l] # <<>> /\ wire' = [wire EXCEPT ![l] = Tail(@)]
      /\ last' = [last EXCEPT ![l] = c.id]
      /\ pending' = [pending EXCEPT ![l] = IF open THEN Last(packages) ELSE <<>>]
      /\ delivered' = delivered \union ToSet(IF open THEN Front(packages) ELSE packages)
      /\ UNCHANGED <<now, linkStatus, actionVars, packageVars, held, reports, spent>>
  BY Zenon DEF Receive
<1>2. before = Joined(s, c)  BY DEF Joined, Joins
<1>3. data = Taken(s, c)  BY <1>2 DEF Taken
<1> HIDE DEF before, data
<1>4. packages = Parcels(s, c)  BY <1>2, <1>3 DEF Parcels
<1> HIDE DEF packages
<1>5. open = StaysOpen(s, c)  BY <1>3 DEF StaysOpen
<1> HIDE DEF open
<1>6. After(s, c)[1] = c.id /\ After(s, c)[2] = IF open THEN Last(packages) ELSE <<>>  BY <1>4, <1>5 DEF After
<1>7. Hands(s, c) = ToSet(IF open THEN Front(packages) ELSE packages)  BY <1>4, <1>5 DEF Hands
<1>. QED BY <1>1, <1>6, <1>7

LEMMA TiledWhole ==
    ASSUME NEW s \in Seq(Pieces), s # <<>>, Tiled(s), Ends(Last(s)) = Size[Last(s).pkg]
    PROVE  WholePackage(s)
<1>1. DOMAIN s = 1 .. Len(s) /\ Len(s) \in Nat /\ \A k \in DOMAIN s : s[k] \in Pieces  BY Elements
<1>2. 1 \in DOMAIN s /\ Len(s) \in DOMAIN s /\ Last(s) = s[Len(s)]  BY <1>1, EmptySeq DEF Last
<1>3. PICK p \in Packages : p = s[1].pkg  BY <1>1, <1>2 DEF Pieces
<1>4. \A k \in DOMAIN s : s[k].pkg = p  BY <1>3 DEF Tiled
<1>5. Covered(s) = Size[p]  BY <1>2, <1>4 DEF Covered, Ends
<1>6. ASSUME NEW k \in DOMAIN s PROVE s[k].off = Covered(SubSeq(s, 1, k - 1))
  BY CoveredBefore DEF Tiled, Ends
<1>. QED BY <1>4, <1>5, <1>6 DEF WholePackage

LEMMA TiledOn ==
    ASSUME NEW s \in Seq(Pieces), Tiled(s), NEW x \in Pieces, s = <<>> => x.off = 0,
           s # <<>> => GoesOn(Last(s), x)
    PROVE  Tiled(s \o <<x>>) /\ s \o <<x>> \in Seq(Pieces) /\ s \o <<x>> # <<>> /\ Last(s \o <<x>>) = x
<1>1. PICK r : r = Append(s, x)  OBVIOUS
<1>2. r = s \o <<x>>  BY <1>1
<1>3. IsAppended(s, x, r) /\ r \in Seq(Pieces)  BY <1>1, Appended, AppendIs
<1>4. PICK n \in Nat : n = Len(s)  BY <1>3 DEF IsAppended
<1>5. /\ DOMAIN r = 1 .. n + 1 /\ DOMAIN s = 1 .. n /\ r[n + 1] = x /\ \A k \in 1 .. n : r[k] = s[k]
      /\ r # <<>> /\ Last(r) = x
  BY <1>3, <1>4 DEF IsAppended
<1>6. s = <<>> <=> n = 0  BY <1>4, EmptySeq
<1>7. n # 0 => Last(s) = s[n]  BY <1>4 DEF Last
<1>8. ASSUME NEW k \in DOMAIN r
      PROVE  /\ r[k].pkg = r[1].pkg
             /\ k = 1 => r[k].off = 0
             /\ k # 1 => r[k].off = Ends(r[k - 1])
  <2>1. CASE k \in 1 .. n
    <3>1. 1 \in 1 .. n /\ (k # 1 => k - 1 \in 1 .. n)  BY <2>1
    <3>. QED BY <1>5, <2>1, <3>1 DEF Tiled
  <2>2. CASE k = n + 1 /\ n = 0  BY <1>5, <1>6, <2>2
  <2>3. CASE k = n + 1 /\ n # 0
    <3>1. 1 \in 1 .. n /\ n \in 1 .. n /\ k - 1 = n /\ k # 1  BY <2>3
    <3>2. r[1] = s[1] /\ r[n] = s[n] /\ r[k] = x  BY <1>5, <2>3, <3>1
    <3>3. s[n].pkg = s[1].pkg  BY <1>5, <3>1 DEF Tiled
    <3>4. GoesOn(s[n], x)  BY <1>6, <1>7, <2>3
    <3>. QED BY <3>1, <3>2, <3>3, <3>4 DEF GoesOn
  <2>. QED BY <1>5, <2>1, <2>2, <2>3
<1>. QED BY <1>2, <1>3, <1>5, <1>8 DEF Tiled

\* The content c goes on with what the state s of the receiving end holds pending.
GoesOnWith(s, c) ==
    s[2] # <<>> /\ c.continueLast /\ c.id = s[1] + 1 => Tiled(s[2]) /\ GoesOn(Last(s[2]), c.data[1])

\* What is taken of the content: its pieces, or all but the first when that goes on
\* with what was lost.
TakenOf(s, c) ==
    /\ Taken(s, c) \in Seq(Pieces)
    /\ \A m \in DOMAIN Taken(s, c) : m # Len(Taken(s, c)) => Ends(Taken(s, c)[m]) = Size[Taken(s, c)[m].pkg]
    /\ \A m \in DOMAIN Taken(s, c) : m # 1 => Taken(s, c)[m].off = 0
    /\ Taken(s, c) # <<>> => /\ Last(Taken(s, c)) = Last(c.data)
                             /\ \/ Taken(s, c)[1].off = 0 /\ Joined(s, c) = <<>>
                                \/ /\ Joined(s, c) # <<>> /\ Tiled(Joined(s, c)) /\ Joined(s, c) = s[2]
                                   /\ GoesOn(Last(Joined(s, c)), Taken(s, c)[1])

LEMMA TakenIs ==
    ASSUME NEW c \in Contents, WellCut(c), NEW s \in Nat \X Seq(Pieces), GoesOnWith(s, c)
    PROVE  TakenOf(s, c)
<1>1. /\ c.data \in Seq(Pieces) /\ c.data # <<>> /\ DOMAIN c.data = 1 .. Len(c.data)
      /\ Len(c.data) \in Nat /\ Len(c.data) # 0
  <2>1. c.data \in Seq(Pieces) /\ c.data # <<>>  BY DEF Contents, WellCut
  <2>. QED BY <2>1, Elements, EmptySeq
<1>2. /\ \A k \in DOMAIN c.data : /\ k # 1 => c.data[k].off = 0
                                  /\ k # Len(c.data) => Ends(c.data[k]) = Size[c.data[k].pkg]
      /\ c.continueLast = (c.data[1].off # 0)
  BY DEF WellCut
<1>3. CASE c.continueLast /\ Joined(s, c) = <<>>
  <2>1. Taken(s, c) = Tail(c.data)  BY <1>3 DEF Taken
  <2>2. PICK n \in Nat : Len(c.data) = n + 1
    <3>1. Len(c.data) = (Len(c.data) - 1) + 1 /\ Len(c.data) - 1 \in Nat  BY <1>1
    <3>. QED BY <3>1
  <2>3. PICK t : t = Tail(c.data)  OBVIOUS
  <2>4. /\ t \in Seq(Pieces) /\ Len(t) = n /\ DOMAIN t = 1 .. n
        /\ \A m \in 1 .. n : t[m] = c.data[m + 1] /\ m + 1 \in DOMAIN c.data /\ m + 1 # 1
    BY <1>1, <2>2, <2>3
  <2>5. \A m \in DOMAIN t : t[m].off = 0 /\ (m # Len(t) => Ends(t[m]) = Size[t[m].pkg])
    BY <1>2, <2>2, <2>4
  <2>6. t # <<>> => Last(t) = Last(c.data) /\ t[1].off = 0
    <3>1. t # <<>> => n # 0 /\ 1 \in DOMAIN t /\ n \in 1 .. n  BY <2>4, EmptySeq
    <3>. QED BY <2>2, <2>4, <2>5, <3>1 DEF Last
  <2>. QED BY <1>3, <2>1, <2>3, <2>4, <2>5, <2>6 DEF TakenOf
<1>4. CASE ~(c.continueLast /\ Joined(s, c) = <<>>)
  <2>1. Taken(s, c) = c.data  BY <1>4 DEF Taken
  <2>2. CASE Joined(s, c) = <<>>
    <3>1. ~c.continueLast  BY <1>4, <2>2
    <3>2. c.data[1].off = 0  BY <1>2, <3>1
    <3>. QED BY <1>1, <1>2, <2>1, <2>2, <3>2 DEF TakenOf
  <2>3. CASE Joined(s, c) # <<>>
    <3>1. c.continueLast /\ c.id = s[1] + 1 /\ Joined(s, c) = s[2]  BY <2>3 DEF Joined
    <3>2. Tiled(s[2]) /\ GoesOn(Last(s[2]), c.data[1])  BY <2>3, <3>1 DEF GoesOnWith
    <3>3. PICK t : t = c.data  OBVIOUS
    <3>4. PICK j : j = Joined(s, c)  OBVIOUS
    <3>5. j # <<>> /\ Tiled(j) /\ j = s[2] /\ GoesOn(Last(j), t[1])  BY <2>3, <3>1, <3>2, <3>3, <3>4
    <3>6. t \in Seq(Pieces) /\ Last(t) = Last(c.data)  BY <1>1, <3>3
    <3>7. /\ \A m \in DOMAIN t : m # Len(t) => Ends(t[m]) = Size[t[m].pkg]
          /\ \A m \in DOMAIN t : m # 1 => t[m].off = 0
      BY <1>2, <3>3
    <3>8. Taken(s, c) = t  BY <2>1, <3>3
    <3>. QED BY ONLY <3>4, <3>5, <3>6, <3>7, <3>8 DEF TakenOf
  <2>. QED BY <2>2, <2>3
<1>. QED BY <1>3, <1>4

\* The m-th parcel is of one package and ends with the m-th piece taken.
IsParcel(s, c, m) ==
    /\ Parcels(s, c)[m] \in Seq(Pieces) /\ Parcels(s, c)[m] # <<>> /\ Tiled(Parcels(s, c)[m])
    /\ Last(Parcels(s, c)[m]) = Taken(s, c)[m] /\ Taken(s, c)[m] \in Pieces

LEMMA SingleTiled ==
    ASSUME NEW x \in Pieces, x.off = 0
    PROVE  Tiled(<<x>>) /\ <<x>> \in Seq(Pieces) /\ <<x>> # <<>> /\ Last(<<x>>) = x
BY DEF Tiled, Last

LEMMA ParcelIs ==
    ASSUME NEW c, NEW s \in Nat \X Seq(Pieces), TakenOf(s, c), NEW m \in DOMAIN Taken(s, c)
    PROVE  IsParcel(s, c, m)
<1>1. PICK x : x = Taken(s, c)[m]  OBVIOUS
<1>2. x \in Pieces /\ Taken(s, c) # <<>>  BY <1>1, Elements DEF TakenOf
<1>3. CASE m # 1
  <2>1. Parcels(s, c)[m] = <<x>>  BY <1>1, <1>3 DEF Parcels
  <2>2. x.off = 0  BY <1>1, <1>3 DEF TakenOf
  <2>. QED BY <1>1, <1>2, <2>1, <2>2, SingleTiled DEF IsParcel
<1>4. CASE m = 1
  <2>1. Parcels(s, c)[m] = Joined(s, c) \o <<x>>  BY <1>1, <1>4 DEF Parcels
  <2>2. PICK j : j = Joined(s, c)  OBVIOUS
  <2>3. CASE j = <<>>
    <3>1. x.off = 0  BY <1>1, <1>2, <1>4, <2>2, <2>3 DEF TakenOf
    <3>2. j \o <<x>> = <<x>>  BY <2>3
    <3>. QED BY <1>1, <1>2, <2>1, <2>2, <3>1, <3>2, SingleTiled DEF IsParcel
  <2>4. CASE j # <<>>
    <3>1. Tiled(j) /\ j = s[2] /\ GoesOn(Last(j), x)  BY <1>1, <1>2, <1>4, <2>2, <2>4 DEF TakenOf
    <3>2. j \in Seq(Pieces)  BY <3>1
    <3>3. Tiled(j \o <<x>>) /\ j \o <<x>> \in Seq(Pieces) /\ j \o <<x>> # <<>> /\ Last(j \o <<x>>) = x
      BY <1>2, <2>4, <3>1, <3>2, TiledOn
    <3>. QED BY <1>1, <1>2, <2>1, <2>2, <3>3 DEF IsParcel
  <2>. QED BY <2>3, <2>4
<1>. QED BY <1>3, <1>4

LEMMA ParcelSeq ==
    ASSUME NEW c, NEW s \in Nat \X Seq(Pieces), TakenOf(s, c)
    PROVE  /\ Parcels(s, c) \in Seq(Seq(Pieces)) /\ DOMAIN Parcels(s, c) = DOMAIN Taken(s, c)
           /\ Len(Parcels(s, c)) = Len(Taken(s, c))
           /\ DOMAIN Taken(s, c) = 1 .. Len(Taken(s, c)) /\ Len(Taken(s, c)) \in Nat
           /\ Taken(s, c) = <<>> <=> Len(Taken(s, c)) = 0
<1>1. PICK t : t = Taken(s, c)  OBVIOUS
<1>2. t \in Seq(Pieces)  BY <1>1 DEF TakenOf
<1>3. DOMAIN t = 1 .. Len(t) /\ Len(t) \in Nat /\ (t = <<>> <=> Len(t) = 0)  BY <1>2, EmptySeq
<1>4. PICK r : r = Parcels(s, c)  OBVIOUS
<1>5. DOMAIN r = DOMAIN t /\ \A m \in DOMAIN t : r[m] \in Seq(Pieces)
  BY <1>1, <1>4, ParcelIs DEF Parcels, IsParcel
<1>6. r = [m \in 1 .. Len(t) |-> r[m]]  BY <1>1, <1>3, <1>4 DEF Parcels
<1>7. r \in [1 .. Len(t) -> Seq(Pieces)]  BY <1>3, <1>5, <1>6
<1>8. r \in Seq(Seq(Pieces))  BY <1>3, <1>7
<1>9. Len(r) = Len(t)  BY <1>3, <1>5, <1>8
<1>. QED BY <1>1, <1>3, <1>4, <1>5, <1>8, <1>9

\* What the receiving end makes of a content that goes on with what it holds.
ReceivesWell(s, c) ==
    /\ \A d \in Hands(s, c) : WholePackage(d) /\ d \in Seq(Pieces) /\ d # <<>>
    /\ After(s, c) \in Nat \X Seq(Pieces) /\ After(s, c)[1] = c.id
    /\ After(s, c)[2] # <<>> => Tiled(After(s, c)[2]) /\ Last(After(s, c)[2]) = Last(c.data)

LEMMA ReceivedIs ==
    ASSUME NEW c \in Contents, WellCut(c), NEW s \in Nat \X Seq(Pieces), GoesOnWith(s, c)
    PROVE  ReceivesWell(s, c)
<1>1. TakenOf(s, c)  BY TakenIs
<1>2. PICK t : t = Taken(s, c)  OBVIOUS
<1>3. PICK r : r = Parcels(s, c)  OBVIOUS
<1>4. PICK n : n = Len(t)  OBVIOUS
<1>5. /\ r \in Seq(Seq(Pieces)) /\ DOMAIN r = 1 .. n /\ Len(r) = n /\ n \in Nat /\ DOMAIN t = 1 .. n
      /\ t = <<>> <=> n = 0
  BY <1>1, <1>2, <1>3, <1>4, ParcelSeq
<1>6. \A m \in 1 .. n : /\ r[m] \in Seq(Pieces) /\ r[m] # <<>> /\ Tiled(r[m]) /\ Last(r[m]) = t[m]
                        /\ t[m] \in Pieces
  BY <1>1, <1>2, <1>3, <1>5, ParcelIs DEF IsParcel
<1>7. \A m \in 1 .. n : Ends(t[m]) = Size[t[m].pkg] => WholePackage(r[m])  BY <1>6, TiledWhole
<1>8. \A m \in 1 .. n : m # n => WholePackage(r[m])  BY <1>1, <1>2, <1>4, <1>5, <1>7 DEF TakenOf
<1>9. n # 0 => Last(r) = r[n] /\ n \in 1 .. n /\ t[n] = Last(c.data)
  <2>1. n # 0 => Last(t) = Last(c.data)  BY <1>1, <1>2, <1>5 DEF TakenOf
  <2>. QED BY <1>4, <1>5, <2>1 DEF Last
<1>10. PICK o : o = StaysOpen(s, c)  OBVIOUS
<1>11. o = (c.continueNext /\ n # 0)  BY <1>2, <1>5, <1>10 DEF StaysOpen
<1>12. PICK f : f = IF o THEN Front(r) ELSE r  OBVIOUS
<1>13. Hands(s, c) = ToSet(f)  BY <1>3, <1>10, <1>12 DEF Hands
<1>14. \A d \in ToSet(f) : WholePackage(d) /\ d \in Seq(Pieces) /\ d # <<>>
  <2>1. CASE o
    <3>1. f = SubSeq(r, 1, n - 1)  BY <1>5, <1>12, <2>1 DEF Front
    <3>4. n # 0  BY <1>11, <2>1
    <3>5. n \in Nat /\ Len(r) = n  BY <1>5
    <3>2. n - 1 \in Nat /\ n - 1 <= Len(r)  BY <3>4, <3>5
    <3>3. DOMAIN f = 1 .. n - 1 /\ \A m \in 1 .. n - 1 : f[m] = r[m] /\ m \in 1 .. n /\ m # n
      BY <1>5, <3>1, <3>2
    <3>. QED BY <1>6, <1>8, <3>3 DEF ToSet
  <2>2. CASE ~o
    <3>1. f = r  BY <1>12, <2>2
    <3>2. n # 0 => WholePackage(r[n])
      <4>1. n # 0 => ~c.continueNext  BY <1>11, <2>2
      <4>2. PICK x : x = Last(c.data)  OBVIOUS
      <4>3. c.data # <<>> /\ c.data \in Seq(Pieces)  BY DEF WellCut, Contents
      <4>4. Len(c.data) \in DOMAIN c.data /\ x = c.data[Len(c.data)] /\ x \in Pieces
        BY <4>2, <4>3, EmptySeq, Elements DEF Last
      <4>5. Ends(x) <= Size[x.pkg] /\ c.continueNext = (Ends(x) < Size[x.pkg])  BY <4>2, <4>4 DEF WellCut
      <4>6. Ends(x) \in Nat /\ Size[x.pkg] \in Nat
        <5>1. x.off \in Nat /\ x.len \in Nat /\ x.pkg \in Packages  BY <4>4 DEF Pieces
        <5>2. Size[x.pkg] \in Nat  BY <5>1, PackagesAssumption
        <5>3. x.off + x.len \in Nat  BY <5>1
        <5>. QED BY <5>2, <5>3 DEF Ends
      <4>8. PICK u \in Nat, v \in Nat : u = Ends(x) /\ v = Size[x.pkg]  BY <4>6
      <4>9. u <= v /\ c.continueNext = (u < v)  BY <4>5, <4>8
      <4>10. ~(u < v) => u = v  BY <4>9
      <4>7. n # 0 => Ends(x) = Size[x.pkg]  BY <4>1, <4>8, <4>9, <4>10
      <4>. QED BY <1>7, <1>9, <4>2, <4>7
    <3>3. \A m \in 1 .. n : WholePackage(r[m])  BY <1>5, <1>8, <3>2
    <3>. QED BY <1>5, <1>6, <3>1, <3>3 DEF ToSet
  <2>. QED BY <2>1, <2>2
<1>15. PICK e : e = IF o THEN Last(r) ELSE <<>>  OBVIOUS
<1>16. After(s, c) = <<c.id, e>>  BY <1>3, <1>10, <1>15 DEF After
<1>17. e \in Seq(Pieces) /\ (e # <<>> => Tiled(e) /\ Last(e) = Last(c.data))
  <2>1. CASE o  BY <1>6, <1>9, <1>11, <1>15, <2>1
  <2>2. CASE ~o  BY <1>15, <2>2
  <2>. QED BY <2>1, <2>2
<1>18. c.id \in Nat  BY DEF Contents
<1>. QED BY <1>13, <1>14, <1>16, <1>17, <1>18 DEF ReceivesWell

--------------------------------------------------------------------------------
(* Encoding is prompt: it begins when an action comes into its window, one      *)
(* action at a time.                                                            *)

\* The action encodeActions waits for.
NextIs(i, next, t) == next # Never => \E a \in DOMAIN i : i[a].time = next + MaxEncodingTime /\ i[a].time > t

Prompt ==
    /\ NextIs(info, nextEncodeTime, lastEncodeTime)
    /\ \A a \in DOMAIN info : info[a].enc # "UNENCODED" => info[a].time <= lastEncodeTime
    /\ \A a \in DOMAIN encoder \union DOMAIN held : a \in DOMAIN info /\ info[a].time <= lastEncodeTime

\* An encoding takes one action, the next.
EncodesOne(a) ==
    /\ a \in DOMAIN info /\ info[a].time > lastEncodeTime /\ lastEncodeTime' = info[a].time
    /\ \A b \in DOMAIN info \ {a} : info[b].time > lastEncodeTime => info[b].time > info[a].time
    /\ a \notin DOMAIN encoder \union DOMAIN held
    /\ encoder' = With(encoder, a, Content(a, IF info[a].link \in Links THEN fragmentCount[info[a].link] ELSE 0))
    /\ fragmentCount' = [l \in Links |-> fragmentCount[l] + IF Carries(info, a, l) THEN 1 ELSE 0]
    /\ info' = [info EXCEPT ![a].enc = "ENCODING"]
    /\ NextIs(info, nextEncodeTime', lastEncodeTime')
    /\ UNCHANGED <<held, wire, last, pending, delivered, spent>>

LEMMA DueIs ==
    ASSUME Spaced, TypeInv, PlanInv, Prompt, EncodeActions
    PROVE  \E a \in DOMAIN info :
               /\ info[a].time = now + MaxEncodingTime /\ info[a].time > lastEncodeTime
               /\ {b \in DOMAIN info : /\ info[b].time >= nextEncodeTime
                                       /\ info[b].time <= now + MaxEncodingTime} = {a}
               /\ \A b \in DOMAIN info \ {a} : info[b].time > lastEncodeTime => info[b].time > info[a].time
<1>1. TypeOK /\ EncodesInTime /\ SpacedOut(info)  BY DEF TypeInv, PlanInv
<1>2. /\ now \in Nat /\ now <= MaxTime /\ MaxTime \in Nat /\ MaxEncodingTime \in Nat \ {0}
      /\ Never = MaxTime + MaxEncodingTime + 1 /\ Times \subseteq Nat
  BY <1>1, NumbersAre
<1>3. nextEncodeTime \in Times /\ lastEncodeTime \in Times /\ \A a \in DOMAIN info : info[a].time \in Times
  <2>1. \A a \in DOMAIN info : info[a] \in ActionInfo  BY <1>1 DEF TypeOK
  <2>. QED BY <1>1, <2>1 DEF TypeOK, ActionInfo
<1>4. nextEncodeTime \in Nat /\ lastEncodeTime \in Nat /\ \A a \in DOMAIN info : info[a].time \in Nat
  BY <1>2, <1>3
<1>5. now >= nextEncodeTime /\ \A a \in DOMAIN info : info[a].time > now  BY Zenon DEF EncodeActions
<1>6. now <= nextEncodeTime  BY <1>1 DEF EncodesInTime
<1>7. nextEncodeTime = now  BY <1>2, <1>4, <1>5, <1>6
<1>8. nextEncodeTime # Never  BY <1>2, <1>7
<1>9. PICK a \in DOMAIN info : info[a].time = now + MaxEncodingTime /\ info[a].time > lastEncodeTime
  BY <1>7, <1>8 DEF Prompt, NextIs
<1>10. \A b \in DOMAIN info :
           info[b].time <= info[a].time /\ b # a => info[b].time + MaxEncodingTime <= info[a].time
  BY <1>1 DEF SpacedOut
<1>11. \A b \in DOMAIN info : info[b].time >= nextEncodeTime /\ info[b].time <= now + MaxEncodingTime <=> b = a
  <2>1. info[a].time >= nextEncodeTime /\ info[a].time <= now + MaxEncodingTime  BY <1>2, <1>4, <1>7, <1>9
  <2>2. ASSUME NEW b \in DOMAIN info, b # a, info[b].time <= now + MaxEncodingTime PROVE FALSE
    <3>1. info[b].time + MaxEncodingTime <= info[a].time  BY <1>9, <1>10, <2>2
    <3>2. info[b].time > now  BY <1>5
    <3>. QED BY <1>2, <1>4, <1>9, <3>1, <3>2
  <2>. QED BY <2>1, <2>2
<1>12. ASSUME NEW b \in DOMAIN info \ {a}, info[b].time > lastEncodeTime PROVE info[b].time > info[a].time
  <2>1. info[b].time >= nextEncodeTime  BY <1>2, <1>4, <1>5, <1>7
  <2>2. ~(info[b].time <= now + MaxEncodingTime)  BY <1>11, <2>1
  <2>. QED BY <1>2, <1>4, <1>9, <2>2
<1>13. {b \in DOMAIN info : info[b].time >= nextEncodeTime /\ info[b].time <= now + MaxEncodingTime} = {a}
  BY <1>11
<1>. QED BY <1>9, <1>12, <1>13

LEMMA EncodeOne ==
    ASSUME Spaced, TypeInv, PlanInv, Prompt, EncodeActions
    PROVE  \E a \in DOMAIN info : EncodesOne(a)
<1> DEFINE due == {a \in DOMAIN info : /\ info[a].time >= nextEncodeTime
                                       /\ info[a].time <= now + MaxEncodingTime}
           laterOnes == {b \in DOMAIN info : /\ info[b].time >= nextEncodeTime
                                             /\ info[b].time > now + MaxEncodingTime}
           later == {info[a].time : a \in laterOnes}
           carrying(l) == {a \in due : info[a].fragments # <<>> /\ info[a].link = l}
           started == {a \in due : info[a].enc = "UNENCODED"}
           number(a) == LET l == info[a].link
                        IN  IF l \notin Links THEN 0
                            ELSE fragmentCount[l] + Cardinality({b \in carrying(l) : Before(info, b, a)})
           dueTimes == {info[a].time : a \in due}
<1>1. /\ info' = [a \in DOMAIN info |-> IF a \in started THEN [info[a] EXCEPT !.enc = "ENCODING"]
                                        ELSE info[a]]
      /\ encoder' = [a \in DOMAIN encoder \union started |->
                         IF a \in started THEN Content(a, number(a)) ELSE encoder[a]]
      /\ fragmentCount' = [l \in Links |-> fragmentCount[l] + Cardinality(carrying(l))]
      /\ lastEncodeTime' = IF due = {} THEN lastEncodeTime ELSE Max(dueTimes)
      /\ nextEncodeTime' = IF later = {} THEN Never ELSE Min(later) - MaxEncodingTime
      /\ UNCHANGED <<now, held, wire, receiveVars, spent>>
  BY Zenon DEF EncodeActions
<1>2. PICK a \in DOMAIN info :
          /\ info[a].time = now + MaxEncodingTime /\ info[a].time > lastEncodeTime
          /\ due = {a}
          /\ \A b \in DOMAIN info \ {a} : info[b].time > lastEncodeTime => info[b].time > info[a].time
  BY DueIs
<1>3. TypeOK /\ info \in [DOMAIN info -> ActionInfo] /\ fragmentCount \in [Links -> Nat]
  BY DEF TypeInv, TypeOK
<1>4. /\ \A b \in DOMAIN info : info[b].time \in Nat
      /\ lastEncodeTime \in Nat /\ now \in Nat /\ MaxEncodingTime \in Nat
  <2>1. Times \subseteq Nat /\ now \in Nat /\ MaxEncodingTime \in Nat  BY <1>3, NumbersAre
  <2>2. lastEncodeTime \in Times /\ \A b \in DOMAIN info : info[b].time \in Times
    BY <1>3 DEF TypeOK, ActionInfo
  <2>. QED BY <2>1, <2>2
<1>5. info[a].enc = "UNENCODED"
  <2>1. info[a].enc # "UNENCODED" => info[a].time <= lastEncodeTime  BY DEF Prompt
  <2>. QED BY <1>2, <1>4, <2>1
<1>6. a \notin DOMAIN encoder \union DOMAIN held
  <2>1. a \in DOMAIN encoder \union DOMAIN held => info[a].time <= lastEncodeTime  BY DEF Prompt
  <2>. QED BY <1>2, <1>4, <2>1
<1>7. started = {a}  BY <1>2, <1>5
<1>8. dueTimes = {info[a].time}  BY <1>2
<1>9. lastEncodeTime' = info[a].time
  <2>1. Max({info[a].time}) = info[a].time  BY <1>4 DEF Max
  <2>2. due # {}  BY <1>2
  <2>. QED BY <1>1, <1>8, <2>1, <2>2
<1>10. ASSUME NEW l \in Links PROVE carrying(l) = IF Carries(info, a, l) THEN {a} ELSE {}
  BY <1>2 DEF Carries
<1>11. \A l \in Links : Cardinality(carrying(l)) = IF Carries(info, a, l) THEN 1 ELSE 0
  <2>1. Cardinality({a}) = 1 /\ Cardinality({}) = 0  BY FS_Singleton, FS_EmptySet
  <2>2. ASSUME NEW l \in Links PROVE Cardinality(carrying(l)) = IF Carries(info, a, l) THEN 1 ELSE 0
    <3>1. PICK S : S = carrying(l)  OBVIOUS
    <3>2. S = IF Carries(info, a, l) THEN {a} ELSE {}  BY <1>10, <3>1
    <3>. QED BY <2>1, <3>1, <3>2
  <2>. QED BY <2>2
<1>12. number(a) = IF info[a].link \in Links THEN fragmentCount[info[a].link] ELSE 0
  <2>1. ~Before(info, a, a)
    <3>1. a \in Nat  BY <1>3, PackagesAssumption DEF TypeOK
    <3>. QED BY <1>4, <3>1 DEF Before
  <2>2. ASSUME info[a].link \in Links
        PROVE  {b \in carrying(info[a].link) : Before(info, b, a)} = {}
    <3>1. carrying(info[a].link) \subseteq {a}  BY <1>2
    <3>2. \A b \in carrying(info[a].link) : b = a  BY <3>1
    <3>. QED BY <2>1, <3>2
  <2>3. Cardinality({}) = 0  BY FS_EmptySet
  <2>4. info[a].link \in Links => fragmentCount[info[a].link] \in Nat  BY <1>3
  <2>5. info[a].link \in Links =>
            number(a) = fragmentCount[info[a].link]
                          + Cardinality({b \in carrying(info[a].link) : Before(info, b, a)})
    OBVIOUS
  <2>6. info[a].link \notin Links => number(a) = 0  OBVIOUS
  <2> HIDE DEF carrying, number
  <2>7. CASE info[a].link \in Links
    <3>1. number(a) = fragmentCount[info[a].link] + 0  BY <2>2, <2>3, <2>5, <2>7
    <3>2. \A n \in Nat : n + 0 = n  OBVIOUS
    <3>. QED BY <2>4, <2>7, <3>1, <3>2
  <2>8. CASE info[a].link \notin Links  BY <2>6, <2>8
  <2>. QED BY <2>7, <2>8
<1>13. NextIs(info, nextEncodeTime', lastEncodeTime')
  <2>1. CASE later = {}  BY <1>1, <2>1 DEF NextIs
  <2>2. CASE later # {}
    <3>1. later \subseteq Nat  BY <1>4
    <3>2. \A t \in later : t > now + MaxEncodingTime /\ \E b \in DOMAIN info : info[b].time = t
      OBVIOUS
    <3>3. nextEncodeTime' = Min(later) - MaxEncodingTime  BY <1>1, <2>2
    <3> HIDE DEF later
    <3>4. PICK m \in Nat : m = Min(later) /\ m \in later  BY <2>2, <3>1, MinMax
    <3>5. m > now + MaxEncodingTime /\ \E b \in DOMAIN info : info[b].time = m  BY <3>2, <3>4
    <3>6. m = nextEncodeTime' + MaxEncodingTime  BY <1>4, <3>3, <3>4
    <3>. QED BY <1>2, <1>9, <3>5, <3>6 DEF NextIs
  <2>. QED BY <2>1, <2>2
<1>14. encoder' = With(encoder, a, Content(a, IF info[a].link \in Links THEN fragmentCount[info[a].link] ELSE 0))
  <2>1. PICK c : c = Content(a, number(a))  OBVIOUS
  <2>2. encoder' = [b \in DOMAIN encoder \union {a} |-> IF b = a THEN c ELSE encoder[b]]
    <3>1. \A b \in started : Content(b, number(b)) = c  BY <1>7, <2>1
    <3> HIDE DEF started, number
    <3>2. encoder' = [b \in DOMAIN encoder \union started |-> IF b \in started THEN c ELSE encoder[b]]
      BY <1>1, <3>1
    <3>. QED BY <1>7, <3>2
  <2>3. c = Content(a, IF info[a].link \in Links THEN fragmentCount[info[a].link] ELSE 0)
    <3> HIDE DEF number
    <3>. QED BY <1>12, <2>1
  <2>. QED BY <2>2, <2>3 DEF With
<1>15. fragmentCount' = [l \in Links |-> fragmentCount[l] + IF Carries(info, a, l) THEN 1 ELSE 0]
  <2> HIDE DEF carrying
  <2>. QED BY <1>1, <1>11
<1>16. info' = [info EXCEPT ![a].enc = "ENCODING"]
  <2>1. info' = [b \in DOMAIN info |-> IF b \in {a} THEN [info[b] EXCEPT !.enc = "ENCODING"] ELSE info[b]]
    <3> HIDE DEF started
    <3>. QED BY <1>1, <1>7
  <2>2. info' = [b \in DOMAIN info |-> IF b = a THEN [info[a] EXCEPT !.enc = "ENCODING"] ELSE info[b]]  BY <2>1
  <2>. QED BY <1>3, <2>2
<1>17. EncodesOne(a)
  <2>1. UNCHANGED <<held, wire, last, pending, delivered, spent>>  BY <1>1 DEF receiveVars
  <2>. QED BY <1>2, <1>6, <1>9, <1>13, <1>14, <1>15, <1>16, <2>1 DEF EncodesOne
<1>. QED BY <1>17

LEMMA PromptFrom ==
    ASSUME Prompt, lastEncodeTime' = lastEncodeTime, NextIs(info', nextEncodeTime', lastEncodeTime),
           \A a \in DOMAIN info' : info'[a].enc # "UNENCODED"
               => /\ a \in DOMAIN info /\ info'[a].time = info[a].time
                  /\ info[a].enc # "UNENCODED" \/ a \in DOMAIN encoder,
           \A a \in DOMAIN encoder' \union DOMAIN held' :
               /\ a \in DOMAIN encoder \union DOMAIN held
               /\ a \in DOMAIN info' /\ info'[a].time = info[a].time
    PROVE  Prompt'
<1>1. NextIs(info, nextEncodeTime, lastEncodeTime)'  BY DEF NextIs
<1>2. ASSUME NEW a \in DOMAIN info', info'[a].enc # "UNENCODED" PROVE info'[a].time <= lastEncodeTime
  BY <1>2 DEF Prompt
<1>3. ASSUME NEW a \in DOMAIN encoder' \union DOMAIN held'
      PROVE  a \in DOMAIN info' /\ info'[a].time <= lastEncodeTime
  BY <1>3 DEF Prompt
<1>. QED BY <1>1, <1>2, <1>3 DEF Prompt

\* The next is there in a timeline with the same times.
LEMMA NextThere ==
    ASSUME NEW i, NEW next, NEW t, NextIs(i, next, t), NEW j,
           \A a \in DOMAIN i : next # Never /\ i[a].time = next + MaxEncodingTime
               => a \in DOMAIN j /\ j[a].time = i[a].time
    PROVE  NextIs(j, next, t)
BY DEF NextIs

LEMMA NextUpdated ==
    ASSUME TypeOK, NEW D, D \subseteq Actions, NEW i \in [D -> ActionInfo], NEW next, next = updateEncodeTimestamp(i)
    PROVE  NextIs(i, next, lastEncodeTime)
<1> DEFINE later == {i[a].time : a \in DOMAIN i} \ 0 .. lastEncodeTime
<1>1. next = IF later = {} THEN Never ELSE Min(later) - MaxEncodingTime  BY DEF updateEncodeTimestamp
<1>2. Times \subseteq Nat /\ MaxEncodingTime \in Nat  BY NumbersAre
<1>3. lastEncodeTime \in Times /\ \A a \in D : i[a].time \in Times  BY DEF TypeOK, ActionInfo
<1>4. lastEncodeTime \in Nat /\ \A a \in D : i[a].time \in Nat  BY <1>2, <1>3
<1>5. later \subseteq Nat /\ \A t \in later : t > lastEncodeTime /\ \E a \in D : i[a].time = t  BY <1>4
<1> HIDE DEF later
<1>6. CASE later = {}  BY <1>1, <1>6 DEF NextIs
<1>7. CASE later # {}
  <2>1. PICK m \in Nat : m = Min(later) /\ m \in later  BY <1>5, <1>7, MinMax
  <2>2. m > lastEncodeTime /\ \E a \in D : i[a].time = m  BY <1>5, <2>1
  <2>3. m = next + MaxEncodingTime  BY <1>1, <1>2, <1>7, <2>1
  <2>. QED BY <2>2, <2>3 DEF NextIs
<1>. QED BY <1>6, <1>7

LEMMA PromptSame ==
    ASSUME Prompt, UNCHANGED <<info, nextEncodeTime, lastEncodeTime, encoder, held>>
    PROVE  Prompt'
<1>1. NextIs(info', nextEncodeTime', lastEncodeTime)  BY DEF Prompt
<1>. QED BY <1>1, PromptFrom DEF Prompt

\* A new timeline has what is in hand.
LEMMA PromptPlanned ==
    ASSUME TypeOK, PlanInv, Prompt, NEW D, D \subseteq Actions, NEW i \in [D -> ActionInfo], NEW r \in SameTimes(D, i),
           info' = r.info, UNCHANGED <<lastEncodeTime, encoder, held>>,
           \A a \in DOMAIN info : info[a].time <= now + MaxEncodingTime => a \in D,
           \A a \in D : IF a \in DOMAIN info THEN i[a].time = info[a].time /\ (i[a].enc = info[a].enc \/ i[a].enc = "UNENCODED")
                        ELSE i[a].enc = "UNENCODED",
           NextIs(i, nextEncodeTime', lastEncodeTime)
    PROVE  Prompt'
<1>1. DOMAIN info' = D /\ \A a \in D : info'[a].time = i[a].time /\ info'[a].enc = i[a].enc
  BY DEF SameTimes, GoodPlans, PlansOf
<1>2. NextIs(info', nextEncodeTime', lastEncodeTime)
  <2>1. DOMAIN i = D  OBVIOUS
  <2>. QED BY <1>1, <2>1, NextThere
<1>3. ASSUME NEW a \in DOMAIN info, info[a].time <= lastEncodeTime PROVE a \in D
  <2>1. lastEncodeTime <= now + MaxEncodingTime  BY DEF PlanInv, EncodesInTime
  <2>2. now + MaxEncodingTime \in Times /\ Times \subseteq Nat  BY NumbersAre
  <2>3. lastEncodeTime \in Times /\ info[a].time \in Times  BY DEF TypeOK, ActionInfo
  <2>4. info[a].time <= now + MaxEncodingTime
    <3>1. now + MaxEncodingTime \in Nat /\ lastEncodeTime \in Nat /\ info[a].time \in Nat  BY <2>2, <2>3
    <3>. QED BY <1>3, <2>1, <3>1
  <2>. QED BY <2>4
<1>4. \A a \in DOMAIN info' : info'[a].enc # "UNENCODED"
          => a \in DOMAIN info /\ info'[a].time = info[a].time /\ info[a].enc # "UNENCODED"
  BY <1>1
<1>5. \A a \in DOMAIN encoder \union DOMAIN held : a \in D /\ info'[a].time = info[a].time
  BY <1>1, <1>3 DEF Prompt
<1>. QED BY <1>1, <1>2, <1>4, <1>5, PromptFrom

LEMMA PromptFetch ==
    ASSUME TypeInv, PlanInv, Prompt, FetchTimeline
    PROVE  Prompt'
<1>1. PICK D \in SUBSET Actions : \E i \in [D -> ActionInfo] :
          /\ \A a \in DOMAIN info : info[a].time <= now + MaxEncodingTime => a \in D
          /\ \A a \in D : /\ a \in DOMAIN info => i[a] = info[a]
                          /\ a \notin DOMAIN info => i[a].enc = "UNENCODED"
          /\ info' = Replan(i).info
          /\ nextEncodeTime' = updateEncodeTimestamp(i)
          /\ UNCHANGED <<lastEncodeTime, encoder, held>>
  BY FetchIs
<1>2. PICK i \in [D -> ActionInfo] :
          /\ \A a \in DOMAIN info : info[a].time <= now + MaxEncodingTime => a \in D
          /\ \A a \in D : /\ a \in DOMAIN info => i[a] = info[a]
                          /\ a \notin DOMAIN info => i[a].enc = "UNENCODED"
          /\ info' = Replan(i).info
          /\ nextEncodeTime' = updateEncodeTimestamp(i)
          /\ UNCHANGED <<lastEncodeTime, encoder, held>>
  BY <1>1
<1>3. TypeOK /\ Whole(parts) /\ D \subseteq Actions  BY DEF TypeInv
<1>4. Replan(i) \in SameTimes(D, i)  BY <1>3, ReplanIs
<1>5. NextIs(i, nextEncodeTime', lastEncodeTime)  BY <1>2, <1>3, NextUpdated
<1>. QED BY <1>2, <1>3, <1>4, <1>5, PromptPlanned

LEMMA PromptSend ==
    ASSUME TypeInv, PlanInv, Prompt, NEW p \in Packages, NEW r \in Reactive \union {NoAction}, SendPackage(p, r)
    PROVE  Prompt'
<1>1. PICK i : i = SendTimeline(r)  OBVIOUS
<1>2. PICK D : D = DOMAIN i  OBVIOUS
<1>3. /\ r \in {NoAction} \union (Reactive \ (DOMAIN info \union DOMAIN held))
      /\ info' = SendPlan(p, r).info
      /\ nextEncodeTime' = IF r # NoAction THEN updateEncodeTimestamp(i) ELSE nextEncodeTime
      /\ UNCHANGED <<lastEncodeTime, encoder, held>>
  BY <1>1, SendIs
<1>4. D \subseteq Actions /\ i \in [D -> ActionInfo] /\ SendPlan(p, r) \in SameTimes(D, i)
  BY <1>1, <1>2, <1>3, SendTimelineIs
<1>5. TypeOK  BY DEF TypeInv
<1>6. /\ r = NoAction => i = info
      /\ r # NoAction => /\ D = DOMAIN info \union {r} /\ i[r].enc = "UNENCODED"
                         /\ \A a \in DOMAIN info : i[a] = info[a]
  <2>1. r = NoAction => i = info  BY <1>1 DEF SendTimeline
  <2>2. ASSUME r # NoAction
        PROVE  D = DOMAIN info \union {r} /\ i[r].enc = "UNENCODED" /\ \A a \in DOMAIN info : i[a] = info[a]
    <3>1. r \in Reactive /\ r \notin DOMAIN info /\ r \in Actions  BY <1>3, <2>2 DEF Actions
    <3>2. DOMAIN i = DOMAIN info \union {r} /\ \A a \in DOMAIN info : i[a] = info[a]
      BY <1>1, <1>5, <2>2, <3>1, SendExtends
    <3>3. PICK c : c = createActionInfo(r, now + MaxEncodingTime)  OBVIOUS
    <3>4. i = With(info, r, c)  BY <1>1, <2>2, <3>3 DEF SendTimeline
    <3>5. i[r] = c  BY <3>4 DEF With
    <3>6. c.enc = "UNENCODED"  BY <1>5, <3>1, <3>3, CreatedIs, NumbersAre
    <3>. QED BY <1>2, <3>2, <3>5, <3>6
  <2>. QED BY <2>1, <2>2
<1>7. NextIs(i, nextEncodeTime', lastEncodeTime)
  <2>1. CASE r = NoAction
    <3>1. nextEncodeTime' = nextEncodeTime /\ i = info  BY <1>3, <1>6, <2>1
    <3>. QED BY <3>1 DEF Prompt
  <2>2. CASE r # NoAction  BY <1>3, <1>4, <1>5, <2>2, NextUpdated
  <2>. QED BY <2>1, <2>2
<1>8. \A a \in DOMAIN info : a \in D /\ i[a] = info[a]  BY <1>2, <1>6
<1>9. \A a \in D : a \notin DOMAIN info => i[a].enc = "UNENCODED"  BY <1>2, <1>6
<1>10. \A a \in D : IF a \in DOMAIN info THEN i[a].time = info[a].time /\ (i[a].enc = info[a].enc \/ i[a].enc = "UNENCODED")
                    ELSE i[a].enc = "UNENCODED"
  BY <1>8, <1>9
<1>. QED BY <1>3, <1>4, <1>5, <1>7, <1>8, <1>10, PromptPlanned

\* A report leaves the actions of the timeline and how far they are encoded.
LEMMA StatusTimes ==
    ASSUME TypeInv, OnPackageStatusChanged
    PROVE  DOMAIN info' = DOMAIN info /\ \A a \in DOMAIN info : /\ info'[a].time = info[a].time
                                                                /\ info'[a].enc = info[a].enc
<1>1. TypeOK /\ QueuesSorted /\ reports # <<>>  BY StatusIs DEF TypeInv
<1>2. PICK D : D = DOMAIN info  OBVIOUS
<1>3. D \subseteq Actions /\ info \in [D -> ActionInfo]  BY <1>1, <1>2 DEF TypeOK
<1>4. CASE info' = info  BY <1>4
<1>5. ASSUME NEW p \in Packages, NEW freed, packageQueue' = Dequeued(p),
             IF freed = {} THEN info' = Rest(p, freed).info ELSE info' = Replanned(p, freed).info
      PROVE  DOMAIN info' = D /\ \A a \in D : info'[a].time = info[a].time /\ info'[a].enc = info[a].enc
  <2>1. PICK R : R = Rest(p, freed)  OBVIOUS
  <2>2. PICK marked : marked = UNION {HandlesOf(info[a].fragments) : a \in freed}  OBVIOUS
  <2>3. PICK queues : queues = Dequeued(p)  OBVIOUS
  <2>4. R \in SameTimes(D, info)  BY <1>2, <2>1, RestIs
  <2>5. R \in GoodPlans(D) /\ DOMAIN R.info = D
        /\ \A a \in D : R.info[a].time = info[a].time /\ R.info[a].enc = info[a].enc
    BY <2>4, PlanParts
  <2>6. CASE freed = {}  BY <1>5, <2>1, <2>5, <2>6
  <2>7. CASE freed # {}
    <3>1. queues \in [Links -> Seq(Packages)]
      <4>1. packageQueue \in [Links -> Seq(Packages)] /\ Route[p] \in Links
        BY <1>1, PackagesAssumption DEF TypeOK
      <4>2. RemoveFirst(packageQueue[Route[p]], p) \in Seq(Packages)  BY <4>1, RemoveFirstIs
      <4>. QED BY <2>3, <4>1, <4>2 DEF Dequeued
    <3>2. actionQueue \in [Links -> Seq(D)]  BY <1>1, <1>2 DEF TypeOK, QueuesSorted
    <3>3. reports \in Seq(Handles \X Statuses)  BY <1>1 DEF TypeOK
    <3>4. info' = generateFragmentsForAllPackages(R, marked, actionQueue, queues).info
      BY <1>5, <2>1, <2>2, <2>3, <2>7 DEF Replanned
    <3>5. generateFragmentsForAllPackages(R, marked, actionQueue, queues) \in SameTimes(D, R.info)
      BY <1>3, <2>5, <3>1, <3>2, <3>3, AllPlanned
    <3>6. DOMAIN info' = D /\ \A a \in D : info'[a].time = R.info[a].time /\ info'[a].enc = R.info[a].enc
      BY <3>4, <3>5, PlanParts
    <3>. QED BY <2>5, <3>6
  <2>. QED BY <2>6, <2>7
<1>6. \/ info' = info
      \/ \E p \in Packages :
            LET freed == Freed(Updated(p)) IN
            /\ packageQueue' = Dequeued(p)
            /\ IF freed = {} THEN info' = Rest(p, freed).info ELSE info' = Replanned(p, freed).info
  BY StatusIs
<1>. QED BY <1>2, <1>4, <1>5, <1>6

LEMMA PromptStatus ==
    ASSUME TypeInv, Prompt, OnPackageStatusChanged
    PROVE  Prompt'
<1>1. UNCHANGED <<nextEncodeTime, lastEncodeTime, encoder, held>>  BY StatusIs
<1>2. DOMAIN info' = DOMAIN info /\ \A a \in DOMAIN info : info'[a].time = info[a].time /\ info'[a].enc = info[a].enc
  BY StatusTimes
<1>3. NextIs(info', nextEncodeTime', lastEncodeTime)
  <2>1. NextIs(info, nextEncodeTime', lastEncodeTime)  BY <1>1 DEF Prompt
  <2>. QED BY <1>2, <2>1, NextThere
<1>4. \A a \in DOMAIN encoder \union DOMAIN held : a \in DOMAIN info  BY DEF Prompt
<1>. QED BY <1>1, <1>2, <1>3, <1>4, PromptFrom

LEMMA PromptDestroyed ==
    ASSUME TypeInv, Prompt, NEW l \in Links, OnLinkDestroyed(l)
    PROVE  Prompt'
<1> DEFINE hit == ToSet(actionQueue[l])
<1>1. /\ encoder' = Without(encoder, hit)
      /\ info' = [a \in DOMAIN info |-> IF a \in hit
                    THEN [info[a] EXCEPT !.enc = "UNENCODED", !.fragments = <<>>] ELSE info[a]]
      /\ UNCHANGED <<nextEncodeTime, lastEncodeTime, held>>
  BY DEF OnLinkDestroyed
<1>2. info \in [DOMAIN info -> ActionInfo]  BY DEF TypeInv, TypeOK
<1> HIDE DEF hit
<1>3. \A a \in DOMAIN info :
          LET i == [info[a] EXCEPT !.enc = "UNENCODED", !.fragments = <<>>]
          IN  i.time = info[a].time /\ i.enc = "UNENCODED"
  BY <1>2 DEF ActionInfo
<1>4. DOMAIN info' = DOMAIN info /\ \A a \in DOMAIN info : /\ info'[a].time = info[a].time
                                                           /\ info'[a].enc \in {info[a].enc, "UNENCODED"}
  BY <1>1, <1>3
<1>5. DOMAIN encoder' \subseteq DOMAIN encoder  BY <1>1 DEF Without
<1>6. NextIs(info', nextEncodeTime', lastEncodeTime)
  <2>1. NextIs(info, nextEncodeTime', lastEncodeTime)  BY <1>1 DEF Prompt
  <2>. QED BY <1>4, <2>1, NextThere
<1>7. \A a \in DOMAIN encoder' \union DOMAIN held' : a \in DOMAIN encoder \union DOMAIN held /\ a \in DOMAIN info
  BY <1>1, <1>5 DEF Prompt
<1>. QED BY <1>1, <1>4, <1>6, <1>7, PromptFrom

LEMMA PromptEncoded ==
    ASSUME TypeInv, EncodedInTime, Prompt, NEW a \in Actions, OnBytesEncoded(a)
    PROVE  Prompt'
<1>1. /\ a \in DOMAIN encoder /\ encoder' = Without(encoder, {a})
      /\ \/ held' = With(held, a, encoder[a]) /\ info' = [info EXCEPT ![a].enc = "ENQUEUED"]
         \/ held' = held /\ info' = info
      /\ UNCHANGED <<nextEncodeTime, lastEncodeTime>>
  BY DEF OnBytesEncoded
<1>2. FurtherOn  BY EncodedFurther
<1>3. DOMAIN info' = DOMAIN info /\ \A b \in DOMAIN info : info'[b].time = info[b].time
  BY <1>2 DEF FurtherOn, SameLoads
<1>4. NextIs(info', nextEncodeTime', lastEncodeTime)
  <2>1. NextIs(info, nextEncodeTime', lastEncodeTime)  BY <1>1 DEF Prompt
  <2>. QED BY <1>3, <2>1, NextThere
<1>5. DOMAIN encoder' \union DOMAIN held' \subseteq DOMAIN encoder \union DOMAIN held
  BY <1>1 DEF With, Without
<1>6. \A b \in DOMAIN info : b # a => info'[b] = info[b]
  <2>1. info \in [DOMAIN info -> ActionInfo]  BY DEF TypeInv, TypeOK
  <2>. QED BY <1>1, <2>1
<1>7. \A b \in DOMAIN encoder \union DOMAIN held : b \in DOMAIN info  BY DEF Prompt
<1>8. \A b \in DOMAIN info' : info'[b].enc # "UNENCODED" => info[b].enc # "UNENCODED" \/ b \in DOMAIN encoder
  BY <1>1, <1>3, <1>6
<1>. QED BY <1>1, <1>3, <1>4, <1>5, <1>7, <1>8, PromptFrom

LEMMA PromptDo ==
    ASSUME Spaced, TypeInv, PlanInv, Prompt, DoAction
    PROVE  Prompt'
<1>1. PICK a : a = FirstAction  OBVIOUS
<1>2. /\ a \in DOMAIN info /\ DOMAIN info' = DOMAIN info \ {a} /\ \A b \in DOMAIN info' : info'[b] = info[b]
  BY <1>1, DoLess
<1>3. /\ now >= info[a].time /\ held' = Without(held, {a}) /\ encoder' = Without(encoder, {a})
      /\ UNCHANGED <<nextEncodeTime, lastEncodeTime>>
  BY <1>1, DoIs
<1>4. NextIs(info', nextEncodeTime', lastEncodeTime)
  <2>1. NextIs(info, nextEncodeTime', lastEncodeTime)  BY <1>3 DEF Prompt
  <2>2. info[a].time # nextEncodeTime' + MaxEncodingTime
    <3>1. now <= nextEncodeTime /\ TypeOK  BY DEF TypeInv, PlanInv, EncodesInTime
    <3>2. now \in Nat /\ MaxEncodingTime \in Nat \ {0} /\ Times \subseteq Nat  BY <3>1, NumbersAre
    <3>3. nextEncodeTime \in Times /\ info[a].time \in Times  BY <1>2, <3>1 DEF TypeOK, ActionInfo
    <3>4. nextEncodeTime \in Nat /\ info[a].time \in Nat  BY <3>2, <3>3
    <3>. QED BY <1>3, <3>1, <3>2, <3>4
  <2>. QED BY <1>2, <2>1, <2>2, NextThere
<1>5. \A b \in DOMAIN encoder' \union DOMAIN held' : b # a /\ b \in DOMAIN encoder \union DOMAIN held
  BY <1>3 DEF Without
<1>6. \A b \in DOMAIN encoder \union DOMAIN held : b \in DOMAIN info  BY DEF Prompt
<1>. QED BY <1>2, <1>3, <1>4, <1>5, <1>6, PromptFrom

LEMMA PromptEncode ==
    ASSUME Spaced, TypeInv, PlanInv, Prompt, EncodeActions
    PROVE  Prompt'
<1>1. PICK a \in DOMAIN info : EncodesOne(a)  BY EncodeOne
<1>2. /\ info[a].time > lastEncodeTime /\ lastEncodeTime' = info[a].time
      /\ DOMAIN encoder' = DOMAIN encoder \union {a} /\ held' = held
      /\ NextIs(info, nextEncodeTime', lastEncodeTime')
  BY <1>1 DEF EncodesOne, With
<1>3. info \in [DOMAIN info -> ActionInfo] /\ TypeOK  BY DEF TypeInv, TypeOK
<1>4. /\ DOMAIN info' = DOMAIN info
      /\ \A b \in DOMAIN info : info'[b].time = info[b].time /\ (b # a => info'[b].enc = info[b].enc)
  <2>1. info' = [info EXCEPT ![a].enc = "ENCODING"]  BY <1>1 DEF EncodesOne
  <2>. QED BY <1>3, <2>1 DEF ActionInfo
<1>5. lastEncodeTime \in Nat /\ \A b \in DOMAIN info : info[b].time \in Nat
  <2>1. Times \subseteq Nat  BY <1>3, NumbersAre
  <2>2. lastEncodeTime \in Times /\ \A b \in DOMAIN info : info[b].time \in Times
    BY <1>3 DEF TypeOK, ActionInfo
  <2>. QED BY <2>1, <2>2
<1>6. NextIs(info', nextEncodeTime', lastEncodeTime')
  <2>1. PICK t : t = lastEncodeTime'  OBVIOUS
  <2>2. PICK n : n = nextEncodeTime'  OBVIOUS
  <2>3. NextIs(info, n, t)  BY <1>2, <2>1, <2>2
  <2>4. NextIs(info', n, t)  BY <1>4, <2>3, NextThere
  <2>. QED BY <2>1, <2>2, <2>4
<1>7. NextIs(info, nextEncodeTime, lastEncodeTime)'  BY <1>6 DEF NextIs
<1>8. \A b \in DOMAIN info : info[b].time <= lastEncodeTime \/ b = a => info'[b].time <= lastEncodeTime'
  BY <1>2, <1>4, <1>5
<1>9. \A b \in DOMAIN info' : info'[b].enc # "UNENCODED" => info'[b].time <= lastEncodeTime'
  BY <1>4, <1>8 DEF Prompt
<1>10. \A b \in DOMAIN encoder' \union DOMAIN held' : b \in DOMAIN info' /\ info'[b].time <= lastEncodeTime'
  BY <1>2, <1>4, <1>8 DEF Prompt
<1>. QED BY <1>7, <1>9, <1>10 DEF Prompt

LEMMA PromptInit == Init => Prompt
<1> SUFFICES ASSUME Init PROVE Prompt  OBVIOUS
<1>1. nextEncodeTime = Never /\ DOMAIN info = {} /\ DOMAIN encoder = {} /\ DOMAIN held = {}  BY DEF Init
<1>. QED BY <1>1 DEF Prompt, NextIs

LEMMA PromptKept ==
    ASSUME Spaced, TypeInv, BlockInv, PlanInv, Prompt, [Next]_vars
    PROVE  Prompt'
<1>1. CASE Tick \/ UNCHANGED vars \/ \E l \in Links : OnLinkCreated(l) \/ Receive(l) \/ Fault(l)
  <2>1. UNCHANGED <<actionVars, packageVars, held>>
    BY <1>1, Zenon DEF Tick, vars, OnLinkCreated, Receive, Fault
  <2>. QED BY <2>1, PromptSame DEF actionVars, packageVars
<1>2. CASE FetchTimeline  BY <1>2, PromptFetch
<1>3. CASE EncodeActions  BY <1>3, PromptEncode
<1>4. CASE DoAction  BY <1>4, PromptDo
<1>5. CASE OnPackageStatusChanged  BY <1>5, PromptStatus
<1>6. CASE \E p \in Packages, r \in Reactive \union {NoAction} : SendPackage(p, r)  BY <1>6, PromptSend
<1>7. CASE \E a \in Actions : OnBytesEncoded(a)  BY <1>7, PromptEncoded DEF BlockInv
<1>8. CASE \E l \in Links : OnLinkDestroyed(l)  BY <1>8, PromptDestroyed
<1>. QED BY <1>1, <1>2, <1>3, <1>4, <1>5, <1>6, <1>7, <1>8 DEF Next

\* The plan of the managers as it is.
LEMMA PlanNow ==
    ASSUME TypeInv
    PROVE  /\ Plan \in GoodPlans(DOMAIN info) /\ Plan.info = info /\ Plan.parts = parts
           /\ info \in [DOMAIN info -> ActionInfo] /\ parts \in [Packages -> Seq(Fragments)]
           /\ \A p \in Packages : DOMAIN parts[p] = 1 .. Len(parts[p]) /\ Len(parts[p]) \in Nat
           /\ \A p \in Packages : \A k \in DOMAIN parts[p] :
                  /\ parts[p][k] \in Fragments /\ parts[p][k].off \in Nat /\ parts[p][k].len \in Nat
                  /\ k \in Nat \ {0}
           /\ \A a \in DOMAIN info : info[a].time \in Nat
           /\ lastEncodeTime \in Nat /\ now \in Nat
<1>1. TypeOK /\ Whole(parts)  BY DEF TypeInv
<1>2. info \in [DOMAIN info -> ActionInfo] /\ parts \in [Packages -> Seq(Fragments)]  BY <1>1 DEF TypeOK
<1>3. Plan = [info |-> info, parts |-> parts, full |-> {}]  BY DEF Plan
<1>4. Plan \in GoodPlans(DOMAIN info) /\ Plan.info = info /\ Plan.parts = parts
  BY <1>1, <1>2, <1>3 DEF GoodPlans, PlansOf
<1>5. \A p \in Packages : /\ DOMAIN parts[p] = 1 .. Len(parts[p]) /\ Len(parts[p]) \in Nat
                          /\ \A k \in DOMAIN parts[p] : parts[p][k] \in Fragments /\ k \in Nat \ {0}
  BY <1>2, Elements
<1>6. \A f \in Fragments : f.off \in Nat /\ f.len \in Nat  BY DEF Fragments
<1>7. Times \subseteq Nat /\ now \in Nat  BY <1>1, NumbersAre
<1>8. lastEncodeTime \in Times /\ \A a \in DOMAIN info : info[a].time \in Times
  BY <1>1, <1>2 DEF TypeOK, ActionInfo
<1>. QED BY <1>2, <1>4, <1>5, <1>6, <1>7, <1>8

\* A package that does not end with its k-th fragment is not in full there.
LEMMA GoesFurther ==
    ASSUME TypeInv, PlanInv, NEW q \in Packages, NEW k \in DOMAIN parts[q],
           parts[q][k].off + parts[q][k].len # Size[q], InFull(parts, q)
    PROVE  k + 1 \in DOMAIN parts[q]
<1>1. PICK e : e = Plan  OBVIOUS
<1>2. e \in GoodPlans(DOMAIN info) /\ e.parts = parts  BY <1>1, PlanNow
<1>3. Tiles(e.parts)  BY <1>2 DEF PlanInv, SoundPlan
<1>4. Planned(e, q)  BY <1>2 DEF Planned, InFull
<1>5. k # Len(parts[q])
  <2>1. k \in DOMAIN e.parts[q]  BY <1>2
  <2>2. e.parts[q][k].off + e.parts[q][k].len = Size[q] <=> Planned(e, q) /\ k = Len(e.parts[q])
    BY <1>2, <1>3, <2>1, EndIs
  <2>. QED BY <1>2, <1>4, <2>2
<1>6. DOMAIN parts[q] = 1 .. Len(parts[q]) /\ Len(parts[q]) \in Nat  BY PlanNow
<1>. QED BY <1>5, <1>6

\* What an action carries goes on where the stream of its link stands: no package is
\* open whose rest is to come later.
LEMMA FrontGoesOn ==
    ASSUME TypeInv, ReportInv, PlanInv, TurnInv, NEW a \in DOMAIN info, NEW l \in Links, Carries(info, a, l),
           NEW q \in Packages, Route[q] = l, NEW k \in DOMAIN parts[q],
           parts[q][k].off + parts[q][k].len # Size[q],
           parts[q][k].action # NoAction => info[parts[q][k].action].time < info[a].time,
           k + 1 \in DOMAIN parts[q] => /\ parts[q][k + 1].action # NoAction
                                        /\ info[parts[q][k + 1].action].time > info[a].time
    PROVE  FALSE
<1>1. /\ info \in [DOMAIN info -> ActionInfo] /\ TypeOK
      /\ SoundPlan(info, parts, actionQueue, ToldHandles, lastEncodeTime)
      /\ InTimeOrder(info, parts) /\ SamePieces(info, parts)
      /\ InQueueOrder(info, parts, packageQueue)
  BY PlanNow DEF TypeInv, PlanInv, SoundPlan, TurnInv, InTurnPlan
<1>2. info[a].fragments \in Seq(Pointers) /\ info[a].fragments # <<>> /\ info[a].link = l
  BY <1>1 DEF Carries, ActionInfo
<1>3. 1 \in DOMAIN info[a].fragments  BY <1>2
<1>4. PICK x : x = info[a].fragments[1]  OBVIOUS
<1>5. LeadsBack(info, parts, a, x)  BY <1>1, <1>3, <1>4, PointsTo
<1>6. PICK p \in Packages : p = x.pkg /\ Route[p] = l  BY <1>2, <1>5 DEF LeadsBack
<1>7. PICK m \in DOMAIN parts[p] : parts[p][m].action = a  BY <1>5, <1>6 DEF LeadsBack
<1>8. a # NoAction
  <2>1. DOMAIN info \subseteq Actions  BY <1>1 DEF TypeOK
  <2>. QED BY <2>1, PackagesAssumption
<1>9. info[a].time \in Nat /\ \A b \in DOMAIN info : info[b].time \in Nat  BY PlanNow
<1>10. \A n \in DOMAIN parts[q] : parts[q][n].action # NoAction => parts[q][n].action \in DOMAIN info
  BY <1>1 DEF SoundPlan, Carried
<1>11. k \in Nat /\ \A n \in DOMAIN parts[q] : n \in Nat  BY PlanNow
\* The fragment after the k-th comes after a, and so do those after it.
<1>12. ASSUME k + 1 \in DOMAIN parts[q], parts[q][k + 1].action # NoAction => info[parts[q][k + 1].action].time <= info[a].time
       PROVE  FALSE
  BY <1>9, <1>10, <1>12
<1>13. CASE p = q
  <2>1. m # k
    <3>1. CASE m = k  BY <1>7, <1>8, <1>9, <1>13, <3>1
    <3>. QED BY <3>1
  <2>2. CASE m < k
    <3>1. parts[q][k].action # NoAction /\ info[a].time <= info[parts[q][k].action].time
      BY <1>1, <1>7, <1>8, <1>13, <2>2 DEF InTimeOrder
    <3>. QED BY <1>9, <1>10, <3>1
  <2>3. CASE k < m
    <3>1. k + 1 \in DOMAIN parts[q]
      <4>1. DOMAIN parts[q] = 1 .. Len(parts[q]) /\ Len(parts[q]) \in Nat  BY PlanNow
      <4>2. m \in DOMAIN parts[q]  BY <1>13
      <4>. QED BY <1>11, <2>3, <4>1, <4>2
    <3>2. CASE m = k + 1  BY <1>7, <1>9, <1>12, <1>13, <3>1, <3>2
    <3>3. CASE k + 1 < m
      <4>1. parts[q][k + 1].action # NoAction => info[parts[q][k + 1].action].time <= info[a].time
        BY <1>1, <1>7, <1>13, <3>1, <3>3 DEF InTimeOrder
      <4>. QED BY <1>12, <3>1, <4>1
    <3>. QED BY <1>7, <1>11, <1>13, <2>3, <3>2, <3>3
  <2>. QED BY <1>7, <1>11, <1>13, <2>1, <2>2, <2>3
<1>14. CASE p # q
  <2>1. packageQueue[l] \in Seq(Packages)  BY <1>1 DEF TypeOK
  <2>2. p \in ToSet(packageQueue[l]) /\ q \in ToSet(packageQueue[l])
    <3>1. ASSUME NEW y \in Packages, parts[y] # <<>>, Route[y] = l PROVE y \in ToSet(packageQueue[l])
      <4>1. y \in Queued  BY <3>1 DEF ReportInv
      <4>2. PICK n \in Links : y \in ToSet(packageQueue[n])  BY <4>1 DEF Queued
      <4>3. Route[y] = n  BY <4>2 DEF ReportInv, OwnQueues
      <4>. QED BY <3>1, <4>2, <4>3
    <3>2. parts[p] # <<>> /\ parts[q] # <<>>  BY <1>7
    <3>. QED BY <1>6, <3>1, <3>2
  <2>3. CASE Precedes(packageQueue[l], q, p)
    <3>1. Ahead(info, parts, q, p)  BY <1>1, <2>3 DEF InQueueOrder
    <3>2. InFull(parts, q)
      <4>1. parts[p] # <<>>  BY <1>7
      <4>. QED BY <3>1, <4>1 DEF Ahead
    <3>3. k + 1 \in DOMAIN parts[q]  BY <3>2, GoesFurther
    <3>4. parts[q][k + 1].action # NoAction => info[parts[q][k + 1].action].time <= info[a].time
      BY <1>7, <3>1, <3>3 DEF Ahead
    <3>. QED BY <1>12, <3>3, <3>4
  <2>4. CASE Precedes(packageQueue[l], p, q)
    <3>1. Ahead(info, parts, p, q)  BY <1>1, <2>4 DEF InQueueOrder
    <3>2. parts[q][k].action # NoAction /\ info[a].time <= info[parts[q][k].action].time
      BY <1>7, <1>8, <3>1 DEF Ahead
    <3>. QED BY <1>9, <1>10, <3>2
  <2>. QED BY <1>14, <2>1, <2>2, <2>3, <2>4, OneBefore
<1>. QED BY <1>13, <1>14

--------------------------------------------------------------------------------
(* What is under way for a link, and what its receiving end holds, is one        *)
(* stream, which ends where what is encoded ends.                                *)

InHand == {encoder[a] : a \in DOMAIN encoder} \union {held[a] : a \in DOMAIN held}
HandFor(l) == {c \in InHand : c.link = l /\ c.data # <<>>}
Existing(l) == HandFor(l) \union ToSet(wire[l])
EndsOf(l) ==
    {<<c.id, Last(c.data)>> : c \in Existing(l)}
        \union (IF pending[l] = <<>> THEN {} ELSE {<<last[l], Last(pending[l])>>})

\* The package q is encoded, or done, up to its k-th fragment and has more to come.
Incomplete(i, pa, t, q, k) ==
    /\ Enc(i, pa[q][k], t) /\ pa[q][k].off + pa[q][k].len # Size[q]
    /\ k + 1 \in DOMAIN pa[q] => ~Enc(i, pa[q][k + 1], t)

FrontAt(i, pa, t, l, x) ==
    \A q \in Packages : \A k \in DOMAIN pa[q] :
        Route[q] = l /\ Incomplete(i, pa, t, q, k) => x.pkg = q /\ Ends(x) = pa[q][k].off + pa[q][k].len

InStream(E, L, n, i, pa, t, l) ==
    /\ \A c \in E : WellCut(c)
    /\ \A e \in L : e[1] \in Nat /\ e[1] < n
    /\ \A e \in L : \A d \in E : d.id = e[1] + 1 /\ d.continueLast => GoesOn(e[2], d.data[1])
    /\ \A e \in L : e[1] + 1 = n => FrontAt(i, pa, t, l, e[2])

StreamInv ==
    \A l \in Links :
        /\ InStream(Existing(l), EndsOf(l), fragmentCount[l], info, parts, lastEncodeTime, l)
        /\ pending[l] # <<>> => Tiled(pending[l])

\* What is encoded of j was so of i, and what follows it, too.
EncodedAlike(i, pa, j, pb, t) ==
    \A q \in Packages : \A k \in DOMAIN pb[q] :
        Enc(j, pb[q][k], t)
            => /\ k \in DOMAIN pa[q] /\ Enc(i, pa[q][k], t)
               /\ pb[q][k].off = pa[q][k].off /\ pb[q][k].len = pa[q][k].len
               /\ k + 1 \in DOMAIN pa[q] /\ Enc(i, pa[q][k + 1], t)
                      => k + 1 \in DOMAIN pb[q] /\ Enc(j, pb[q][k + 1], t)

LEMMA FrontStays ==
    ASSUME NEW i, NEW pa, NEW j, NEW pb, NEW t, EncodedAlike(i, pa, j, pb, t), NEW l, NEW x, FrontAt(i, pa, t, l, x)
    PROVE  FrontAt(j, pb, t, l, x)
<1>1. ASSUME NEW q \in Packages, NEW k \in DOMAIN pb[q], Route[q] = l, Incomplete(j, pb, t, q, k)
      PROVE  x.pkg = q /\ Ends(x) = pb[q][k].off + pb[q][k].len
  <2>1. Enc(j, pb[q][k], t)  BY <1>1 DEF Incomplete
  <2>2. /\ k \in DOMAIN pa[q] /\ Enc(i, pa[q][k], t)
        /\ pb[q][k].off = pa[q][k].off /\ pb[q][k].len = pa[q][k].len
        /\ k + 1 \in DOMAIN pa[q] /\ Enc(i, pa[q][k + 1], t)
               => k + 1 \in DOMAIN pb[q] /\ Enc(j, pb[q][k + 1], t)
    BY <2>1 DEF EncodedAlike
  <2>3. Incomplete(i, pa, t, q, k)  BY <1>1, <2>2 DEF Incomplete
  <2>. QED BY <1>1, <2>2, <2>3 DEF FrontAt
<1>. QED BY <1>1 DEF FrontAt

LEMMA StreamShrinks ==
    ASSUME NEW E, NEW L, NEW n, NEW i, NEW pa, NEW t, NEW l, InStream(E, L, n, i, pa, t, l),
           NEW F, F \subseteq E, NEW M, M \subseteq L, NEW j, NEW pb, EncodedAlike(i, pa, j, pb, t)
    PROVE  InStream(F, M, n, j, pb, t, l)
<1>1. \A e \in M : e[1] + 1 = n => FrontAt(j, pb, t, l, e[2])
  BY FrontStays DEF InStream
<1>. QED BY <1>1 DEF InStream

LEMMA StreamStep ==
    ASSUME StreamInv, UNCHANGED <<fragmentCount, lastEncodeTime>>,
           EncodedAlike(info, parts, info', parts', lastEncodeTime),
           \A l \in Links : /\ Existing(l)' \subseteq Existing(l) /\ EndsOf(l)' \subseteq EndsOf(l)
                            /\ pending'[l] # <<>> => Tiled(pending'[l])
    PROVE  StreamInv'
<1>1. ASSUME NEW l \in Links
      PROVE  /\ InStream(Existing(l), EndsOf(l), fragmentCount[l], info, parts, lastEncodeTime, l)'
             /\ pending'[l] # <<>> => Tiled(pending'[l])
  <2>1. PICK E : E = Existing(l)'  OBVIOUS
  <2>2. PICK L : L = EndsOf(l)'  OBVIOUS
  <2>3. InStream(Existing(l), EndsOf(l), fragmentCount[l], info, parts, lastEncodeTime, l)  BY DEF StreamInv
  <2>4. E \subseteq Existing(l) /\ L \subseteq EndsOf(l)  BY <2>1, <2>2
  <2>5. InStream(E, L, fragmentCount[l], info', parts', lastEncodeTime, l)  BY <2>3, <2>4, StreamShrinks
  <2>6. InStream(Existing(l)', EndsOf(l)', fragmentCount'[l], info', parts', lastEncodeTime', l)
    BY <2>1, <2>2, <2>5
  <2>7. InStream(Existing(l), EndsOf(l), fragmentCount[l], info, parts, lastEncodeTime, l)'
    BY <2>6 DEF InStream, FrontAt, Incomplete, Enc
  <2>. QED BY <2>7
<1>. QED BY <1>1 DEF StreamInv

\* Steps of the sender and of the wire add nothing to what is under way.
LEMMA StreamLess ==
    ASSUME StreamInv, UNCHANGED <<fragmentCount, lastEncodeTime, last, pending>>,
           EncodedAlike(info, parts, info', parts', lastEncodeTime), InHand' \subseteq InHand,
           \A l \in Links : ToSet(wire'[l]) \subseteq Existing(l)
    PROVE  StreamInv'
<1>1. \A l \in Links : Existing(l)' \subseteq Existing(l)
  <2>1. ASSUME NEW l \in Links PROVE Existing(l)' \subseteq Existing(l)
    <3>1. HandFor(l)' \subseteq HandFor(l)  BY DEF HandFor
    <3>. QED BY <3>1 DEF Existing
  <2>. QED BY <2>1
<1>2. \A l \in Links : EndsOf(l)' \subseteq EndsOf(l)
  <2>1. ASSUME NEW l \in Links PROVE EndsOf(l)' \subseteq EndsOf(l)
    <3>1. Existing(l)' \subseteq Existing(l)  BY <1>1
    <3>. QED BY <3>1 DEF EndsOf
  <2>. QED BY <2>1
<1>3. \A l \in Links : pending'[l] # <<>> => Tiled(pending'[l])  BY DEF StreamInv
<1>. QED BY <1>1, <1>2, <1>3, StreamStep

LEMMA AlikeRestated ==
    ASSUME NEW i, NEW j, SameLoads(i, j), NEW pa, NEW pb, Restated(pa, pb), NEW t,
           \A q \in Packages : \A k \in DOMAIN pa[q] : pa[q][k].action # NoAction => pa[q][k].action \in DOMAIN i
    PROVE  EncodedAlike(i, pa, j, pb, t)
<1>1. ASSUME NEW q \in Packages, NEW k \in DOMAIN pa[q] PROVE Enc(j, pb[q][k], t) <=> Enc(i, pa[q][k], t)
  BY DEF Enc, SameLoads, Restated
<1>2. \A q \in Packages : DOMAIN pb[q] = DOMAIN pa[q]  BY DEF Restated
<1>. QED BY <1>1, <1>2 DEF EncodedAlike, Restated

LEMMA AlikeSame ==
    ASSUME UNCHANGED <<info, parts>>
    PROVE  EncodedAlike(info, parts, info', parts', lastEncodeTime)
BY DEF EncodedAlike

LEMMA AlikeKept ==
    ASSUME TypeInv, TypeInv', NEW W, Kept(W)
    PROVE  EncodedAlike(info, parts, info', parts', lastEncodeTime)
<1>1. PICK t : t = lastEncodeTime  OBVIOUS
<1>2. PICK r : r = [info |-> info', parts |-> parts']  OBVIOUS
<1>3. r.info = info' /\ r.parts = parts'  BY <1>2
<1>4. KeepsEncoded(DOMAIN info, info, parts, W, DOMAIN info', r, t)  BY <1>1, <1>2 DEF Kept
<1>5. t \in Nat  BY <1>1, PlanNow
<1>6. \A a \in DOMAIN info' : info'[a].time \in Nat /\ a # NoAction
  <2>1. info' \in [DOMAIN info' -> ActionInfo] /\ DOMAIN info' \subseteq Actions /\ Times \subseteq Nat
    BY NumbersAre DEF TypeInv, TypeOK
  <2>2. \A x \in ActionInfo : x.time \in Times  BY DEF ActionInfo
  <2>. QED BY <2>1, <2>2, PackagesAssumption
<1>7. ASSUME NEW q \in Packages, NEW k \in DOMAIN r.parts[q], Enc(r.info, r.parts[q][k], t)
      PROVE  /\ k \in DOMAIN parts[q] /\ Enc(info, parts[q][k], t)
             /\ r.parts[q][k].off = parts[q][k].off /\ r.parts[q][k].len = parts[q][k].len
             /\ k + 1 \in DOMAIN parts[q] /\ Enc(info, parts[q][k + 1], t)
                    => k + 1 \in DOMAIN r.parts[q] /\ Enc(r.info, r.parts[q][k + 1], t)
  <2>1. \/ q \in W /\ k \in DOMAIN parts[q] /\ r.parts[q][k] = parts[q][k]
           /\ (Enc(r.info, parts[q][k], t) => Enc(info, parts[q][k], t))
        \/ r.parts[q][k].action \in DOMAIN info' /\ r.info[r.parts[q][k].action].time > t
    BY <1>4 DEF KeepsEncoded
  <2>2. ~(r.parts[q][k].action \in DOMAIN info' /\ r.info[r.parts[q][k].action].time > t)
    <3>1. ASSUME r.parts[q][k].action \in DOMAIN info', r.info[r.parts[q][k].action].time > t PROVE FALSE
      <4>1. PICK b \in DOMAIN info' : b = r.parts[q][k].action  BY <3>1
      <4>2. info'[b].time <= t  BY <1>3, <1>6, <1>7, <4>1 DEF Enc
      <4>3. info'[b].time > t  BY <1>3, <3>1, <4>1
      <4>. QED BY <1>5, <1>6, <4>2, <4>3
    <3>. QED BY <3>1
  <2>3. /\ q \in W /\ k \in DOMAIN parts[q] /\ r.parts[q][k] = parts[q][k]
        /\ Enc(r.info, parts[q][k], t) => Enc(info, parts[q][k], t)
    BY <2>1, <2>2
  <2>4. \A n \in DOMAIN parts[q] : Enc(info, parts[q][n], t)
            => n \in DOMAIN r.parts[q] /\ r.parts[q][n] = parts[q][n] /\ Enc(r.info, parts[q][n], t)
    BY <1>4, <2>3 DEF KeepsEncoded
  <2>. QED BY <1>7, <2>3, <2>4
<1>8. EncodedAlike(info, parts, r.info, r.parts, t)  BY <1>7 DEF EncodedAlike
<1>. QED BY <1>1, <1>3, <1>8

LEMMA AlikeLess ==
    ASSUME TypeInv, PlanInv, PlanInv', NEW W, NEW A, LessParts(parts, parts', W, A), LessActions(info, info', A),
           \A a \in A : info[a].time <= lastEncodeTime
    PROVE  EncodedAlike(info, parts, info', parts', lastEncodeTime)
<1>1. PICK t : t = lastEncodeTime  OBVIOUS
<1>2. /\ \A a \in A : a \in DOMAIN info /\ info[a].time <= t /\ a # NoAction
      /\ \A a \in DOMAIN info' : a \in DOMAIN info /\ info'[a].time = info[a].time
  <2>1. DOMAIN info \subseteq Actions  BY DEF TypeInv, TypeOK
  <2>. QED BY <1>1, <2>1, PackagesAssumption DEF LessActions
<1>3. \A q \in Packages : \A k \in DOMAIN parts'[q] :
          parts'[q][k].action # NoAction => parts'[q][k].action \in DOMAIN info'
  BY DEF PlanInv, SoundPlan, Carried
<1>4. ASSUME NEW q \in W, q \in Packages
      PROVE  /\ DOMAIN parts'[q] = DOMAIN parts[q]
             /\ \A k \in DOMAIN parts[q] :
                   /\ Enc(info', parts'[q][k], t) <=> Enc(info, parts[q][k], t)
                   /\ parts'[q][k].off = parts[q][k].off /\ parts'[q][k].len = parts[q][k].len
  <2>1. /\ DOMAIN parts'[q] = DOMAIN parts[q]
        /\ \A k \in DOMAIN parts[q] :
              /\ parts'[q][k].off = parts[q][k].off /\ parts'[q][k].len = parts[q][k].len
              /\ parts[q][k].action \in A => parts'[q][k].action = NoAction
              /\ parts[q][k].action \notin A => parts'[q][k].action = parts[q][k].action
    BY <1>4 DEF LessParts
  <2>2. ASSUME NEW k \in DOMAIN parts[q] PROVE Enc(info', parts'[q][k], t) <=> Enc(info, parts[q][k], t)
    <3>1. CASE parts[q][k].action \in A  BY <1>2, <2>1, <3>1 DEF Enc
    <3>2. CASE parts[q][k].action \notin A /\ parts[q][k].action = NoAction  BY <2>1, <3>2 DEF Enc
    <3>3. CASE parts[q][k].action \notin A /\ parts[q][k].action # NoAction
      <4>1. parts'[q][k].action = parts[q][k].action /\ parts'[q][k].action \in DOMAIN info'
        BY <1>3, <1>4, <2>1, <3>3
      <4>. QED BY <1>2, <3>3, <4>1 DEF Enc
    <3>. QED BY <3>1, <3>2, <3>3
  <2>. QED BY <2>1, <2>2
<1>5. \A q \in Packages : q \notin W => DOMAIN parts'[q] = {}
  <2>1. DOMAIN <<>> = {}  OBVIOUS
  <2>2. \A q \in Packages : q \notin W => parts'[q] = <<>>  BY DEF LessParts
  <2>. QED BY <2>1, <2>2
<1>6. EncodedAlike(info, parts, info', parts', t)  BY <1>4, <1>5 DEF EncodedAlike
<1>. QED BY <1>1, <1>6

\* What a report does: nothing, it restates a fragment, or it finishes a package.
Restates(p) ==
    /\ ~Finished(p, Updated(p)) /\ parts' = [parts EXCEPT ![p] = Updated(p)]
    /\ UNCHANGED <<info, packageQueue, told>>

Finishes(p) ==
    /\ Finished(p, Updated(p)) /\ Pending(p) /\ told' = [told EXCEPT ![p] = Append(@, Head(reports)[2])]
    /\ \A k \in Open(Updated(p)) : Updated(p)[k].state = "UNENCODED"
    /\ packageQueue' = Dequeued(p) /\ Kept(Packages \ {p})

LEMMA RestKept ==
    ASSUME TypeInv, NEW p \in Packages, info' = info, parts' = [parts EXCEPT ![p] = <<>>]
    PROVE  Kept(Packages \ {p})
<1>1. PICK r : r = [info |-> info', parts |-> parts']  OBVIOUS
<1>2. r.info = info /\ r.parts = parts' /\ DOMAIN info' = DOMAIN info  BY <1>1
<1>3. \A q \in Packages : parts'[q] = IF q = p THEN <<>> ELSE parts[q]  BY DEF TypeInv, TypeOK
<1>4. DOMAIN <<>> = {}  OBVIOUS
<1>5. KeepsEncoded(DOMAIN info, info, parts, Packages \ {p}, DOMAIN info, r, lastEncodeTime)
  BY <1>2, <1>3, <1>4 DEF KeepsEncoded
<1>. QED BY <1>1, <1>2, <1>5 DEF Kept

LEMMA StatusKept ==
    ASSUME Careful, Spaced, TypeInv, ReportInv, PlanInv, TurnInv, OnPackageStatusChanged
    PROVE  /\ reports # <<>> /\ reports' = Tail(reports)
           /\ UNCHANGED <<now, linkStatus, actionQueue, lastEncodeTime, fragmentCount, encoder, held, wire,
                          last, pending, delivered, spent>>
           /\ \/ UNCHANGED <<info, parts, packageQueue, told>>
              \/ \E p \in Packages : Restates(p) \/ Finishes(p)
<1>1. /\ reports # <<>> /\ reports' = Tail(reports)
      /\ UNCHANGED <<now, linkStatus, actionQueue, lastEncodeTime, fragmentCount, encoder, held, wire,
                     last, pending, delivered, spent>>
  BY StatusIs DEF receiveVars
<1>2. CASE UNCHANGED <<info, parts, packageQueue, told, blocked>>  BY <1>1, <1>2
<1>3. ASSUME NEW p \in Packages, ~Finished(p, Updated(p)), parts' = [parts EXCEPT ![p] = Updated(p)],
             UNCHANGED <<info, packageQueue, told, blocked>>
      PROVE  Restates(p)
  BY <1>3 DEF Restates
<1>4. ASSUME NEW p \in Packages, NEW freed, freed = Freed(Updated(p)), Finished(p, Updated(p)),
             \E k \in DOMAIN parts[p] :
                 parts[p][k].h = Head(reports)[1] /\ parts[p][k].state \notin {"SENT", "FAILED"},
             Careful => \A k \in Open(Updated(p)) : Updated(p)[k].state = "UNENCODED",
             told' = [told EXCEPT ![p] = Append(@, Head(reports)[2])],
             packageQueue' = Dequeued(p),
             IF freed = {} THEN info' = Rest(p, freed).info /\ parts' = Rest(p, freed).parts
             ELSE info' = Replanned(p, freed).info /\ parts' = Replanned(p, freed).parts
      PROVE  Finishes(p)
  <2>1. Pending(p) /\ \A k \in Open(Updated(p)) : Updated(p)[k].state = "UNENCODED"  BY <1>4 DEF Pending
  <2>2. CASE freed = {}
    <3>1. info' = Rest(p, freed).info /\ parts' = Rest(p, freed).parts  BY <1>4, <2>2
    <3>2. info' = info /\ parts' = [parts EXCEPT ![p] = <<>>]
      BY <1>1, <1>4, <2>1, <2>2, <3>1, StatusLess
    <3>3. Kept(Packages \ {p})  BY <3>2, RestKept
    <3>. QED BY <1>4, <2>1, <3>3 DEF Finishes
  <2>3. CASE freed # {}
    <3>1. Kept(Packages \ {p})  BY <1>1, <1>4, <2>1, <2>3, StatusTurn
    <3>. QED BY <1>4, <2>1, <3>1 DEF Finishes
  <2>. QED BY <2>2, <2>3
<1>. QED BY <1>1, <1>2, <1>3, <1>4, StatusIs

\* Steps that leave what is under way.
LEMMA StreamCalm ==
    ASSUME StreamInv, UNCHANGED <<fragmentCount, lastEncodeTime, last, pending, encoder, held, wire>>,
           EncodedAlike(info, parts, info', parts', lastEncodeTime)
    PROVE  StreamInv'
<1>1. InHand' = InHand  BY DEF InHand
<1>2. \A l \in Links : ToSet(wire'[l]) \subseteq Existing(l)  BY DEF Existing
<1>. QED BY <1>1, <1>2, StreamLess

LEMMA ActionsThere ==
    ASSUME PlanInv
    PROVE  \A q \in Packages : \A k \in DOMAIN parts[q] : parts[q][k].action # NoAction => parts[q][k].action \in DOMAIN info
BY DEF PlanInv, SoundPlan, Carried

LEMMA StreamStatus ==
    ASSUME Careful, Spaced, TypeInv, TypeInv', ReportInv, PlanInv, TurnInv, StreamInv, OnPackageStatusChanged
    PROVE  StreamInv'
<1>1. UNCHANGED <<fragmentCount, lastEncodeTime, last, pending, encoder, held, wire>>  BY StatusKept
<1>2. CASE UNCHANGED <<info, parts>>  BY <1>1, <1>2, AlikeSame, StreamCalm
<1>3. ASSUME NEW p \in Packages, Restates(p) PROVE StreamInv'
  <2>1. TypeOK /\ reports # <<>> /\ parts' = [parts EXCEPT ![p] = Updated(p)] /\ info' = info
    BY <1>3, StatusKept DEF Restates, TypeInv
  <2>2. Restated(parts, parts')  BY <2>1, StatusRestated
  <2>3. SameLoads(info, info')  BY <2>1 DEF SameLoads
  <2>4. EncodedAlike(info, parts, info', parts', lastEncodeTime)  BY <2>2, <2>3, ActionsThere, AlikeRestated
  <2>. QED BY <1>1, <2>4, StreamCalm
<1>4. ASSUME NEW p \in Packages, Finishes(p) PROVE StreamInv'
  <2>1. Kept(Packages \ {p})  BY <1>4 DEF Finishes
  <2>2. EncodedAlike(info, parts, info', parts', lastEncodeTime)  BY <2>1, AlikeKept
  <2>. QED BY <1>1, <2>2, StreamCalm
<1>. QED BY <1>2, <1>3, <1>4, StatusKept

LEMMA StreamEncoded ==
    ASSUME TypeInv, EncodedInTime, PlanInv, StreamInv, NEW a \in Actions, OnBytesEncoded(a)
    PROVE  StreamInv'
<1>1. /\ a \in DOMAIN encoder /\ encoder' = Without(encoder, {a})
      /\ held' = With(held, a, encoder[a]) \/ held' = held
      /\ UNCHANGED <<lastEncodeTime, fragmentCount, wire, last, pending>>
  BY DEF OnBytesEncoded, receiveVars
<1>2. FurtherOn /\ Restated(parts, parts')  BY EncodedFurther
<1>3. EncodedAlike(info, parts, info', parts', lastEncodeTime)
  BY <1>2, ActionsThere, AlikeRestated DEF FurtherOn
<1>4. InHand' \subseteq InHand
  <2>1. \A b \in DOMAIN encoder' : b \in DOMAIN encoder /\ encoder'[b] = encoder[b]  BY <1>1 DEF Without
  <2>2. \A b \in DOMAIN held' : (b \in DOMAIN held /\ held'[b] = held[b]) \/ held'[b] = encoder[a]
    BY <1>1 DEF With
  <2>. QED BY <1>1, <2>1, <2>2 DEF InHand
<1>5. \A l \in Links : ToSet(wire'[l]) \subseteq Existing(l)  BY <1>1 DEF Existing
<1>. QED BY <1>1, <1>3, <1>4, <1>5, StreamLess

\* An action the transport does was encoded.
LEMMA DoneEncoded ==
    ASSUME TypeInv, PlanInv, DoAction
    PROVE  info[FirstAction].time <= lastEncodeTime
<1>1. PICK a : a = FirstAction  OBVIOUS
<1>2. info # <<>> /\ now >= info[a].time  BY <1>1, DoIs
<1>3. TypeOK /\ EncodesInTime  BY DEF TypeInv, PlanInv
<1>4. a \in DOMAIN info  BY <1>1, <1>2, <1>3, FirstActionIs
<1>5. /\ now \in Nat /\ lastEncodeTime \in Nat /\ info[a].time \in Nat /\ MaxEncodingTime \in Nat \ {0}
      /\ nextEncodeTime \in Nat
  <2>1. Times \subseteq Nat /\ MaxEncodingTime \in Nat \ {0}  BY <1>3, NumbersAre
  <2>2. nextEncodeTime \in Times  BY <1>3 DEF TypeOK
  <2>. QED BY <1>4, <2>1, <2>2, PlanNow
<1>6. now <= nextEncodeTime /\ (info[a].time > lastEncodeTime => info[a].time >= nextEncodeTime + MaxEncodingTime)
  BY <1>3, <1>4 DEF EncodesInTime
<1>. QED BY <1>1, <1>2, <1>5, <1>6

LEMMA StreamDo ==
    ASSUME Spaced, TypeInv, PlanInv, PlanInv', StreamInv, DoAction
    PROVE  StreamInv'
<1>1. PICK a : a = FirstAction  OBVIOUS
<1>2. /\ a \in DOMAIN info /\ LessActions(info, info', {a}) /\ LessParts(parts, parts', Packages, {a})
  BY <1>1, DoLess
<1>3. info[a].time <= lastEncodeTime  BY <1>1, DoneEncoded
<1>4. EncodedAlike(info, parts, info', parts', lastEncodeTime)  BY <1>2, <1>3, AlikeLess
<1>5. PICK sent \in BOOLEAN :
          /\ sent => a \in DOMAIN held
          /\ wire' = IF sent /\ held[a].data # <<>>
                     THEN [wire EXCEPT ![held[a].link] = Append(@, held[a])] ELSE wire
  BY <1>1, DoIs
<1>6. /\ held' = Without(held, {a}) /\ encoder' = Without(encoder, {a})
      /\ UNCHANGED <<lastEncodeTime, fragmentCount, last, pending>>
  BY <1>1, DoIs DEF receiveVars
<1>7. InHand' \subseteq InHand  BY <1>6 DEF InHand, Without
<1>8. ASSUME NEW l \in Links PROVE ToSet(wire'[l]) \subseteq Existing(l)
  <2>1. CASE wire' = wire  BY <2>1 DEF Existing
  <2>2. CASE sent /\ held[a].data # <<>>
    <3>1. PICK c : c = held[a]  OBVIOUS
    <3>2. c \in InHand /\ c.data # <<>> /\ c \in Contents /\ wire \in [Links -> Seq(Contents)]
      BY <1>5, <2>2, <3>1 DEF InHand, TypeInv, TypeOK
    <3>3. wire' = [wire EXCEPT ![c.link] = Append(@, c)]  BY <1>5, <2>2, <3>1
    <3>4. CASE c.link = l
      <4>1. wire'[l] = Append(wire[l], c)  BY <3>2, <3>3, <3>4
      <4>2. PICK v \in Seq(Contents) : v = wire[l]  BY <3>2
      <4>3. IsAppended(v, c, Append(v, c))  BY <3>2, Appended
      <4>4. ToSet(Append(v, c)) \subseteq ToSet(v) \union {c}
        <5>1. PICK r : r = Append(v, c)  OBVIOUS
        <5>2. \A m \in DOMAIN r : m \in 1 .. Len(v) \/ m = Len(v) + 1  BY <4>3, <5>1 DEF IsAppended
        <5>3. \A m \in DOMAIN r : r[m] = c \/ (m \in DOMAIN v /\ r[m] = v[m])  BY <4>3, <5>1, <5>2 DEF IsAppended
        <5>. QED BY <5>1, <5>3 DEF ToSet
      <4>5. c \in HandFor(l)  BY <3>2, <3>4 DEF HandFor
      <4>. QED BY <4>1, <4>2, <4>4, <4>5 DEF Existing
    <3>5. CASE c.link # l
      <4>1. wire'[l] = wire[l]  BY <3>2, <3>3, <3>5
      <4>. QED BY <4>1 DEF Existing
    <3>. QED BY <3>4, <3>5
  <2>. QED BY <1>5, <2>1, <2>2
<1>. QED BY <1>4, <1>6, <1>7, <1>8, StreamLess

LEMMA StreamDestroyed ==
    ASSUME Careful, TypeInv, ReportInv, BlockInv, PlanInv, PlanInv', StreamInv, NEW l \in Links, OnLinkDestroyed(l)
    PROVE  StreamInv'
<1>1. PICK W : W = Packages \ ToSet(packageQueue[l])  OBVIOUS
<1>2. LessActions(info, info', {}) /\ LessParts(parts, parts', W, {})  BY <1>1, DestroyedLess
<1>3. EncodedAlike(info, parts, info', parts', lastEncodeTime)  BY <1>2, AlikeLess
<1>4. encoder' = Without(encoder, ToSet(actionQueue[l]))
      /\ UNCHANGED <<lastEncodeTime, fragmentCount, held, wire, last, pending>>
  BY DEF OnLinkDestroyed, receiveVars
<1>5. InHand' \subseteq InHand  BY <1>4 DEF InHand, Without
<1>6. \A m \in Links : ToSet(wire'[m]) \subseteq Existing(m)  BY <1>4 DEF Existing
<1>. QED BY <1>3, <1>4, <1>5, <1>6, StreamLess

\* What a sequence holds with an element added, or with one taken out of it.
LEMMA HeldAppended ==
    ASSUME NEW T, NEW v \in Seq(T), NEW c \in T
    PROVE  Append(v, c) \in Seq(T) /\ ToSet(Append(v, c)) = ToSet(v) \union {c}
<1>1. PICK r : r = Append(v, c)  OBVIOUS
<1>2. IsAppended(v, c, r) /\ r \in Seq(T)  BY <1>1, Appended, AppendIs
<1>3. \A m \in DOMAIN r : m \in 1 .. Len(v) \/ m = Len(v) + 1  BY <1>2 DEF IsAppended
<1>4. \A m \in DOMAIN r : r[m] = c \/ (m \in DOMAIN v /\ r[m] = v[m])  BY <1>2, <1>3 DEF IsAppended
<1>5. \A m \in DOMAIN v : m \in DOMAIN r /\ r[m] = v[m]
  <2>1. Len(v) \in Nat /\ DOMAIN v = 1 .. Len(v) /\ DOMAIN r = 1 .. Len(v) + 1  BY <1>2 DEF IsAppended
  <2>2. \A m \in 1 .. Len(v) : m \in 1 .. Len(v) + 1  BY <2>1
  <2>. QED BY <1>2, <2>1, <2>2 DEF IsAppended
<1>6. Len(v) + 1 \in DOMAIN r /\ r[Len(v) + 1] = c
  <2>1. Len(v) \in Nat /\ DOMAIN r = 1 .. Len(v) + 1  BY <1>2 DEF IsAppended
  <2>. QED BY <1>2, <2>1 DEF IsAppended
<1>. QED BY <1>1, <1>2, <1>4, <1>5, <1>6 DEF ToSet

LEMMA HeldRemoved ==
    ASSUME NEW T, NEW v \in Seq(T), NEW k \in DOMAIN v
    PROVE  RemoveAt(v, k) \in Seq(T) /\ ToSet(RemoveAt(v, k)) \subseteq ToSet(v)
<1>1. DOMAIN v = 1 .. Len(v) /\ Len(v) \in Nat  BY Elements
<1>2. PICK r : r = RemoveAt(v, k)  OBVIOUS
<1>3. /\ r \in Seq(T) /\ DOMAIN r = 1 .. Len(v) - 1
      /\ \A j \in 1 .. Len(v) - 1 : r[j] = IF j <= k - 1 THEN v[j] ELSE v[j + 1]
  BY <1>1, <1>2, RemovedAt, Elements
<1>4. \A j \in 1 .. Len(v) - 1 : j \in DOMAIN v /\ j + 1 \in DOMAIN v  BY <1>1
<1>. QED BY <1>2, <1>3, <1>4 DEF ToSet

LEMMA StreamFault ==
    ASSUME TypeInv, StreamInv, NEW l \in Links, Fault(l)
    PROVE  StreamInv'
<1>1. PICK v \in Seq(Contents) : v = wire[l] /\ wire \in [Links -> Seq(Contents)]  BY DEF TypeInv, TypeOK
<1>2. PICK k \in DOMAIN v : \/ wire' = [wire EXCEPT ![l] = RemoveAt(v, k)]
                            \/ wire' = [wire EXCEPT ![l] = Append(v, v[k])]
                            \/ wire' = [wire EXCEPT ![l] = Append(RemoveAt(v, k), v[k])]
  BY <1>1 DEF Fault
<1>3. UNCHANGED <<actionVars, packageVars, held, receiveVars>>  BY DEF Fault
<1>4. v[k] \in Contents /\ v[k] \in ToSet(v)  BY <1>1, <1>2, Elements DEF ToSet
<1>5. RemoveAt(v, k) \in Seq(Contents) /\ ToSet(RemoveAt(v, k)) \subseteq ToSet(v)  BY <1>2, HeldRemoved
<1>6. /\ ToSet(Append(v, v[k])) = ToSet(v) \union {v[k]}
      /\ ToSet(Append(RemoveAt(v, k), v[k])) = ToSet(RemoveAt(v, k)) \union {v[k]}
  BY <1>4, <1>5, HeldAppended
<1>7. ToSet(wire'[l]) \subseteq ToSet(v) /\ \A m \in Links \ {l} : wire'[m] = wire[m]
  BY <1>1, <1>2, <1>4, <1>5, <1>6
<1>8. \A m \in Links : ToSet(wire'[m]) \subseteq Existing(m)  BY <1>1, <1>7 DEF Existing
<1>9. InHand' = InHand /\ UNCHANGED <<fragmentCount, lastEncodeTime, last, pending, info, parts>>
  BY <1>3 DEF InHand, actionVars, packageVars, receiveVars
<1>. QED BY <1>8, <1>9, AlikeSame, StreamLess

\* What is under way for a link may be received any time.
LEMMA GoodToReceive ==
    ASSUME TypeInv, StreamInv, NEW l \in Links, NEW c \in Existing(l), c \in Contents, NEW s, s = <<last[l], pending[l]>>
    PROVE  s \in Nat \X Seq(Pieces) /\ WellCut(c) /\ GoesOnWith(s, c) /\ ReceivesWell(s, c)
<1>1. last[l] \in Nat /\ pending[l] \in Seq(Pieces)  BY DEF TypeInv, TypeOK
<1>2. InStream(Existing(l), EndsOf(l), fragmentCount[l], info, parts, lastEncodeTime, l)
      /\ (pending[l] # <<>> => Tiled(pending[l]))
  BY DEF StreamInv
<1>3. WellCut(c)  BY <1>2 DEF InStream
<1>4. GoesOnWith(s, c)
  <2>1. ASSUME pending[l] # <<>>, c.continueLast, c.id = last[l] + 1
        PROVE  Tiled(pending[l]) /\ GoesOn(Last(pending[l]), c.data[1])
    <3>1. PICK e : e = <<last[l], Last(pending[l])>>  OBVIOUS
    <3>2. e \in EndsOf(l)  BY <2>1, <3>1 DEF EndsOf
    <3>3. GoesOn(e[2], c.data[1])  BY <1>2, <2>1, <3>1, <3>2 DEF InStream
    <3>. QED BY <1>2, <2>1, <3>1, <3>3
  <2>2. s[1] = last[l] /\ s[2] = pending[l]  OBVIOUS
  <2>. QED BY <2>1, <2>2 DEF GoesOnWith
<1>5. s \in Nat \X Seq(Pieces)  BY <1>1
<1>. QED BY <1>3, <1>4, <1>5, ReceivedIs

LEMMA StreamReceive ==
    ASSUME TypeInv, StreamInv, NEW l \in Links, Receive(l)
    PROVE  StreamInv' /\ \A d \in delivered' : d \in delivered \/ WholePackage(d)
<1>1. PICK c : c = Head(wire[l])  OBVIOUS
<1>2. PICK s : s = <<last[l], pending[l]>>  OBVIOUS
<1>3. /\ wire[l] # <<>> /\ wire' = [wire EXCEPT ![l] = Tail(@)]
      /\ last' = [last EXCEPT ![l] = After(s, c)[1]]
      /\ pending' = [pending EXCEPT ![l] = After(s, c)[2]]
      /\ delivered' = delivered \union Hands(s, c)
      /\ UNCHANGED <<now, linkStatus, actionVars, packageVars, held, reports, spent>>
  BY <1>1, <1>2, ReceiveIs
<1>4. TypeOK /\ WireCarries  BY DEF TypeInv
<1>5. wire \in [Links -> Seq(Contents)] /\ last \in [Links -> Nat] /\ pending \in [Links -> Seq(Pieces)]
  BY <1>4 DEF TypeOK
<1>6. c \in Contents /\ c \in ToSet(wire[l]) /\ ToSet(Tail(wire[l])) \subseteq ToSet(wire[l])
  <2>1. PICK v \in Seq(Contents) : v = wire[l] /\ v # <<>>  BY <1>3, <1>5
  <2>2. DOMAIN v = 1 .. Len(v) /\ Len(v) \in Nat /\ Len(v) # 0  BY <2>1, EmptySeq
  <2>3. Head(v) = v[1] /\ 1 \in DOMAIN v  BY <2>1, <2>2
  <2>4. PICK u : u = Tail(v)  OBVIOUS
  <2>5. DOMAIN u = 1 .. Len(v) - 1 /\ \A m \in DOMAIN u : u[m] = v[m + 1] /\ m + 1 \in DOMAIN v
    BY <2>1, <2>2, <2>4
  <2>. QED BY <1>1, <2>1, <2>3, <2>4, <2>5 DEF ToSet
<1>7. c \in Existing(l)  BY <1>6 DEF Existing
<1>8. ReceivesWell(s, c)  BY <1>2, <1>6, <1>7, GoodToReceive
<1>9. InHand' = InHand /\ UNCHANGED <<fragmentCount, lastEncodeTime, info, parts>>
  BY <1>3 DEF InHand, actionVars, packageVars
<1>10. \A m \in Links : Existing(m)' \subseteq Existing(m)
  <2>1. ASSUME NEW m \in Links PROVE Existing(m)' \subseteq Existing(m)
    <3>1. HandFor(m)' = HandFor(m)  BY <1>9 DEF HandFor
    <3>2. ToSet(wire'[m]) \subseteq ToSet(wire[m])  BY <1>3, <1>5, <1>6
    <3>. QED BY <3>1, <3>2 DEF Existing
  <2>. QED BY <2>1
<1>11. \A m \in Links : EndsOf(m)' \subseteq EndsOf(m) /\ (pending'[m] # <<>> => Tiled(pending'[m]))
  <2>1. ASSUME NEW m \in Links, m # l PROVE EndsOf(m)' \subseteq EndsOf(m) /\ (pending'[m] # <<>> => Tiled(pending'[m]))
    <3>1. pending'[m] = pending[m] /\ last'[m] = last[m]  BY <1>3, <1>5, <2>1
    <3>2. Existing(m)' \subseteq Existing(m)  BY <1>10
    <3>. QED BY <3>1, <3>2 DEF EndsOf, StreamInv
  <2>2. EndsOf(l)' \subseteq EndsOf(l) /\ (pending'[l] # <<>> => Tiled(pending'[l]))
    <3>1. pending'[l] = After(s, c)[2] /\ last'[l] = After(s, c)[1]  BY <1>3, <1>5
    <3>2. pending'[l] # <<>> => Tiled(pending'[l]) /\ Last(pending'[l]) = Last(c.data) /\ last'[l] = c.id
      BY <1>8, <3>1 DEF ReceivesWell
    <3>3. <<c.id, Last(c.data)>> \in EndsOf(l)  BY <1>7 DEF EndsOf
    <3>4. Existing(l)' \subseteq Existing(l)  BY <1>10
    <3>. QED BY <3>2, <3>3, <3>4 DEF EndsOf
  <2>. QED BY <2>1, <2>2
<1>12. StreamInv'  BY <1>9, <1>10, <1>11, AlikeSame, StreamStep
<1>13. \A d \in Hands(s, c) : WholePackage(d)  BY <1>8 DEF ReceivesWell
<1>. QED BY <1>3, <1>12, <1>13

\* The pieces of what an action carries.
PiecesOf(fs) == [k \in DOMAIN fs |-> [pkg |-> fs[k].pkg, off |-> fs[k].off, len |-> fs[k].len]]

LEMMA ContentParts ==
    ASSUME TypeInv, NEW a \in DOMAIN info, NEW n \in Nat, NEW c, c = Content(a, n), NEW fs, fs = info[a].fragments
    PROVE  /\ c \in Contents /\ c.link = info[a].link /\ c.id = n /\ c.data = PiecesOf(fs)
           /\ DOMAIN c.data = 1 .. Len(fs) /\ Len(c.data) = Len(fs) /\ Len(fs) \in Nat /\ DOMAIN fs = 1 .. Len(fs)
           /\ c.data = <<>> <=> fs = <<>>
           /\ \A k \in DOMAIN fs : c.data[k].pkg = fs[k].pkg /\ c.data[k].off = fs[k].off /\ c.data[k].len = fs[k].len
           /\ fs # <<>> => /\ 1 \in DOMAIN fs /\ Len(fs) \in DOMAIN fs
                           /\ c.continueLast = (fs[1].off # 0)
                           /\ c.continueNext = (fs[Len(fs)].off + fs[Len(fs)].len < Size[fs[Len(fs)].pkg])
                           /\ Last(c.data) = c.data[Len(fs)]
<1>1. c \in Contents /\ info[a] \in ActionInfo  BY ContentIs DEF TypeInv, TypeOK
<1>2. fs \in Seq(Pointers)  BY <1>1 DEF ActionInfo
<1>3. DOMAIN fs = 1 .. Len(fs) /\ Len(fs) \in Nat /\ (fs = <<>> <=> Len(fs) = 0)  BY <1>2, EmptySeq
<1>4. c = [link |-> info[a].link, id |-> n,
           continueLast |-> fs # <<>> /\ fs[1].off # 0,
           continueNext |-> fs # <<>> /\ Last(fs).off + Last(fs).len < Size[Last(fs).pkg],
           data |-> PiecesOf(fs)]
  BY DEF Content, PiecesOf
<1>5. /\ c.link = info[a].link /\ c.id = n /\ c.data = PiecesOf(fs)
      /\ c.continueLast = (fs # <<>> /\ fs[1].off # 0)
      /\ c.continueNext = (fs # <<>> /\ Last(fs).off + Last(fs).len < Size[Last(fs).pkg])
  BY <1>4
<1>6. DOMAIN c.data = DOMAIN fs
      /\ \A k \in DOMAIN fs : c.data[k].pkg = fs[k].pkg /\ c.data[k].off = fs[k].off /\ c.data[k].len = fs[k].len
  BY <1>5 DEF PiecesOf
<1>7. Len(c.data) = Len(fs) /\ (c.data = <<>> <=> fs = <<>>)
  <2>1. c.data \in Seq(Pieces)  BY <1>1 DEF Contents
  <2>2. DOMAIN c.data = 1 .. Len(c.data) /\ Len(c.data) \in Nat /\ (c.data = <<>> <=> Len(c.data) = 0)
    BY <2>1, EmptySeq
  <2>3. Len(c.data) = Len(fs)  BY <1>3, <1>6, <2>2
  <2>. QED BY <1>3, <2>2, <2>3
<1>8. fs # <<>> => /\ 1 \in DOMAIN fs /\ Len(fs) \in DOMAIN fs
                   /\ c.continueLast = (fs[1].off # 0)
                   /\ c.continueNext = (fs[Len(fs)].off + fs[Len(fs)].len < Size[fs[Len(fs)].pkg])
                   /\ Last(c.data) = c.data[Len(fs)]
  BY <1>3, <1>5, <1>7 DEF Last
<1>. QED BY <1>1, <1>3, <1>5, <1>6, <1>7, <1>8

LEMMA ContentCut ==
    ASSUME TypeInv, PlanInv, TurnInv, NEW a \in DOMAIN info, NEW n \in Nat, NEW c, c = Content(a, n),
           info[a].fragments # <<>>
    PROVE  WellCut(c)
<1>1. PICK fs : fs = info[a].fragments  OBVIOUS
<1>2. /\ c.data # <<>> /\ DOMAIN c.data = DOMAIN fs /\ Len(c.data) = Len(fs)
      /\ \A k \in DOMAIN fs : c.data[k].pkg = fs[k].pkg /\ c.data[k].off = fs[k].off /\ c.data[k].len = fs[k].len
      /\ 1 \in DOMAIN fs /\ Len(fs) \in DOMAIN fs
      /\ c.continueLast = (fs[1].off # 0)
      /\ c.continueNext = (fs[Len(fs)].off + fs[Len(fs)].len < Size[fs[Len(fs)].pkg])
      /\ Last(c.data) = c.data[Len(fs)]
  BY <1>1, ContentParts
<1>3. /\ info \in [DOMAIN info -> ActionInfo]
      /\ SoundPlan(info, parts, actionQueue, ToldHandles, lastEncodeTime)
      /\ SamePieces(info, parts) /\ Packed(info) /\ Whole(parts)
  BY PlanNow DEF TypeInv, PlanInv, TurnInv, InTurnPlan
<1>4. ASSUME NEW k \in DOMAIN fs
      PROVE  /\ fs[k].off + fs[k].len <= Size[fs[k].pkg]
             /\ k # 1 => fs[k].off = 0
             /\ k # Len(fs) => fs[k].off + fs[k].len = Size[fs[k].pkg]
  <2>1. PICK x : x = fs[k]  OBVIOUS
  <2>2. LeadsBack(info, parts, a, x)  BY <1>1, <1>3, <2>1, PointsTo
  <2>3. PICK p \in Packages : p = x.pkg  BY <2>2 DEF LeadsBack
  <2>4. PICK j \in DOMAIN parts[p] : parts[p][j].off = x.off /\ parts[p][j].len = x.len
    BY <2>2, <2>3 DEF LeadsBack
  <2>5. x.off + x.len <= Size[p]  BY <1>3, <2>4 DEF Whole
  <2>6. k # 1 => fs[k].off = 0  BY <1>1, <1>3 DEF Packed
  <2>7. fs[k].off + fs[k].len # Size[fs[k].pkg] => k = Len(fs)  BY <1>1, <1>3 DEF Packed
  <2>. QED BY <2>1, <2>3, <2>5, <2>6, <2>7
<1>5. \A k \in DOMAIN c.data : /\ Ends(c.data[k]) <= Size[c.data[k].pkg]
                               /\ k # 1 => c.data[k].off = 0
                               /\ k # Len(c.data) => Ends(c.data[k]) = Size[c.data[k].pkg]
  BY <1>2, <1>4 DEF Ends
<1>6. c.continueLast = (c.data[1].off # 0)  BY <1>2
<1>7. c.continueNext = (Ends(Last(c.data)) < Size[Last(c.data).pkg])  BY <1>2 DEF Ends
<1>. QED BY <1>2, <1>5, <1>6, <1>7 DEF WellCut

\* An encoding moves on the end of what is encoded by what its action carries.
LEMMA EncShift ==
    ASSUME TypeInv, PlanInv, NEW a \in DOMAIN info, EncodesOne(a), Restated(parts, parts'), SameLoads(info, info'),
           NEW q \in Packages, NEW k \in DOMAIN parts[q]
    PROVE  /\ parts[q][k].action # a
                  => (Enc(info', parts'[q][k], lastEncodeTime') <=> Enc(info, parts[q][k], lastEncodeTime))
           /\ parts[q][k].action = a
                  => Enc(info', parts'[q][k], lastEncodeTime') /\ ~Enc(info, parts[q][k], lastEncodeTime)
<1>1. PICK b : b = parts[q][k].action  OBVIOUS
<1>2. parts'[q][k].action = b  BY <1>1 DEF Restated
<1>3. b # NoAction => b \in DOMAIN info  BY <1>1, ActionsThere
<1>4. \A d \in DOMAIN info : info'[d].time = info[d].time  BY DEF SameLoads
<1>5. /\ info[a].time > lastEncodeTime /\ lastEncodeTime' = info[a].time
      /\ \A d \in DOMAIN info \ {a} : info[d].time > lastEncodeTime => info[d].time > info[a].time
  BY DEF EncodesOne
<1>6. lastEncodeTime \in Nat /\ \A d \in DOMAIN info : info[d].time \in Nat  BY PlanNow
<1>7. a # NoAction
  <2>1. DOMAIN info \subseteq Actions  BY DEF TypeInv, TypeOK
  <2>. QED BY <2>1, PackagesAssumption
<1>8. \A d \in DOMAIN info \ {a} : info[d].time <= lastEncodeTime <=> info[d].time <= info[a].time
  BY <1>5, <1>6
<1>9. CASE b = NoAction  BY <1>1, <1>2, <1>7, <1>9 DEF Enc
<1>10. CASE b # NoAction /\ b # a
  <2>1. b \in DOMAIN info \ {a}  BY <1>3, <1>10
  <2>2. Enc(info', parts'[q][k], lastEncodeTime') <=> info[b].time <= info[a].time
    BY <1>2, <1>4, <1>5, <1>10, <2>1 DEF Enc
  <2>3. Enc(info, parts[q][k], lastEncodeTime) <=> info[b].time <= lastEncodeTime  BY <1>1, <1>10 DEF Enc
  <2>. QED BY <1>1, <1>8, <1>10, <2>1, <2>2, <2>3
<1>11. CASE b = a
  <2>1. Enc(info', parts'[q][k], lastEncodeTime')  BY <1>2, <1>4, <1>5, <1>6, <1>11 DEF Enc
  <2>2. ~Enc(info, parts[q][k], lastEncodeTime)  BY <1>1, <1>5, <1>6, <1>7, <1>11 DEF Enc
  <2>. QED BY <1>1, <1>11, <2>1, <2>2
<1>. QED BY <1>9, <1>10, <1>11

\* An encoding, of the action a, which is to go out with the number n of its link.
Encoding(a) ==
    /\ a \in DOMAIN info /\ EncodesOne(a) /\ SameLoads(info, info') /\ Restated(parts, parts')

LEMMA EncodingIs ==
    ASSUME Spaced, TypeInv, PlanInv, Prompt, EncodeActions
    PROVE  \E a \in DOMAIN info : Encoding(a)
<1>1. FurtherOn /\ Restated(parts, parts')  BY EncodeFurther
<1>. QED BY <1>1, EncodeOne DEF Encoding, FurtherOn

\* What is with an action of another link is not with this one.
LEMMA EncodesElsewhere ==
    ASSUME TypeInv, PlanInv, TurnInv, NEW a \in DOMAIN info, NEW l, ~Carries(info, a, l),
           NEW q \in Packages, Route[q] = l, NEW k \in DOMAIN parts[q]
    PROVE  parts[q][k].action # a
<1>1. ASSUME parts[q][k].action = a PROVE FALSE
  <2>1. a # NoAction
    <3>1. DOMAIN info \subseteq Actions  BY DEF TypeInv, TypeOK
    <3>. QED BY <3>1, PackagesAssumption
  <2>2. /\ info \in [DOMAIN info -> ActionInfo] /\ SamePieces(info, parts)
        /\ SoundPlan(info, parts, actionQueue, ToldHandles, lastEncodeTime)
    BY DEF TypeInv, TypeOK, PlanInv, TurnInv, InTurnPlan
  <2>3. IsHeld(info, parts, actionQueue, q, k)  BY <1>1, <2>1, <2>2, PointedTo
  <2>. QED BY <1>1, <2>3 DEF IsHeld
<1>. QED BY <1>1

LEMMA FrontElsewhere ==
    ASSUME TypeInv, PlanInv, TurnInv, NEW a, Encoding(a), NEW l, ~Carries(info, a, l), NEW x,
           FrontAt(info, parts, lastEncodeTime, l, x)
    PROVE  FrontAt(info', parts', lastEncodeTime', l, x)
<1>1. /\ a \in DOMAIN info /\ EncodesOne(a) /\ SameLoads(info, info') /\ Restated(parts, parts')  BY DEF Encoding
<1>2. ASSUME NEW q \in Packages, NEW k \in DOMAIN parts'[q], Route[q] = l, Incomplete(info', parts', lastEncodeTime', q, k)
      PROVE  x.pkg = q /\ Ends(x) = parts'[q][k].off + parts'[q][k].len
  <2>1. /\ DOMAIN parts'[q] = DOMAIN parts[q]
        /\ parts'[q][k].off = parts[q][k].off /\ parts'[q][k].len = parts[q][k].len
    BY <1>1, <1>2 DEF Restated
  <2>2. \A j \in DOMAIN parts[q] :
           Enc(info', parts'[q][j], lastEncodeTime') <=> Enc(info, parts[q][j], lastEncodeTime)
    BY <1>1, <1>2, EncodesElsewhere, EncShift
  <2>3. Incomplete(info, parts, lastEncodeTime, q, k)  BY <1>2, <2>1, <2>2 DEF Incomplete
  <2>. QED BY <1>2, <2>1, <2>3 DEF FrontAt
<1>. QED BY <1>2 DEF FrontAt

\* What is encoded ends with what the action carries.
LEMMA FrontHere ==
    ASSUME TypeInv, ReportInv, PlanInv, TurnInv, NEW a, Encoding(a), NEW l \in Links, Carries(info, a, l),
           NEW n \in Nat, NEW c, c = Content(a, n)
    PROVE  FrontAt(info', parts', lastEncodeTime', l, Last(c.data))
<1>1. /\ a \in DOMAIN info /\ EncodesOne(a) /\ SameLoads(info, info') /\ Restated(parts, parts')  BY DEF Encoding
<1>2. PICK x : x = Last(c.data)  OBVIOUS
<1>3. ASSUME NEW q \in Packages, NEW k \in DOMAIN parts[q], Route[q] = l, Incomplete(info', parts', lastEncodeTime', q, k)
      PROVE  x.pkg = q /\ Ends(x) = parts[q][k].off + parts[q][k].len
  <2>1. /\ DOMAIN parts'[q] = DOMAIN parts[q]
        /\ parts'[q][k].off = parts[q][k].off /\ parts'[q][k].len = parts[q][k].len
    BY <1>1, <1>3 DEF Restated
  <2>2. /\ Enc(info', parts'[q][k], lastEncodeTime') /\ parts[q][k].off + parts[q][k].len # Size[q]
        /\ k + 1 \in DOMAIN parts[q] => ~Enc(info', parts'[q][k + 1], lastEncodeTime')
    BY <1>3, <2>1 DEF Incomplete
  <2>3. CASE parts[q][k].action = a
    <3>1. a # NoAction
      <4>1. DOMAIN info \subseteq Actions  BY DEF TypeInv, TypeOK
      <4>. QED BY <1>1, <4>1, PackagesAssumption
    <3>2. /\ info \in [DOMAIN info -> ActionInfo] /\ SamePieces(info, parts) /\ Packed(info)
          /\ SoundPlan(info, parts, actionQueue, ToldHandles, lastEncodeTime)
      BY DEF TypeInv, TypeOK, PlanInv, TurnInv, InTurnPlan
    <3>3. IsHeld(info, parts, actionQueue, q, k)  BY <2>3, <3>1, <3>2, PointedTo
    <3>4. PICK fs : fs = info[a].fragments  OBVIOUS
    <3>5. PICK m \in DOMAIN fs : fs[m].pkg = q /\ fs[m].off = parts[q][k].off /\ fs[m].len = parts[q][k].len
      BY <2>3, <3>3, <3>4 DEF IsHeld
    <3>6. m = Len(fs)  BY <1>1, <2>2, <3>2, <3>4, <3>5 DEF Packed
    <3>7. fs # <<>>  BY <3>4 DEF Carries
    <3>8. x = c.data[m] /\ c.data[m].pkg = fs[m].pkg /\ c.data[m].off = fs[m].off /\ c.data[m].len = fs[m].len
      BY <1>1, <1>2, <3>4, <3>6, <3>7, ContentParts
    <3>. QED BY <3>5, <3>8 DEF Ends
  <2>4. CASE parts[q][k].action # a
    <3>1. Enc(info, parts[q][k], lastEncodeTime)  BY <1>1, <2>2, <2>4, EncShift
    <3>2. /\ info[a].time > lastEncodeTime
          /\ \A d \in DOMAIN info \ {a} : info[d].time > lastEncodeTime => info[d].time > info[a].time
      BY <1>1 DEF EncodesOne
    <3>3. lastEncodeTime \in Nat /\ \A d \in DOMAIN info : info[d].time \in Nat  BY PlanNow
    <3>4. parts[q][k].action # NoAction => info[parts[q][k].action].time < info[a].time
      <4>1. ASSUME parts[q][k].action # NoAction PROVE info[parts[q][k].action].time < info[a].time
        <5>1. PICK b \in DOMAIN info : b = parts[q][k].action  BY <4>1, ActionsThere
        <5>2. info[b].time <= lastEncodeTime  BY <3>1, <4>1, <5>1 DEF Enc
        <5>. QED BY <1>1, <3>2, <3>3, <5>1, <5>2
      <4>. QED BY <4>1
    <3>5. k + 1 \in DOMAIN parts[q] => /\ parts[q][k + 1].action # NoAction
                                       /\ info[parts[q][k + 1].action].time > info[a].time
      <4>1. ASSUME k + 1 \in DOMAIN parts[q]
            PROVE  parts[q][k + 1].action # NoAction /\ info[parts[q][k + 1].action].time > info[a].time
        <5>1. parts[q][k + 1].action # a  BY <1>1, <2>2, <4>1, EncShift
        <5>2. ~Enc(info, parts[q][k + 1], lastEncodeTime)  BY <1>1, <2>2, <4>1, <5>1, EncShift
        <5>3. parts[q][k + 1].action # NoAction  BY <5>2 DEF Enc
        <5>4. PICK b \in DOMAIN info : b = parts[q][k + 1].action  BY <4>1, <5>3, ActionsThere
        <5>5. ~(info[b].time <= lastEncodeTime)  BY <5>2, <5>3, <5>4 DEF Enc
        <5>6. info[b].time > lastEncodeTime  BY <3>3, <5>5
        <5>. QED BY <3>2, <5>1, <5>3, <5>4, <5>6
      <4>. QED BY <4>1
    <3>. QED BY <1>1, <1>3, <2>2, <3>4, <3>5, FrontGoesOn
  <2>. QED BY <2>3, <2>4
<1>4. \A q \in Packages : DOMAIN parts'[q] = DOMAIN parts[q] /\ \A k \in DOMAIN parts[q] :
          parts'[q][k].off = parts[q][k].off /\ parts'[q][k].len = parts[q][k].len
  BY <1>1 DEF Restated
<1>5. FrontAt(info', parts', lastEncodeTime', l, x)  BY <1>3, <1>4 DEF FrontAt
<1>. QED BY <1>2, <1>5

\* What the action carries goes on where the stream stands.
LEMMA EncodesOn ==
    ASSUME TypeInv, PlanInv, TurnInv, NEW a, Encoding(a), NEW l \in Links, Carries(info, a, l),
           NEW n \in Nat, NEW c, c = Content(a, n),
           info[a].fragments[1].off # 0, NEW x, FrontAt(info, parts, lastEncodeTime, l, x)
    PROVE  GoesOn(x, c.data[1])
<1>1. /\ a \in DOMAIN info /\ EncodesOne(a) /\ SameLoads(info, info') /\ Restated(parts, parts')  BY DEF Encoding
<1>2. PICK fs : fs = info[a].fragments  OBVIOUS
<1>3. fs # <<>> /\ info[a].link = l  BY <1>2 DEF Carries
<1>4. 1 \in DOMAIN fs /\ fs[1].off # 0 /\ c.data[1].pkg = fs[1].pkg /\ c.data[1].off = fs[1].off
  <2>1. a \in DOMAIN info  BY <1>1
  <2>2. /\ \A k \in DOMAIN fs : c.data[k].pkg = fs[k].pkg /\ c.data[k].off = fs[k].off /\ c.data[k].len = fs[k].len
        /\ fs # <<>> => 1 \in DOMAIN fs /\ c.continueLast = (fs[1].off # 0)
    BY <1>2, <2>1, ContentParts
  <2>. QED BY <1>2, <1>3, <2>2
<1>5. /\ info \in [DOMAIN info -> ActionInfo] /\ SamePieces(info, parts) /\ OneInEach(parts) /\ Whole(parts)
      /\ SoundPlan(info, parts, actionQueue, ToldHandles, lastEncodeTime) /\ Tiles(parts) /\ InTimeOrder(info, parts)
  BY DEF TypeInv, TypeOK, PlanInv, TurnInv, InTurnPlan, SoundPlan
<1>6. PICK y : y = fs[1]  OBVIOUS
<1>7. LeadsBack(info, parts, a, y)  BY <1>1, <1>2, <1>4, <1>5, <1>6, PointsTo
<1>8. PICK p \in Packages : p = y.pkg /\ Route[p] = l  BY <1>3, <1>7 DEF LeadsBack
<1>9. PICK m \in DOMAIN parts[p] : parts[p][m].action = a /\ parts[p][m].off = y.off
  BY <1>7, <1>8 DEF LeadsBack
<1>10. m # 1  BY <1>4, <1>5, <1>6, <1>9 DEF Tiles
<1>11. PICK k : k = m - 1  OBVIOUS
<1>12. k \in DOMAIN parts[p] /\ k + 1 = m /\ k < m
  <2>1. DOMAIN parts[p] = 1 .. Len(parts[p]) /\ Len(parts[p]) \in Nat  BY PlanNow
  <2>. QED BY <1>9, <1>10, <1>11, <2>1
<1>13. parts[p][m].off = parts[p][k].off + parts[p][k].len /\ parts[p][m].len > 0 BY <1>5, <1>9, <1>10, <1>11 DEF Tiles
<1>14. parts[p][k].off + parts[p][k].len # Size[p]
  <2>1. parts[p][m].off \in Nat /\ parts[p][m].len \in Nat  BY <1>9, PlanNow
  <2>2. parts[p][m].off + parts[p][m].len <= Size[p]  BY <1>5, <1>9 DEF Whole
  <2>3. Size[p] \in Nat  BY PackagesAssumption
  <2>. QED BY <1>13, <2>1, <2>2, <2>3
<1>15. Enc(info, parts[p][k], lastEncodeTime)
  <2>1. ASSUME parts[p][k].action # NoAction PROVE info[parts[p][k].action].time <= lastEncodeTime
    <3>1. PICK b \in DOMAIN info : b = parts[p][k].action  BY <1>12, <2>1, ActionsThere
    <3>2. b # a
      <4>1. k # m
        <5>1. k \in Nat /\ m \in Nat  BY <1>9, <1>12, PlanNow
        <5>. QED BY <1>12, <5>1
      <4>. QED BY <1>5, <1>9, <1>12, <2>1, <3>1, <4>1 DEF OneInEach
    <3>3. info[b].time <= info[a].time  BY <1>5, <1>9, <1>12, <2>1, <3>1 DEF InTimeOrder
    <3>4. info[b].time > lastEncodeTime => info[b].time > info[a].time  BY <1>1, <3>1, <3>2 DEF EncodesOne
    <3>5. lastEncodeTime \in Nat /\ info[a].time \in Nat /\ info[b].time \in Nat  BY <1>1, PlanNow
    <3>. QED BY <3>1, <3>3, <3>4, <3>5
  <2>. QED BY <2>1 DEF Enc
<1>16. ~Enc(info, parts[p][m], lastEncodeTime)  BY <1>1, <1>9, EncShift
<1>17. Incomplete(info, parts, lastEncodeTime, p, k)  BY <1>12, <1>14, <1>15, <1>16 DEF Incomplete
<1>18. x.pkg = p /\ Ends(x) = parts[p][k].off + parts[p][k].len  BY <1>8, <1>12, <1>17 DEF FrontAt
<1>. QED BY <1>4, <1>6, <1>8, <1>9, <1>13, <1>18 DEF GoesOn

\* What the encoder is given for the action a.
GivenFor(a) == Content(a, IF info[a].link \in Links THEN fragmentCount[info[a].link] ELSE 0)

LEMMA HandGrows ==
    ASSUME NEW a, Encoding(a), NEW c, c = GivenFor(a)
    PROVE  /\ a \in DOMAIN info /\ InHand' = InHand \union {c} /\ UNCHANGED <<held, wire, last, pending, delivered, spent>>
           /\ encoder' = With(encoder, a, c) /\ a \notin DOMAIN encoder \union DOMAIN held
           /\ fragmentCount' = [l \in Links |-> fragmentCount[l] + IF Carries(info, a, l) THEN 1 ELSE 0]
<1>1. /\ a \in DOMAIN info /\ a \notin DOMAIN encoder \union DOMAIN held
      /\ encoder' = With(encoder, a, c)
      /\ fragmentCount' = [l \in Links |-> fragmentCount[l] + IF Carries(info, a, l) THEN 1 ELSE 0]
      /\ UNCHANGED <<held, wire, last, pending, delivered, spent>>
  BY DEF Encoding, EncodesOne, GivenFor
<1>2. DOMAIN encoder' = DOMAIN encoder \union {a}
      /\ \A b \in DOMAIN encoder' : encoder'[b] = IF b = a THEN c ELSE encoder[b]
  BY <1>1 DEF With
<1>3. {encoder'[b] : b \in DOMAIN encoder'} = {encoder[b] : b \in DOMAIN encoder} \union {c}  BY <1>1, <1>2
<1>. QED BY <1>1, <1>3 DEF InHand

LEMMA GivenIs ==
    ASSUME TypeInv, NEW a \in DOMAIN info, NEW c, c = GivenFor(a)
    PROVE  /\ c \in Contents /\ c.link = info[a].link /\ c.data = <<>> <=> info[a].fragments = <<>>
           /\ \A l \in Links : fragmentCount[l] \in Nat
           /\ \A l \in Links : Carries(info, a, l) <=> c.link = l /\ c.data # <<>>
           /\ \A l \in Links : c.link = l => c = Content(a, fragmentCount[l]) /\ c.id = fragmentCount[l]
<1>1. \A l \in Links : fragmentCount[l] \in Nat  BY DEF TypeInv, TypeOK
<1>2. PICK n \in Nat : n = IF info[a].link \in Links THEN fragmentCount[info[a].link] ELSE 0  BY <1>1
<1>3. c = Content(a, n)  BY <1>2 DEF GivenFor
<1>4. PICK fs : fs = info[a].fragments  OBVIOUS
<1>5. c \in Contents /\ c.link = info[a].link /\ c.id = n /\ (c.data = <<>> <=> fs = <<>>)
  BY <1>3, <1>4, ContentParts
<1>6. \A l \in Links : c.link = l => n = fragmentCount[l]  BY <1>2, <1>5
<1>. QED BY <1>1, <1>3, <1>4, <1>5, <1>6 DEF Carries

LEMMA EncodesStreamElsewhere ==
    ASSUME TypeInv, PlanInv, TurnInv, StreamInv, NEW a, Encoding(a), NEW l \in Links, ~Carries(info, a, l)
    PROVE  InStream(Existing(l)', EndsOf(l)', fragmentCount'[l], info', parts', lastEncodeTime', l)
<1>1. PICK c : c = GivenFor(a)  OBVIOUS
<1>2. /\ a \in DOMAIN info /\ InHand' = InHand \union {c} /\ UNCHANGED <<wire, last, pending>>
      /\ fragmentCount' = [m \in Links |-> fragmentCount[m] + IF Carries(info, a, m) THEN 1 ELSE 0]
  BY <1>1, HandGrows
<1>3. fragmentCount[l] \in Nat /\ ~(c.link = l /\ c.data # <<>>)  BY <1>1, <1>2, GivenIs
<1>4. HandFor(l)' = HandFor(l)  BY <1>2, <1>3 DEF HandFor
<1>5. Existing(l)' = Existing(l)  BY <1>2, <1>4 DEF Existing
<1>6. EndsOf(l)' = EndsOf(l)  BY <1>2, <1>5 DEF EndsOf
<1>7. fragmentCount'[l] = fragmentCount[l]  BY <1>2, <1>3
<1>8. PICK E, L, n : E = Existing(l) /\ L = EndsOf(l) /\ n = fragmentCount[l]  OBVIOUS
<1>9. InStream(E, L, n, info, parts, lastEncodeTime, l)  BY <1>8 DEF StreamInv
<1>10. ASSUME NEW e \in L, e[1] + 1 = n PROVE FrontAt(info', parts', lastEncodeTime', l, e[2])
  <2>1. PICK x : x = e[2]  OBVIOUS
  <2>2. FrontAt(info, parts, lastEncodeTime, l, x)  BY <1>9, <1>10, <2>1 DEF InStream
  <2>3. FrontAt(info', parts', lastEncodeTime', l, x)  BY <2>2, FrontElsewhere
  <2>. QED BY <2>1, <2>3
<1>11. InStream(E, L, n, info', parts', lastEncodeTime', l)  BY <1>9, <1>10 DEF InStream
<1>. QED BY <1>5, <1>6, <1>7, <1>8, <1>11

LEMMA EncodesStreamHere ==
    ASSUME TypeInv, ReportInv, PlanInv, TurnInv, StreamInv, NEW a, Encoding(a), NEW l \in Links, Carries(info, a, l)
    PROVE  InStream(Existing(l)', EndsOf(l)', fragmentCount'[l], info', parts', lastEncodeTime', l)
<1>1. PICK c : c = GivenFor(a)  OBVIOUS
<1>2. /\ a \in DOMAIN info /\ InHand' = InHand \union {c} /\ UNCHANGED <<wire, last, pending>>
      /\ fragmentCount' = [m \in Links |-> fragmentCount[m] + IF Carries(info, a, m) THEN 1 ELSE 0]
  BY <1>1, HandGrows
<1>3. PICK n \in Nat : n = fragmentCount[l]  BY <1>1, <1>2, GivenIs
<1>4. c.link = l /\ c.data # <<>> /\ c = Content(a, n) /\ c.id = n  BY <1>1, <1>2, <1>3, GivenIs
<1>5. HandFor(l)' = HandFor(l) \union {c}  BY <1>2, <1>4 DEF HandFor
<1>6. PICK E : E = Existing(l)  OBVIOUS
<1>7. PICK L : L = EndsOf(l)  OBVIOUS
<1>8. Existing(l)' = E \union {c}  BY <1>2, <1>5, <1>6 DEF Existing
<1>9. PICK z : z = <<n, Last(c.data)>>  OBVIOUS
<1>10. EndsOf(l)' = L \union {z}  BY <1>2, <1>4, <1>6, <1>7, <1>8, <1>9 DEF EndsOf
<1>11. fragmentCount'[l] = n + 1  BY <1>2, <1>3
<1>12. InStream(E, L, n, info, parts, lastEncodeTime, l)  BY <1>3, <1>6, <1>7 DEF StreamInv
<1>13. info[a].fragments # <<>>  BY DEF Carries
<1>14. WellCut(c)  BY <1>2, <1>4, <1>13, ContentCut
<1>15. z[1] = n /\ z[2] = Last(c.data)  BY <1>9
<1>16. FrontAt(info', parts', lastEncodeTime', l, z[2])  BY <1>4, <1>15, FrontHere
<1>17. ASSUME NEW e \in L, n = e[1] + 1, c.continueLast PROVE GoesOn(e[2], c.data[1])
  <2>1. PICK x : x = e[2]  OBVIOUS
  <2>2. FrontAt(info, parts, lastEncodeTime, l, x)  BY <1>12, <1>17, <2>1 DEF InStream
  <2>3. info[a].fragments[1].off # 0
    <3>1. PICK fs : fs = info[a].fragments  OBVIOUS
    <3>2. fs # <<>>  BY <1>13, <3>1
    <3>3. c.continueLast = (fs[1].off # 0)  BY <1>2, <1>4, <3>1, <3>2, ContentParts
    <3>. QED BY <1>17, <3>1, <3>3
  <2>4. GoesOn(x, c.data[1])  BY <1>4, <2>2, <2>3, EncodesOn
  <2>. QED BY <2>1, <2>4
<1>18. \A d \in E : d.id \in Nat /\ d.id < n
  <2>1. ASSUME NEW d \in E PROVE d.id \in Nat /\ d.id < n
    <3>1. PICK e : e = <<d.id, Last(d.data)>>  OBVIOUS
    <3>2. e \in L  BY <1>6, <1>7, <3>1 DEF EndsOf
    <3>. QED BY <1>12, <3>1, <3>2 DEF InStream
  <2>. QED BY <2>1
<1>19. \A e \in L : e[1] \in Nat /\ e[1] < n  BY <1>12 DEF InStream
<1>20. InStream(E \union {c}, L \union {z}, n + 1, info', parts', lastEncodeTime', l)
  <2>1. \A d \in E \union {c} : WellCut(d)  BY <1>12, <1>14 DEF InStream
  <2>2. \A e \in L \union {z} : e[1] \in Nat /\ e[1] < n + 1  BY <1>15, <1>19
  <2>3. ASSUME NEW e \in L \union {z}, NEW d \in E \union {c}, d.id = e[1] + 1 /\ d.continueLast
        PROVE  GoesOn(e[2], d.data[1])
    <3>1. e \in L
      <4>1. \A k \in Nat : k < n => k # n + 1  OBVIOUS
      <4>2. d.id # n + 1  BY <1>4, <1>18, <4>1
      <4>. QED BY <1>15, <2>3, <4>2
    <3>2. CASE d = c  BY <1>4, <1>17, <2>3, <3>1, <3>2
    <3>3. CASE d \in E  BY <1>12, <2>3, <3>1, <3>3 DEF InStream
    <3>. QED BY <3>2, <3>3
  <2>4. ASSUME NEW e \in L \union {z}, e[1] + 1 = n + 1 PROVE FrontAt(info', parts', lastEncodeTime', l, e[2])
    <3>1. e \notin L  BY <1>19, <2>4
    <3>. QED BY <1>16, <3>1
  <2>. QED BY <2>1, <2>2, <2>3, <2>4 DEF InStream
<1>. QED BY <1>8, <1>10, <1>11, <1>20

LEMMA StreamEncode ==
    ASSUME Spaced, TypeInv, ReportInv, PlanInv, TurnInv, Prompt, StreamInv, EncodeActions
    PROVE  StreamInv'
<1>1. PICK a \in DOMAIN info : Encoding(a)  BY EncodingIs
<1>2. PICK c : c = GivenFor(a)  OBVIOUS
<1>3. UNCHANGED pending  BY <1>1, <1>2, HandGrows
<1>4. ASSUME NEW l \in Links
      PROVE  /\ InStream(Existing(l), EndsOf(l), fragmentCount[l], info, parts, lastEncodeTime, l)'
             /\ pending'[l] # <<>> => Tiled(pending'[l])
  <2>1. InStream(Existing(l)', EndsOf(l)', fragmentCount'[l], info', parts', lastEncodeTime', l)
    BY <1>1, EncodesStreamElsewhere, EncodesStreamHere
  <2>2. InStream(Existing(l), EndsOf(l), fragmentCount[l], info, parts, lastEncodeTime, l)'
    BY <2>1 DEF InStream, FrontAt, Incomplete, Enc
  <2>. QED BY <1>3, <2>2 DEF StreamInv
<1>. QED BY <1>4 DEF StreamInv

LEMMA StreamInit == Init => StreamInv
<1> SUFFICES ASSUME Init PROVE StreamInv  OBVIOUS
<1>1. /\ DOMAIN encoder = {} /\ DOMAIN held = {} /\ wire = [l \in Links |-> <<>>] /\ pending = [l \in Links |-> <<>>]
  BY DEF Init
<1>2. InHand = {}  BY <1>1 DEF InHand
<1>3. ToSet(<<>>) = {}  BY DEF ToSet
<1>4. \A l \in Links : Existing(l) = {} /\ pending[l] = <<>>  BY <1>1, <1>2, <1>3 DEF Existing, HandFor
<1>5. \A l \in Links : EndsOf(l) = {}  BY <1>4 DEF EndsOf
<1>. QED BY <1>4, <1>5 DEF StreamInv, InStream

LEMMA StreamFetch ==
    ASSUME Spaced, TypeInv, TypeInv', ReportInv, PlanInv, TurnInv, StreamInv, FetchTimeline
    PROVE  StreamInv'
<1>1. UNCHANGED <<fragmentCount, lastEncodeTime, receiveVars, encoder, held, wire>>  BY Zenon DEF FetchTimeline
<1>2. Kept(Packages)  BY TurnFetch
<1>. QED BY <1>1, <1>2, AlikeKept, StreamCalm DEF receiveVars

LEMMA StreamSend ==
    ASSUME Spaced, InTurn, TypeInv, TypeInv', ReportInv, PlanInv, TurnInv, StreamInv,
           NEW p \in Packages, NEW r \in Reactive \union {NoAction}, SendPackage(p, r)
    PROVE  StreamInv'
<1>1. UNCHANGED <<fragmentCount, lastEncodeTime, receiveVars, encoder, held, wire>>  BY Zenon DEF SendPackage
<1>2. Kept(Packages)  BY TurnSend
<1>. QED BY <1>1, <1>2, AlikeKept, StreamCalm DEF receiveVars

LEMMA StreamKept ==
    ASSUME Careful, Spaced, InTurn, TypeInv, TypeInv', ReportInv, BlockInv, PlanInv, PlanInv', TurnInv, Prompt,
           StreamInv, [Next]_vars
    PROVE  StreamInv'
<1>1. CASE Tick \/ UNCHANGED vars \/ \E l \in Links : OnLinkCreated(l)
  <2>1. UNCHANGED <<actionVars, packageVars, held, wire, receiveVars>>  BY <1>1, Zenon DEF Tick, vars, OnLinkCreated
  <2>2. UNCHANGED <<info, parts, fragmentCount, lastEncodeTime, last, pending, encoder, held, wire>>
    BY <2>1 DEF actionVars, packageVars, receiveVars
  <2>3. EncodedAlike(info, parts, info', parts', lastEncodeTime)  BY <2>2, AlikeSame
  <2>. QED BY <2>2, <2>3, StreamCalm
<1>2. CASE FetchTimeline  BY <1>2, StreamFetch
<1>3. CASE EncodeActions  BY <1>3, StreamEncode
<1>4. CASE DoAction  BY <1>4, StreamDo
<1>5. CASE OnPackageStatusChanged  BY <1>5, StreamStatus
<1>6. CASE \E p \in Packages, r \in Reactive \union {NoAction} : SendPackage(p, r)  BY <1>6, StreamSend
<1>7. CASE \E a \in Actions : OnBytesEncoded(a)  BY <1>7, StreamEncoded DEF BlockInv
<1>8. CASE \E l \in Links : OnLinkDestroyed(l)  BY <1>8, StreamDestroyed
<1>9. CASE \E l \in Links : Receive(l)  BY <1>9, StreamReceive
<1>10. CASE \E l \in Links : Fault(l)  BY <1>10, StreamFault
<1>. QED BY <1>1, <1>2, <1>3, <1>4, <1>5, <1>6, <1>7, <1>8, <1>9, <1>10 DEF Next

\* Nothing but receiving changes what the receiving end holds.
LEMMA ReceiveElse ==
    ASSUME [Next]_vars, ~\E l \in Links : Receive(l)
    PROVE  UNCHANGED receiveVars
<1>1. CASE Tick  BY <1>1, Zenon DEF Tick
<1>2. CASE FetchTimeline  BY <1>2, Zenon DEF FetchTimeline
<1>3. CASE EncodeActions  BY <1>3, Zenon DEF EncodeActions
<1>4. CASE DoAction  BY <1>4, Zenon DEF DoAction
<1>5. CASE OnPackageStatusChanged  BY <1>5, Zenon DEF OnPackageStatusChanged
<1>6. ASSUME NEW p \in Packages, NEW r \in Reactive \union {NoAction}, SendPackage(p, r)
      PROVE  UNCHANGED receiveVars
  BY ONLY <1>6, ZenonT(30) DEF SendPackage
<1>7. CASE \E a \in Actions : OnBytesEncoded(a)  BY <1>7, Zenon DEF OnBytesEncoded
<1>8. CASE \E l \in Links : OnLinkCreated(l)  BY <1>8, Zenon DEF OnLinkCreated
<1>9. CASE \E l \in Links : OnLinkDestroyed(l)  BY <1>9, Zenon DEF OnLinkDestroyed
<1>10. CASE \E l \in Links : Fault(l)  BY <1>10, Zenon DEF Fault
<1>11. CASE UNCHANGED vars  BY <1>11, Zenon DEF vars
<1>. QED BY <1>1, <1>2, <1>3, <1>4, <1>5, <1>6, <1>7, <1>8, <1>9, <1>10, <1>11 DEF Next

LEMMA GarbledKept ==
    ASSUME TypeInv, StreamInv, NeverGarbled, [Next]_vars
    PROVE  NeverGarbled'
<1>1. ASSUME UNCHANGED delivered PROVE NeverGarbled'
  <2>1. NeverGarbled' <=> \A d \in delivered : WholePackage(d)  BY <1>1 DEF NeverGarbled, WholePackage
  <2>. QED BY <2>1 DEF NeverGarbled
<1>2. ASSUME NEW l \in Links, Receive(l) PROVE NeverGarbled'
  <2>1. \A d \in delivered' : d \in delivered \/ WholePackage(d)  BY <1>2, StreamReceive
  <2>2. \A d \in delivered' : WholePackage(d)  BY <2>1 DEF NeverGarbled
  <2>. QED BY <2>2 DEF NeverGarbled, WholePackage
<1>3. UNCHANGED delivered \/ \E l \in Links : Receive(l)  BY ReceiveElse DEF receiveVars
<1>. QED BY <1>1, <1>2, <1>3

\* The receiving end hands up nothing but whole packages: the first piece of what
\* ComponentReceivePackageManager::receiveFragmentProducer gets is only added to the
\* pieces it follows, however links end, packages fail and the wire loses, repeats or
\* reorders.  The orders are the ones the managers rely on and do not enforce.
THEOREM NeverGarbledCorrect == Careful /\ Punctual /\ Spaced /\ InTurn => (Spec => []NeverGarbled)
<1> SUFFICES ASSUME Careful, Punctual, Spaced, InTurn PROVE Spec => []NeverGarbled  OBVIOUS
<1> DEFINE Inv == /\ TypeInv /\ ReportInv /\ BlockInv /\ PlanInv /\ TurnInv /\ Prompt /\ StreamInv /\ NeverGarbled
<1>1. Init => Inv
  <2>1. Init => NeverGarbled  BY DEF Init, NeverGarbled
  <2>. QED BY <2>1, TypeInit, ReportsInit, BlockInit, PlanInit, TurnInit, PromptInit, StreamInit
<1>2. Inv /\ [Next]_vars => Inv'
  <2> SUFFICES ASSUME Inv, [Next]_vars PROVE Inv'  OBVIOUS
  <2>1. TypeInv' /\ ReportInv' /\ BlockInv' /\ PlanInv'  BY TypeKept, ReportsKept, BlockKept, PlanKept
  <2>2. TurnInv' /\ Prompt'  BY <2>1, TurnKept, PromptKept
  <2>3. StreamInv' /\ NeverGarbled'  BY <2>1, StreamKept, GarbledKept
  <2>. QED BY <2>1, <2>2, <2>3
<1>3. Inv => NeverGarbled  OBVIOUS
<1> HIDE DEF Inv
<1> QED BY <1>1, <1>2, <1>3, PTL DEF Spec

--------------------------------------------------------------------------------
(* What is reported of a package.  A fragment is new as long as an action       *)
(* carries it: nobody has reported it.                                          *)

FreshInv ==
    \A p \in Packages : \A k \in DOMAIN parts[p] :
        /\ parts[p][k].state # "FAILED"
        /\ parts[p][k].action # NoAction => parts[p][k].h \notin ToldHandles /\ parts[p][k].state # "SENT"

LEMMA HandlesTold == ToldHandles = {x[1] : x \in ToSet(reports)}
BY DEF ToldHandles, ToSet

LEMMA ReportTaken ==
    ASSUME TypeOK, reports # <<>>, reports' = Tail(reports)
    PROVE  /\ ToSet(reports') \subseteq ToSet(reports) /\ ToldHandles' \subseteq ToldHandles
           /\ Head(reports) \in ToSet(reports) /\ Head(reports)[1] \in ToldHandles
           /\ Head(reports) = <<Head(reports)[1], Head(reports)[2]>> /\ Head(reports)[2] \in Statuses
<1> DEFINE R == Handles \X Statuses
<1>1. PICK v \in Seq(R) : v = reports  BY DEF TypeOK
<1>2. v \in Seq(R) /\ v # <<>> /\ v = reports /\ reports' = Tail(v)  BY <1>1
<1> HIDE DEF R
<1>3. DOMAIN v = 1 .. Len(v) /\ Len(v) \in Nat /\ Len(v) # 0  BY <1>2, Elements, EmptySeq
<1>4. Head(v) = v[1] /\ 1 \in DOMAIN v /\ v[1] \in R  BY <1>2, <1>3, Elements
<1>5. PICK u : u = Tail(v)  OBVIOUS
<1>6. DOMAIN u = 1 .. Len(v) - 1 /\ \A m \in DOMAIN u : u[m] = v[m + 1] /\ m + 1 \in DOMAIN v
  BY <1>2, <1>3, <1>5
<1>7. ToSet(u) \subseteq ToSet(v) /\ v[1] \in ToSet(v)  BY <1>4, <1>6 DEF ToSet
<1>8. ToldHandles' = {x[1] : x \in ToSet(u)} /\ ToldHandles = {x[1] : x \in ToSet(v)}
  BY <1>2, <1>5, HandlesTold DEF ToldHandles, ToSet
<1>9. v[1] = <<v[1][1], v[1][2]>> /\ v[1][2] \in Statuses  BY <1>4 DEF R
<1>. QED BY <1>2, <1>4, <1>5, <1>7, <1>8, <1>9

LEMMA ReportsAdded ==
    ASSUME reports \in Seq(Handles \X Statuses), NEW fs \in Seq(Pointers), NEW sent \in BOOLEAN,
           reports' = reports \o ReportsOf(fs, sent)
    PROVE  \A x \in ToSet(reports') :
               \/ x \in ToSet(reports)
               \/ x[1] \in HandlesOf(fs) /\ x = <<x[1], IF sent THEN "PACKAGE_SENT" ELSE "PACKAGE_FAILED_GENERIC">>
<1> DEFINE s == ReportsOf(fs, sent)
           R == Handles \X Statuses
<1>1. DOMAIN fs = 1 .. Len(fs) /\ Len(fs) \in Nat /\ \A k \in DOMAIN fs : fs[k].h \in Handles
  BY Elements, PointerIs
<1>2. s = [k \in DOMAIN fs |-> <<fs[k].h, IF sent THEN "PACKAGE_SENT" ELSE "PACKAGE_FAILED_GENERIC">>]
  BY DEF ReportsOf
<1>3. s \in Seq(R) /\ DOMAIN s = 1 .. Len(fs) /\ Len(s) = Len(fs)
  <2>1. \A k \in DOMAIN fs :
            <<fs[k].h, IF sent THEN "PACKAGE_SENT" ELSE "PACKAGE_FAILED_GENERIC">> \in Handles \X Statuses
    BY <1>1 DEF Statuses
  <2>2. s \in [1 .. Len(fs) -> Handles \X Statuses]  BY <1>1, <1>2, <2>1
  <2>. QED BY <1>1, <1>2, <2>2
<1>4. reports \in Seq(R) /\ reports' = reports \o s  OBVIOUS
<1>5. \A k \in DOMAIN fs : s[k] = <<fs[k].h, IF sent THEN "PACKAGE_SENT" ELSE "PACKAGE_FAILED_GENERIC">>
  BY <1>2
<1> HIDE DEF s, R
<1>6. PICK v, u, w : v \in Seq(R) /\ u \in Seq(R) /\ v = reports /\ u = s /\ w = reports' /\ w = v \o u  BY <1>3, <1>4
<1>7. /\ w \in Seq(R) /\ Len(w) = Len(v) + Len(u)
      /\ \A k \in 1 .. Len(v) + Len(u) : w[k] = IF k <= Len(v) THEN v[k] ELSE u[k - Len(v)]
  BY ONLY <1>6, ConcatProperties
<1>8. DOMAIN v = 1 .. Len(v) /\ Len(v) \in Nat /\ DOMAIN u = 1 .. Len(u) /\ Len(u) \in Nat
      /\ DOMAIN w = 1 .. Len(v) + Len(u)
  BY <1>6, <1>7, Elements
<1>9. ASSUME NEW k \in DOMAIN w
      PROVE  (k \in DOMAIN v /\ w[k] = v[k]) \/ \E m \in DOMAIN u : w[k] = u[m]
  <2>1. CASE k <= Len(v)  BY <1>7, <1>8, <1>9, <2>1
  <2>2. CASE ~(k <= Len(v))
    <3>1. k - Len(v) \in DOMAIN u /\ w[k] = u[k - Len(v)]  BY <1>7, <1>8, <1>9, <2>2
    <3>. QED BY <3>1
  <2>. QED BY <2>1, <2>2
<1>10. ASSUME NEW m \in DOMAIN u
       PROVE  u[m][1] \in HandlesOf(fs) /\ u[m] = <<u[m][1], IF sent THEN "PACKAGE_SENT" ELSE "PACKAGE_FAILED_GENERIC">>
  <2>1. m \in DOMAIN fs  BY <1>1, <1>3, <1>6, <1>10
  <2>2. PICK y : y = (IF sent THEN "PACKAGE_SENT" ELSE "PACKAGE_FAILED_GENERIC")  OBVIOUS
  <2>3. u[m] = <<fs[m].h, y>>  BY <1>5, <1>6, <2>1, <2>2
  <2>4. fs[m].h \in HandlesOf(fs)  BY <2>1 DEF HandlesOf
  <2>. QED BY <2>2, <2>3, <2>4
<1>. QED BY <1>6, <1>9, <1>10 DEF ToSet

LEMMA FreshKept ==
    ASSUME FreshInv, NEW W, Kept(W), ToldHandles' \subseteq ToldHandles
    PROVE  FreshInv'
<1>1. PICK r : r = [info |-> info', parts |-> parts']  OBVIOUS
<1>2. r.info = info' /\ r.parts = parts'  BY <1>1
<1>3. KeepsEncoded(DOMAIN info, info, parts, W, DOMAIN info', r, lastEncodeTime)  BY <1>1 DEF Kept
<1>4. ASSUME NEW q \in Packages, NEW k \in DOMAIN parts'[q]
      PROVE  /\ parts'[q][k].state # "FAILED"
             /\ parts'[q][k].action # NoAction => parts'[q][k].h \notin ToldHandles' /\ parts'[q][k].state # "SENT"
  <2>1. \/ k \in DOMAIN parts[q] /\ parts'[q][k] = parts[q][k]
        \/ parts'[q][k].state = "UNENCODED" /\ parts'[q][k].h \notin ToldHandles
    BY <1>2, <1>3, <1>4 DEF KeepsEncoded
  <2>. QED BY <2>1 DEF FreshInv
<1>. QED BY <1>4 DEF FreshInv

\* Encoding changes states.
LEMMA FreshStates ==
    ASSUME TypeOK, FreshInv, UNCHANGED reports, NEW hs, NEW state \in FragmentStates, state \notin {"SENT", "FAILED"},
           parts' = [p \in Packages |-> SetState(p, hs, state)]
    PROVE  FreshInv'
<1>1. ToldHandles' = ToldHandles  BY DEF ToldHandles
<1>2. ASSUME NEW q \in Packages, NEW k \in DOMAIN parts'[q]
      PROVE  /\ k \in DOMAIN parts[q] /\ parts'[q][k].h = parts[q][k].h /\ parts'[q][k].action = parts[q][k].action
             /\ parts'[q][k].state \in {state, parts[q][k].state}
  <2>1. parts'[q] = SetState(q, hs, state)  OBVIOUS
  <2>. QED BY <1>2, <2>1, SetStateIs
<1>. QED BY <1>1, <1>2 DEF FreshInv

LEMMA FreshSame ==
    ASSUME FreshInv, UNCHANGED parts, ToldHandles' \subseteq ToldHandles
    PROVE  FreshInv'
BY DEF FreshInv

LEMMA FreshStatus ==
    ASSUME Careful, Spaced, TypeInv, ReportInv, PlanInv, TurnInv, FreshInv, OnPackageStatusChanged
    PROVE  FreshInv'
<1>1. TypeOK /\ reports # <<>> /\ reports' = Tail(reports)  BY StatusKept DEF TypeInv
<1>2. ToldHandles' \subseteq ToldHandles /\ Head(reports)[1] \in ToldHandles  BY <1>1, ReportTaken
<1>3. ASSUME NEW p \in Packages, Restates(p) PROVE FreshInv'
  <2>1. ~Finished(p, Updated(p)) /\ \A q \in Packages : parts'[q] = IF q = p THEN Updated(p) ELSE parts[q]
    BY <1>1, <1>3 DEF Restates, TypeOK
  <2>2. \A k \in DOMAIN Updated(p) : Updated(p)[k].state # "FAILED"  BY <2>1 DEF Finished
  <2>3. ASSUME NEW k \in DOMAIN Updated(p)
        PROVE  /\ k \in DOMAIN parts[p] /\ Updated(p)[k].h = parts[p][k].h /\ Updated(p)[k].action = parts[p][k].action
               /\ parts[p][k].h # Head(reports)[1] => Updated(p)[k].state = parts[p][k].state
    BY <1>1, <2>3, UpdatedIs
  <2>4. ASSUME NEW k \in DOMAIN Updated(p), Updated(p)[k].action # NoAction
        PROVE  Updated(p)[k].h \notin ToldHandles' /\ Updated(p)[k].state # "SENT"
    BY <1>2, <2>3, <2>4 DEF FreshInv
  <2>5. ASSUME NEW q \in Packages, NEW k \in DOMAIN parts'[q]
        PROVE  /\ parts'[q][k].state # "FAILED"
               /\ parts'[q][k].action # NoAction => parts'[q][k].h \notin ToldHandles' /\ parts'[q][k].state # "SENT"
    <3>1. CASE q = p  BY <2>1, <2>2, <2>4, <2>5, <3>1
    <3>2. CASE q # p  BY <1>2, <2>1, <2>5, <3>2 DEF FreshInv
    <3>. QED BY <3>1, <3>2
  <2>. QED BY <2>5 DEF FreshInv
<1>4. ASSUME NEW p \in Packages, Finishes(p) PROVE FreshInv'
  BY <1>2, <1>4, FreshKept DEF Finishes
<1>5. CASE UNCHANGED parts  BY <1>2, <1>5, FreshSame
<1>. QED BY <1>3, <1>4, <1>5, StatusKept

LEMMA FreshDo ==
    ASSUME TypeInv, PlanInv, FreshInv, DoAction
    PROVE  FreshInv'
<1>1. PICK fs : fs = info[FirstAction].fragments  OBVIOUS
<1>2. PICK sent \in BOOLEAN : reports' = reports \o ReportsOf(fs, sent)  BY <1>1, DoIs
<1>3. info # <<>> /\ parts' = DoneParts(HandlesOf(fs))  BY <1>1, DoIs
<1>4. FirstAction \in DOMAIN info /\ TypeOK  BY <1>3, FirstActionIs DEF TypeInv
<1>5. fs \in Seq(Pointers)  BY <1>1, <1>4 DEF TypeOK, ActionInfo
<1>6. reports \in Seq(Handles \X Statuses)  BY <1>4 DEF TypeOK
<1>7. \A x \in ToSet(reports') : x \in ToSet(reports) \/ x[1] \in HandlesOf(fs)  BY <1>2, <1>5, <1>6, ReportsAdded
<1>8. ToldHandles' \subseteq ToldHandles \union HandlesOf(fs)  BY <1>7, HandlesTold DEF ToldHandles, ToSet
<1>9. ASSUME NEW q \in Packages, NEW k \in DOMAIN parts'[q]
      PROVE  /\ parts'[q][k].state # "FAILED"
             /\ parts'[q][k].action # NoAction => parts'[q][k].h \notin ToldHandles' /\ parts'[q][k].state # "SENT"
  <2>1. PICK g : g = parts'[q][k]  OBVIOUS
  <2>2. DOMAIN parts'[q] = DOMAIN parts[q]  BY <1>3, <1>4, DoneIs
  <2>3. PICK f : f = parts[q][k] /\ k \in DOMAIN parts[q]  BY <1>9, <2>2
  <2>4. /\ g.h = f.h /\ g.action = IF f.h \in HandlesOf(fs) THEN NoAction ELSE f.action
        /\ g.state = IF f.h \in HandlesOf(fs) THEN "DONE" ELSE f.state
    BY <1>3, <1>4, <2>1, <2>3, DoneIs
  <2>5. f.state # "FAILED" /\ (f.action # NoAction => f.h \notin ToldHandles /\ f.state # "SENT")
    BY <2>3 DEF FreshInv
  <2>6. g.state # "FAILED" /\ (g.action # NoAction => g.h \notin ToldHandles' /\ g.state # "SENT")
    BY <1>8, <2>4, <2>5
  <2>. QED BY <2>1, <2>6
<1>. QED BY <1>9 DEF FreshInv

LEMMA FreshDestroyed ==
    ASSUME Careful, TypeInv, ReportInv, BlockInv, PlanInv, FreshInv, NEW l \in Links, OnLinkDestroyed(l)
    PROVE  FreshInv'
<1>1. reports' = reports  BY Zenon DEF OnLinkDestroyed
<1>2. \A q \in Packages : parts'[q] = IF q \in ToSet(packageQueue[l]) THEN <<>> ELSE parts[q]
  BY DEF OnLinkDestroyed
<1>3. ToldHandles' = ToldHandles  BY <1>1 DEF ToldHandles
<1>4. ASSUME NEW q \in Packages, NEW k \in DOMAIN parts'[q] PROVE parts'[q] = parts[q]
  BY <1>2, <1>4
<1>. QED BY <1>3, <1>4 DEF FreshInv

LEMMA FreshEncode ==
    ASSUME TypeInv, FreshInv, EncodeActions
    PROVE  FreshInv'
<1>1. TypeOK /\ reports' = reports  BY EncodeFurther DEF TypeInv
<1>2. PICK hs : parts' = [p \in Packages |-> SetState(p, hs, "ENCODING")]  BY <1>1, EncodeIs
<1>. QED BY <1>1, <1>2, FreshStates DEF FragmentStates

LEMMA FreshEncoded ==
    ASSUME TypeInv, EncodedInTime, FreshInv, NEW a \in Actions, OnBytesEncoded(a)
    PROVE  FreshInv'
<1>1. TypeOK /\ reports' = reports  BY EncodedFurther DEF TypeInv
<1>2. \/ parts' = [p \in Packages |-> SetState(p, HandlesOf(info[a].fragments), "ENQUEUED")]
      \/ parts' = parts
  BY Zenon DEF OnBytesEncoded
<1>3. ToldHandles' = ToldHandles  BY <1>1 DEF ToldHandles
<1>4. CASE parts' = parts  BY <1>3, <1>4, FreshSame
<1>5. CASE parts' = [p \in Packages |-> SetState(p, HandlesOf(info[a].fragments), "ENQUEUED")]
  <2>1. PICK hs : hs = HandlesOf(info[a].fragments)  OBVIOUS
  <2>. QED BY <1>1, <1>5, <2>1, FreshStates DEF FragmentStates
<1>. QED BY <1>2, <1>4, <1>5

LEMMA FreshInit == Init => FreshInv
BY DEF Init, FreshInv

LEMMA FreshElse ==
    ASSUME FreshInv, UNCHANGED <<parts, reports>>
    PROVE  FreshInv'
<1>1. ToldHandles' = ToldHandles  BY DEF ToldHandles
<1>. QED BY <1>1, FreshSame

LEMMA FreshInvKept ==
    ASSUME Careful, Spaced, InTurn, TypeInv, ReportInv, BlockInv, PlanInv, TurnInv, FreshInv, [Next]_vars
    PROVE  FreshInv'
<1>1. CASE Tick  BY <1>1, FreshElse DEF Tick, packageVars
<1>2. CASE FetchTimeline
  <2>1. Kept(Packages)  BY <1>2, TurnFetch
  <2>2. reports' = reports  BY <1>2 DEF FetchTimeline
  <2>3. ToldHandles' = ToldHandles  BY <2>2 DEF ToldHandles
  <2>. QED BY <2>1, <2>3, FreshKept
<1>3. CASE EncodeActions  BY <1>3, FreshEncode
<1>4. CASE DoAction  BY <1>4, FreshDo
<1>5. CASE OnPackageStatusChanged  BY <1>5, FreshStatus
<1>6. ASSUME NEW p \in Packages, NEW r \in Reactive \union {NoAction}, SendPackage(p, r) PROVE FreshInv'
  <2>1. Kept(Packages)  BY <1>6, TurnSend
  <2>2. reports' = reports  BY <1>6 DEF SendPackage
  <2>3. ToldHandles' = ToldHandles  BY <2>2 DEF ToldHandles
  <2>. QED BY <2>1, <2>3, FreshKept
<1>7. ASSUME NEW a \in Actions, OnBytesEncoded(a) PROVE FreshInv'  BY <1>7, FreshEncoded DEF BlockInv
<1>8. ASSUME NEW l \in Links, OnLinkCreated(l) PROVE FreshInv'  BY <1>8, FreshElse DEF OnLinkCreated, packageVars
<1>9. ASSUME NEW l \in Links, OnLinkDestroyed(l) PROVE FreshInv'  BY <1>9, FreshDestroyed
<1>10. ASSUME NEW l \in Links, Receive(l) PROVE FreshInv'  BY <1>10, FreshElse DEF Receive, packageVars
<1>11. ASSUME NEW l \in Links, Fault(l) PROVE FreshInv'  BY <1>11, FreshElse DEF Fault, packageVars
<1>12. CASE UNCHANGED vars  BY <1>12, FreshElse DEF vars, packageVars
<1>. QED BY <1>1, <1>2, <1>3, <1>4, <1>5, <1>6, <1>7, <1>8, <1>9, <1>10, <1>11, <1>12 DEF Next

--------------------------------------------------------------------------------
(* What the encoder or the transport has in hand for an action is what the      *)
(* action carries, unless its link was destroyed meanwhile.                     *)

Of(a) == {encoder[b] : b \in DOMAIN encoder \cap {a}} \union {held[b] : b \in DOMAIN held \cap {a}}

HeldAs(i, status, a, c) ==
    /\ i[a].fragments # <<>> => c.link = i[a].link /\ c.data = PiecesOf(i[a].fragments)
    /\ i[a].fragments = <<>> /\ c.data # <<>> => c.link \in Links /\ status[c.link] = "LINK_DESTROYED"

\* A destroyed link has no packages.
NoneDestroyed == \A l \in Links : linkStatus[l] = "LINK_DESTROYED" => packageQueue[l] = <<>>

HeldInv == (\A a \in Actions : \A c \in Of(a) : HeldAs(info, linkStatus, a, c)) /\ NoneDestroyed

LEMMA OfIs ==
    /\ \A a : \A c \in Of(a) : a \in DOMAIN encoder \union DOMAIN held
    /\ \A a : a \in DOMAIN encoder => encoder[a] \in Of(a)
    /\ \A a : a \in DOMAIN held => held[a] \in Of(a)
BY DEF Of

LEMMA OfSame ==
    ASSUME UNCHANGED <<encoder, held>>
    PROVE  \A a : Of(a)' = Of(a)
BY DEF Of

LEMMA OfWithout ==
    ASSUME NEW X, NEW Y, encoder' = Without(encoder, X), held' = Without(held, Y)
    PROVE  \A a : Of(a)' \subseteq Of(a)
BY DEF Of, Without

\* What is in hand for an action has not changed, nor has the action.
LEMMA HeldFrom ==
    ASSUME HeldInv, NoneDestroyed',
           \A l \in Links : linkStatus[l] = "LINK_DESTROYED" => linkStatus'[l] = "LINK_DESTROYED",
           \A a \in Actions : \A c \in Of(a)' :
               c \in Of(a) /\ info'[a].fragments = info[a].fragments /\ info'[a].link = info[a].link
    PROVE  HeldInv'
<1>1. ASSUME NEW a \in Actions, NEW c \in Of(a)' PROVE HeldAs(info', linkStatus', a, c)
  <2>1. c \in Of(a) /\ info'[a].fragments = info[a].fragments /\ info'[a].link = info[a].link  BY <1>1
  <2>2. HeldAs(info, linkStatus, a, c)  BY <2>1 DEF HeldInv
  <2>. QED BY <2>1, <2>2 DEF HeldAs
<1>2. \A a \in Actions : \A c \in Of(a)' : HeldAs(info, linkStatus, a, c)'  BY <1>1 DEF HeldAs
<1>. QED BY <1>2 DEF HeldInv

LEMMA HeldSame ==
    ASSUME HeldInv, UNCHANGED <<info, encoder, held, linkStatus, packageQueue>>
    PROVE  HeldInv'
<1>1. NoneDestroyed'  BY DEF HeldInv, NoneDestroyed
<1>2. \A a : Of(a)' = Of(a)  BY OfSame
<1>. QED BY <1>1, <1>2, HeldFrom

\* Planning leaves what is in hand.
LEMMA HeldKept ==
    ASSUME Prompt, HeldInv, NEW W, Kept(W), UNCHANGED <<encoder, held, linkStatus>>, NoneDestroyed'
    PROVE  HeldInv'
<1>1. PICK r : r = [info |-> info', parts |-> parts']  OBVIOUS
<1>2. r.info = info'  BY <1>1
<1>3. KeepsEncoded(DOMAIN info, info, parts, W, DOMAIN info', r, lastEncodeTime)  BY <1>1 DEF Kept
<1>4. \A a \in DOMAIN info : info[a].time <= lastEncodeTime => info'[a] = info[a]
  BY <1>2, <1>3 DEF KeepsEncoded
<1>5. \A a : Of(a)' = Of(a)  BY OfSame
<1>6. ASSUME NEW a \in Actions, NEW c \in Of(a)' PROVE info'[a] = info[a]
  <2>1. a \in DOMAIN encoder \union DOMAIN held  BY <1>5, <1>6, OfIs
  <2>. QED BY <1>4, <2>1 DEF Prompt
<1>. QED BY <1>5, <1>6, HeldFrom

LEMMA HeldFetch ==
    ASSUME Spaced, TypeInv, ReportInv, PlanInv, TurnInv, Prompt, HeldInv, FetchTimeline
    PROVE  HeldInv'
<1>1. Kept(Packages)  BY TurnFetch
<1>2. UNCHANGED <<encoder, held, linkStatus, packageQueue>>  BY Zenon DEF FetchTimeline
<1>3. NoneDestroyed'  BY <1>2 DEF HeldInv, NoneDestroyed
<1>. QED BY <1>1, <1>2, <1>3, HeldKept

LEMMA HeldSend ==
    ASSUME Spaced, InTurn, TypeInv, ReportInv, PlanInv, TurnInv, Prompt, HeldInv,
           NEW p \in Packages, NEW r \in Reactive \union {NoAction}, SendPackage(p, r)
    PROVE  HeldInv'
<1>1. Kept(Packages)  BY TurnSend
<1>2. UNCHANGED <<encoder, held, linkStatus>>  BY Zenon DEF SendPackage
<1>3. Route[p] \in links /\ packageQueue' \in {packageQueue, [packageQueue EXCEPT ![Route[p]] = Append(@, p)]}
  BY DEF SendPackage
<1>4. linkStatus[Route[p]] # "LINK_DESTROYED"  BY <1>3 DEF links
<1>5. \A l \in Links \ {Route[p]} : packageQueue'[l] = packageQueue[l]  BY <1>3 DEF TypeInv, TypeOK
<1>6. NoneDestroyed'  BY <1>2, <1>4, <1>5 DEF HeldInv, NoneDestroyed
<1>. QED BY <1>1, <1>2, <1>6, HeldKept

LEMMA HeldStatus ==
    ASSUME Careful, Spaced, TypeInv, ReportInv, PlanInv, TurnInv, Prompt, HeldInv, OnPackageStatusChanged
    PROVE  HeldInv'
<1>1. UNCHANGED <<encoder, held, linkStatus>>  BY StatusKept
<1>2. CASE UNCHANGED <<info, packageQueue>>  BY <1>1, <1>2, HeldSame
<1>3. ASSUME NEW p \in Packages, Finishes(p) PROVE HeldInv'
  <2>1. Kept(Packages \ {p}) /\ packageQueue' = Dequeued(p) /\ Pending(p)  BY <1>3 DEF Finishes
  <2>2. parts[p] # <<>>  BY <2>1 DEF Pending
  <2>3. TypeOK /\ OwnQueues /\ p \in Queued  BY <2>2 DEF TypeInv, ReportInv
  <2>4. \A l \in Links : ToSet(Dequeued(p)[l]) = ToSet(packageQueue[l]) \cap (Packages \ {p})
    BY <2>3, DequeuedOrder
  <2>5. \A l \in Links : Dequeued(p)[l] \in Seq(Packages)
    <3>1. \A l \in Links : l # Route[p] => Dequeued(p)[l] = packageQueue[l]  BY <2>3 DEF TypeOK, Dequeued
    <3>2. TypeOK'  BY TypeStatus DEF TypeInv
    <3>. QED BY <2>1, <3>2 DEF TypeOK
  <2>6. NoneDestroyed'
    <3>1. ASSUME NEW l \in Links, linkStatus[l] = "LINK_DESTROYED" PROVE packageQueue'[l] = <<>>
      <4>1. packageQueue[l] = <<>>  BY <3>1 DEF HeldInv, NoneDestroyed
      <4>2. ToSet(Dequeued(p)[l]) = {}  BY <2>4, <4>1 DEF ToSet
      <4>3. PICK v \in Seq(Packages) : v = Dequeued(p)[l]  BY <2>5
      <4>4. v = <<>>
        <5>1. DOMAIN v = 1 .. Len(v) /\ Len(v) \in Nat  BY <4>3, Elements
        <5>2. DOMAIN v = {}  BY <4>2, <4>3 DEF ToSet
        <5>3. Len(v) = 0  BY <5>1, <5>2
        <5>. QED BY <4>3, <5>3, EmptySeq
      <4>. QED BY <2>1, <4>3, <4>4
    <3>. QED BY <1>1, <3>1 DEF NoneDestroyed
  <2>. QED BY <1>1, <2>1, <2>6, HeldKept
<1>4. ASSUME NEW p \in Packages, Restates(p) PROVE UNCHANGED <<info, packageQueue>>  BY <1>4 DEF Restates
<1>. QED BY <1>2, <1>3, <1>4, StatusKept

LEMMA HeldEncoded ==
    ASSUME TypeInv, EncodedInTime, Prompt, HeldInv, NEW a \in Actions, OnBytesEncoded(a)
    PROVE  HeldInv'
<1>1. SameLoads(info, info') /\ UNCHANGED <<linkStatus, packageQueue>>  BY EncodedFurther DEF FurtherOn
<1>2. a \in DOMAIN encoder /\ encoder' = Without(encoder, {a}) /\ held' \in {held, With(held, a, encoder[a])}
  BY DEF OnBytesEncoded
<1>3. \A b : Of(b)' \subseteq Of(b)
  <2>1. CASE held' = held  BY <1>2, <2>1 DEF Of, Without
  <2>2. CASE held' = With(held, a, encoder[a])
    <3>1. \A b : b # a => Of(b)' \subseteq Of(b)  BY <1>2, <2>2 DEF Of, Without, With
    <3>2. Of(a)' \subseteq Of(a)  BY <1>2, <2>2 DEF Of, Without, With
    <3>. QED BY <3>1, <3>2
  <2>. QED BY <1>2, <2>1, <2>2
<1>4. NoneDestroyed'  BY <1>1 DEF HeldInv, NoneDestroyed
<1>5. \A b \in Actions : \A c \in Of(b)' : c \in Of(b) /\ b \in DOMAIN info  BY <1>3, OfIs DEF Prompt
<1>. QED BY <1>1, <1>4, <1>5, HeldFrom DEF SameLoads

LEMMA HeldDo ==
    ASSUME Spaced, TypeInv, PlanInv, Prompt, HeldInv, DoAction
    PROVE  HeldInv'
<1>1. PICK a : a = FirstAction  OBVIOUS
<1>2. /\ held' = Without(held, {a}) /\ encoder' = Without(encoder, {a})
      /\ UNCHANGED <<linkStatus, packageQueue>>
  BY <1>1, DoIs
<1>3. (\A b \in DOMAIN info' : info'[b] = info[b]) /\ DOMAIN info' = DOMAIN info \ {a}  BY <1>1, DoLess
<1>4. NoneDestroyed'  BY <1>2 DEF HeldInv, NoneDestroyed
<1>5. ASSUME NEW b \in Actions, NEW c \in Of(b)'
      PROVE  c \in Of(b) /\ info'[b] = info[b]
  <2>1. c \in Of(b) /\ b # a  BY <1>2, <1>5 DEF Of, Without
  <2>2. b \in DOMAIN info  BY <2>1, OfIs DEF Prompt
  <2>. QED BY <1>3, <2>1, <2>2
<1>. QED BY <1>2, <1>4, <1>5, HeldFrom

LEMMA HeldDestroyed ==
    ASSUME Careful, TypeInv, ReportInv, BlockInv, PlanInv, Prompt, HeldInv, NEW l \in Links, OnLinkDestroyed(l)
    PROVE  HeldInv'
<1>1. PICK hit : hit = ToSet(actionQueue[l])  OBVIOUS
<1>2. /\ \A a \in hit : info[a].fragments # <<>> => info[a].link = l
      /\ encoder' = Without(encoder, hit) /\ held' = held
      /\ info' = [a \in DOMAIN info |-> IF a \in hit
                       THEN [info[a] EXCEPT !.enc = "UNENCODED", !.fragments = <<>>] ELSE info[a]]
      /\ packageQueue' = [packageQueue EXCEPT ![l] = <<>>]
      /\ linkStatus' = [linkStatus EXCEPT ![l] = "LINK_DESTROYED"]
  BY <1>1 DEF OnLinkDestroyed
<1>3. TypeOK  BY DEF TypeInv
<1>4. \A m \in Links : /\ packageQueue'[m] = IF m = l THEN <<>> ELSE packageQueue[m]
                       /\ linkStatus'[m] = IF m = l THEN "LINK_DESTROYED" ELSE linkStatus[m]
  BY <1>2, <1>3 DEF TypeOK
<1>5. NoneDestroyed'  BY <1>4 DEF HeldInv, NoneDestroyed
<1>6. \A m \in Links : linkStatus[m] = "LINK_DESTROYED" => linkStatus'[m] = "LINK_DESTROYED"
  BY <1>2, <1>3 DEF TypeOK
<1>7. \A a : Of(a)' \subseteq Of(a)  BY <1>2 DEF Of, Without
<1>8. ASSUME NEW a \in Actions, NEW c \in Of(a)' PROVE HeldAs(info', linkStatus', a, c)
  <2>1. c \in Of(a) /\ a \in DOMAIN info  BY <1>7, <1>8, OfIs DEF Prompt
  <2>2. HeldAs(info, linkStatus, a, c)  BY <2>1, <1>8 DEF HeldInv
  <2>3. CASE a \notin hit
    <3>1. info'[a] = info[a]  BY <1>2, <2>1, <2>3
    <3>. QED BY <1>6, <2>2, <3>1 DEF HeldAs
  <2>4. CASE a \in hit
    <3>1. info[a] \in ActionInfo  BY <1>3, <2>1 DEF TypeOK
    <3>2. info'[a] = [info[a] EXCEPT !.enc = "UNENCODED", !.fragments = <<>>]  BY <1>2, <2>1, <2>4
    <3>3. info'[a].fragments = <<>>  BY <3>1, <3>2 DEF ActionInfo
    <3>4. CASE info[a].fragments = <<>>  BY <1>6, <2>2, <3>3, <3>4 DEF HeldAs
    <3>5. CASE info[a].fragments # <<>>
      <4>1. c.link = l  BY <1>2, <2>2, <2>4, <3>5 DEF HeldAs
      <4>. QED BY <1>4, <3>3, <4>1 DEF HeldAs
    <3>. QED BY <3>4, <3>5
  <2>. QED BY <2>3, <2>4
<1>. QED BY <1>5, <1>8 DEF HeldInv, HeldAs

LEMMA HeldEncode ==
    ASSUME Spaced, TypeInv, PlanInv, Prompt, HeldInv, EncodeActions
    PROVE  HeldInv'
<1>1. PICK a : Encoding(a)  BY EncodingIs
<1>2. PICK c : c = GivenFor(a)  OBVIOUS
<1>3. a \in DOMAIN info /\ held' = held /\ encoder' = With(encoder, a, c) /\ a \notin DOMAIN encoder \union DOMAIN held
  BY <1>1, <1>2, HandGrows
<1>4. SameLoads(info, info')  BY <1>1 DEF Encoding
<1>5. UNCHANGED <<linkStatus, packageQueue>>  BY EncodeFurther
<1>6. NoneDestroyed'  BY <1>5 DEF HeldInv, NoneDestroyed
<1>7. ASSUME NEW b \in Actions, NEW d \in Of(b)' PROVE HeldAs(info', linkStatus', b, d)
  <2>1. CASE b # a
    <3>1. d \in Of(b)  BY <1>3, <1>7, <2>1 DEF Of, With
    <3>2. b \in DOMAIN info /\ HeldAs(info, linkStatus, b, d)  BY <1>7, <3>1, OfIs DEF Prompt, HeldInv
    <3>. QED BY <1>4, <1>5, <3>2 DEF HeldAs, SameLoads
  <2>2. CASE b = a
    <3>1. d = c  BY <1>3, <1>7, <2>2 DEF Of, With
    <3>2. PICK n : n = (IF info[a].link \in Links THEN fragmentCount[info[a].link] ELSE 0)  OBVIOUS
    <3>3. c = Content(a, n) /\ n \in Nat  BY <1>2, <3>2 DEF GivenFor, TypeInv, TypeOK
    <3>4. c.link = info[a].link /\ c.data = PiecesOf(info[a].fragments)
          /\ (c.data = <<>> <=> info[a].fragments = <<>>)
      BY <1>3, <3>3, ContentParts
    <3>5. info'[a].link = info[a].link /\ info'[a].fragments = info[a].fragments  BY <1>3, <1>4 DEF SameLoads
    <3>. QED BY <2>2, <3>1, <3>4, <3>5 DEF HeldAs
  <2>. QED BY <2>1, <2>2
<1>. QED BY <1>6, <1>7 DEF HeldInv, HeldAs

LEMMA HeldInit == Init => HeldInv
BY DEF Init, HeldInv, NoneDestroyed, Of

LEMMA HeldInvKept ==
    ASSUME Careful, Spaced, InTurn, TypeInv, ReportInv, BlockInv, PlanInv, TurnInv, Prompt, HeldInv, [Next]_vars
    PROVE  HeldInv'
<1>1. CASE Tick  BY <1>1, HeldSame DEF Tick, packageVars, actionVars
<1>2. CASE FetchTimeline  BY <1>2, HeldFetch
<1>3. CASE EncodeActions  BY <1>3, HeldEncode
<1>4. CASE DoAction  BY <1>4, HeldDo
<1>5. CASE OnPackageStatusChanged  BY <1>5, HeldStatus
<1>6. ASSUME NEW p \in Packages, NEW r \in Reactive \union {NoAction}, SendPackage(p, r) PROVE HeldInv'
  BY <1>6, HeldSend
<1>7. ASSUME NEW a \in Actions, OnBytesEncoded(a) PROVE HeldInv'  BY <1>7, HeldEncoded DEF BlockInv
<1>8. ASSUME NEW l \in Links, OnLinkCreated(l) PROVE HeldInv'
  <2>1. UNCHANGED <<info, encoder, held, packageQueue>>  BY <1>8 DEF OnLinkCreated, packageVars, actionVars
  <2>2. linkStatus[l] = "NONE" /\ linkStatus' = [linkStatus EXCEPT ![l] = "LINK_CREATED"]  BY <1>8 DEF OnLinkCreated
  <2>3. linkStatus \in [Links -> {"NONE", "LINK_CREATED", "LINK_DESTROYED"}]  BY DEF TypeInv, TypeOK
  <2>4. \A m \in Links : linkStatus[m] = "LINK_DESTROYED" => linkStatus'[m] = "LINK_DESTROYED"  BY <2>2, <2>3
  <2>5. \A m \in Links : linkStatus'[m] = "LINK_DESTROYED" => linkStatus[m] = "LINK_DESTROYED"  BY <2>2, <2>3
  <2>6. NoneDestroyed'  BY <2>1, <2>5 DEF HeldInv, NoneDestroyed
  <2>7. \A a : Of(a)' = Of(a)  BY <2>1, OfSame
  <2>. QED BY <2>1, <2>4, <2>6, <2>7, HeldFrom
<1>9. ASSUME NEW l \in Links, OnLinkDestroyed(l) PROVE HeldInv'  BY <1>9, HeldDestroyed
<1>10. ASSUME NEW l \in Links, Receive(l) PROVE HeldInv'  BY <1>10, HeldSame DEF Receive, packageVars, actionVars
<1>11. ASSUME NEW l \in Links, Fault(l) PROVE HeldInv'  BY <1>11, HeldSame DEF Fault, packageVars, actionVars
<1>12. CASE UNCHANGED vars  BY <1>12, HeldSame DEF vars, packageVars, actionVars
<1>. QED BY <1>1, <1>2, <1>3, <1>4, <1>5, <1>6, <1>7, <1>8, <1>9, <1>10, <1>11, <1>12 DEF Next

--------------------------------------------------------------------------------
(* The numbers.  The content that goes on with a package has the number after   *)
(* that of the content it goes on from, or the next number of its link has when *)
(* it is not encoded yet.                                                       *)

Numbered(i, pa, t, p, k, n) ==
    IF k + 1 \in DOMAIN pa[p] /\ Enc(i, pa[p][k + 1], t)
    THEN \A c \in Of(pa[p][k + 1].action) : c.id = n
    ELSE fragmentCount[Route[p]] = n

NumberedNow(p, k, n) == Numbered(info, parts, lastEncodeTime, p, k, n)

NumbersInv ==
    \A p \in Packages : \A k \in DOMAIN parts[p] :
        parts[p][k].off + parts[p][k].len # Size[p]
            => \A c \in Of(parts[p][k].action) : NumberedNow(p, k, c.id + 1)

\* What is encoded, and what is in hand, was so before.
LessEncoded ==
    /\ EncodedAlike(info, parts, info', parts', lastEncodeTime) /\ UNCHANGED <<fragmentCount, lastEncodeTime>>
    /\ \A a : Of(a)' \subseteq Of(a)
    /\ \A p \in Packages : \A k \in DOMAIN parts'[p] :
           Enc(info', parts'[p][k], lastEncodeTime) => parts'[p][k].action \in {NoAction, parts[p][k].action}

LEMMA OfNone ==
    ASSUME TypeOK
    PROVE  Of(NoAction) = {}
<1>1. \A c \in {encoder, held} : DOMAIN c \subseteq Actions  BY DEF TypeOK
<1>2. NoAction \notin Actions  BY PackagesAssumption
<1>. QED BY <1>1, <1>2 DEF Of

LEMMA NumberedKept ==
    ASSUME TypeOK, LessEncoded, NEW p \in Packages, NEW k \in DOMAIN parts'[p],
           Enc(info', parts'[p][k], lastEncodeTime), NEW n, NumberedNow(p, k, n)
    PROVE  NumberedNow(p, k, n)'
<1>1. EncodedAlike(info, parts, info', parts', lastEncodeTime) /\ UNCHANGED <<fragmentCount, lastEncodeTime>>
  BY DEF LessEncoded
<1>2. Numbered(info, parts, lastEncodeTime, p, k, n)  BY DEF NumberedNow
<1>3. CASE k + 1 \in DOMAIN parts'[p] /\ Enc(info', parts'[p][k + 1], lastEncodeTime)
  <2>1. k + 1 \in DOMAIN parts[p] /\ Enc(info, parts[p][k + 1], lastEncodeTime)
    BY <1>1, <1>3 DEF EncodedAlike
  <2>2. \A c \in Of(parts[p][k + 1].action) : c.id = n  BY <1>2, <2>1 DEF Numbered
  <2>3. PICK b : b = parts'[p][k + 1].action  OBVIOUS
  <2>4. b \in {NoAction, parts[p][k + 1].action}  BY <1>3, <2>3 DEF LessEncoded
  <2>5. Of(b)' \subseteq Of(b)  BY DEF LessEncoded
  <2>6. \A c \in Of(b)' : c.id = n  BY <2>2, <2>4, <2>5, OfNone
  <2>. QED BY <1>1, <1>3, <2>3, <2>6 DEF NumberedNow, Numbered
<1>4. CASE ~(k + 1 \in DOMAIN parts'[p] /\ Enc(info', parts'[p][k + 1], lastEncodeTime))
  <2>1. ~(k + 1 \in DOMAIN parts[p] /\ Enc(info, parts[p][k + 1], lastEncodeTime))
    BY <1>1, <1>4 DEF EncodedAlike
  <2>2. fragmentCount[Route[p]] = n  BY <1>2, <2>1 DEF Numbered
  <2>. QED BY <1>1, <1>4, <2>2 DEF NumberedNow, Numbered
<1>. QED BY <1>3, <1>4

\* What has content in hand is encoded.
LEMMA HandEncoded ==
    ASSUME Prompt, NEW a, NEW c \in Of(a)
    PROVE  a \in DOMAIN info /\ info[a].time <= lastEncodeTime
BY OfIs DEF Prompt

LEMMA HandEncodedNext ==
    ASSUME Prompt', NEW a, NEW c \in Of(a)'
    PROVE  a \in DOMAIN info' /\ info'[a].time <= lastEncodeTime'
<1>1. a \in DOMAIN encoder' \union DOMAIN held'  BY DEF Of
<1>. QED BY <1>1 DEF Prompt

LEMMA NumbersLess ==
    ASSUME TypeOK, TypeOK', Prompt', NumbersInv, LessEncoded
    PROVE  NumbersInv'
<1>1. EncodedAlike(info, parts, info', parts', lastEncodeTime) /\ UNCHANGED <<fragmentCount, lastEncodeTime>>
  BY DEF LessEncoded
<1>2. ASSUME NEW p \in Packages, NEW k \in DOMAIN parts'[p], parts'[p][k].off + parts'[p][k].len # Size[p],
             NEW b, b = parts'[p][k].action, NEW c \in Of(b)'
      PROVE  NumberedNow(p, k, c.id + 1)'
  <2>1. b \in DOMAIN info' /\ info'[b].time <= lastEncodeTime'  BY <1>2, HandEncodedNext
  <2>2. Enc(info', parts'[p][k], lastEncodeTime)  BY <1>1, <1>2, <2>1 DEF Enc
  <2>3. k \in DOMAIN parts[p] /\ parts'[p][k].off = parts[p][k].off /\ parts'[p][k].len = parts[p][k].len
    BY <1>1, <1>2, <2>2 DEF EncodedAlike
  <2>4. b \in {NoAction, parts[p][k].action}  BY <1>2, <2>2 DEF LessEncoded
  <2>5. c \in Of(b)  BY <1>2 DEF LessEncoded
  <2>6. c \in Of(parts[p][k].action)  BY <2>4, <2>5, OfNone
  <2>7. NumberedNow(p, k, c.id + 1)  BY <1>2, <2>3, <2>6 DEF NumbersInv
  <2>. QED BY <1>2, <2>2, <2>7, NumberedKept
<1>. QED BY <1>2 DEF NumbersInv

\* The fragment f was sent and done with; R are the reports on their way.
DoneSent(f, R) == f.action = NoAction /\ (f.state = "SENT" \/ <<f.h, "PACKAGE_SENT">> \in R)

\* A step that leaves what is encoded and what is sent.
SameDone ==
    \A p \in Packages : \A k \in DOMAIN parts'[p] :
        Enc(info', parts'[p][k], lastEncodeTime)
            => /\ parts'[p][k].action = parts[p][k].action
               /\ DoneSent(parts'[p][k], ToSet(reports')) => DoneSent(parts[p][k], ToSet(reports))

CalmStep == LessEncoded /\ SameDone

LEMMA CalmLess ==
    ASSUME EncodedAlike(info, parts, info', parts', lastEncodeTime), UNCHANGED <<fragmentCount, lastEncodeTime>>,
           \A a : Of(a)' \subseteq Of(a), SameDone
    PROVE  CalmStep
BY DEF CalmStep, LessEncoded, SameDone

LEMMA CalmKept ==
    ASSUME TypeInv, TypeInv', NEW W, Kept(W), UNCHANGED <<fragmentCount, lastEncodeTime, encoder, held>>,
           ToSet(reports') \subseteq ToSet(reports)
    PROVE  CalmStep
<1>1. EncodedAlike(info, parts, info', parts', lastEncodeTime)  BY AlikeKept
<1>2. \A a : Of(a)' \subseteq Of(a)  BY OfSame
<1>3. PICK r : r = [info |-> info', parts |-> parts']  OBVIOUS
<1>4. r.info = info' /\ r.parts = parts'  BY <1>3
<1>5. KeepsEncoded(DOMAIN info, info, parts, W, DOMAIN info', r, lastEncodeTime)  BY <1>3 DEF Kept
<1>6. NoAction \notin DOMAIN info' /\ lastEncodeTime \in Nat /\ \A a \in DOMAIN info' : info'[a].time \in Nat
  <2>1. TypeInv => NoAction \notin DOMAIN info  BY PackagesAssumption DEF TypeInv, TypeOK
  <2>2. NoAction \notin DOMAIN info'  BY PackagesAssumption DEF TypeInv, TypeOK
  <2>3. lastEncodeTime \in Nat  BY PlanNow
  <2>4. \A a \in DOMAIN info' : info'[a].time \in Times  BY DEF TypeInv, TypeOK, ActionInfo
  <2>5. Times \subseteq Nat  BY DEF Times
  <2>. QED BY <2>2, <2>3, <2>4, <2>5
<1>7. ASSUME NEW q \in Packages, NEW k \in DOMAIN parts'[q], Enc(info', parts'[q][k], lastEncodeTime)
      PROVE  parts'[q][k] = parts[q][k]
  <2>1. \/ parts'[q][k] = parts[q][k]
        \/ parts'[q][k].action \in DOMAIN info' /\ info'[parts'[q][k].action].time > lastEncodeTime
    BY <1>4, <1>5, <1>7 DEF KeepsEncoded
  <2>2. CASE parts'[q][k].action \in DOMAIN info' /\ info'[parts'[q][k].action].time > lastEncodeTime
    <3>1. PICK b : b = parts'[q][k].action  OBVIOUS
    <3>2. b \in DOMAIN info' /\ info'[b].time > lastEncodeTime  BY <2>2, <3>1
    <3>3. b = NoAction \/ info'[b].time <= lastEncodeTime  BY <1>7, <3>1 DEF Enc
    <3>4. PICK u \in Nat : u = info'[b].time  BY <1>6, <3>2
    <3>. QED BY <1>6, <3>2, <3>3, <3>4
  <2>. QED BY <2>1, <2>2
<1>8. SameDone  BY <1>7 DEF SameDone, DoneSent
<1>. QED BY <1>1, <1>2, <1>8, CalmLess

LEMMA CalmRestated ==
    ASSUME PlanInv, SameLoads(info, info'), Restated(parts, parts'), UNCHANGED <<fragmentCount, lastEncodeTime>>,
           \A a : Of(a)' \subseteq Of(a), ToSet(reports') \subseteq ToSet(reports),
           \A p \in Packages : \A k \in DOMAIN parts[p] :
               parts'[p][k].state = "SENT"
                   => parts[p][k].state = "SENT" \/ <<parts[p][k].h, "PACKAGE_SENT">> \in ToSet(reports)
    PROVE  CalmStep
<1>1. EncodedAlike(info, parts, info', parts', lastEncodeTime)  BY ActionsThere, AlikeRestated
<1>2. SameDone  BY DEF SameDone, DoneSent, Restated
<1>. QED BY <1>1, <1>2, CalmLess

LEMMA CalmSame ==
    ASSUME UNCHANGED <<info, parts, fragmentCount, lastEncodeTime, reports>>, \A a : Of(a)' \subseteq Of(a)
    PROVE  CalmStep
<1>1. EncodedAlike(info, parts, info', parts', lastEncodeTime)  BY AlikeSame
<1>2. SameDone  BY DEF SameDone
<1>. QED BY <1>1, <1>2, CalmLess

LEMMA CalmEncoded ==
    ASSUME TypeInv, EncodedInTime, PlanInv, NEW a \in Actions, OnBytesEncoded(a)
    PROVE  CalmStep
<1>1. SameLoads(info, info') /\ Restated(parts, parts') /\ reports' = reports  BY EncodedFurther DEF FurtherOn
<1>2. a \in DOMAIN encoder /\ encoder' = Without(encoder, {a}) /\ held' \in {held, With(held, a, encoder[a])}
  BY DEF OnBytesEncoded
<1>3. \A b : Of(b)' \subseteq Of(b)
  <2>1. CASE held' = held  BY <1>2, <2>1 DEF Of, Without
  <2>2. CASE held' = With(held, a, encoder[a])
    <3>1. \A b : b # a => Of(b)' \subseteq Of(b)  BY <1>2, <2>2 DEF Of, Without, With
    <3>2. Of(a)' \subseteq Of(a)  BY <1>2, <2>2 DEF Of, Without, With
    <3>. QED BY <3>1, <3>2
  <2>. QED BY <1>2, <2>1, <2>2
<1>4. UNCHANGED <<fragmentCount, lastEncodeTime>>  BY Zenon DEF OnBytesEncoded
<1>5. \/ parts' = parts
      \/ parts' = [p \in Packages |-> SetState(p, HandlesOf(info[a].fragments), "ENQUEUED")]
  BY Zenon DEF OnBytesEncoded
<1>6. ASSUME NEW p \in Packages, NEW k \in DOMAIN parts[p], parts'[p][k].state = "SENT" PROVE parts[p][k].state = "SENT"
  <2>1. CASE parts' = parts  BY <1>6, <2>1
  <2>2. CASE parts' = [q \in Packages |-> SetState(q, HandlesOf(info[a].fragments), "ENQUEUED")]
    <3>1. PICK hs : hs = HandlesOf(info[a].fragments)  OBVIOUS
    <3>2. parts'[p] = SetState(p, hs, "ENQUEUED")  BY <2>2, <3>1
    <3>3. SetState(p, hs, "ENQUEUED")[k].state = IF parts[p][k].h \in hs THEN "ENQUEUED" ELSE parts[p][k].state
      BY <1>6, SetStateIs DEF TypeInv, FragmentStates
    <3>. QED BY <1>6, <3>2, <3>3
  <2>. QED BY <1>5, <2>1, <2>2
<1>. QED BY <1>1, <1>3, <1>4, <1>6, CalmRestated

LEMMA CalmDestroyed ==
    ASSUME Careful, TypeInv, ReportInv, BlockInv, PlanInv, PlanInv', NEW l \in Links, OnLinkDestroyed(l)
    PROVE  CalmStep
<1>1. PICK W : W = Packages \ ToSet(packageQueue[l])  OBVIOUS
<1>2. LessActions(info, info', {}) /\ LessParts(parts, parts', W, {})  BY <1>1, DestroyedLess
<1>3. EncodedAlike(info, parts, info', parts', lastEncodeTime)  BY <1>2, AlikeLess
<1>4. encoder' = Without(encoder, ToSet(actionQueue[l])) /\ UNCHANGED <<held, fragmentCount, lastEncodeTime, reports>>
  BY Zenon DEF OnLinkDestroyed
<1>5. \A a : Of(a)' \subseteq Of(a)  BY <1>4 DEF Of, Without
<1>6. \A q \in Packages : parts'[q] = IF q \in ToSet(packageQueue[l]) THEN <<>> ELSE parts[q]
  BY DEF OnLinkDestroyed
<1>7. ASSUME NEW q \in Packages, NEW k \in DOMAIN parts'[q] PROVE parts'[q][k] = parts[q][k]
  BY <1>6, <1>7
<1>8. SameDone  BY <1>4, <1>7 DEF SameDone
<1>. QED BY <1>3, <1>4, <1>5, <1>8, CalmLess

LEMMA CalmStatus ==
    ASSUME Careful, Spaced, TypeInv, TypeInv', ReportInv, PlanInv, TurnInv, OnPackageStatusChanged
    PROVE  CalmStep
<1>1. /\ reports # <<>> /\ reports' = Tail(reports)
      /\ UNCHANGED <<lastEncodeTime, fragmentCount, encoder, held>>
  BY StatusKept
<1>2. TypeOK  BY DEF TypeInv
<1>3. ToSet(reports') \subseteq ToSet(reports) /\ Head(reports) \in ToSet(reports)
      /\ Head(reports) = <<Head(reports)[1], Head(reports)[2]>>
  BY <1>1, <1>2, ReportTaken
<1>4. \A a : Of(a)' \subseteq Of(a)  BY <1>1, OfSame
<1>5. CASE UNCHANGED <<info, parts>>
  <2>1. SameLoads(info, info') /\ Restated(parts, parts')  BY <1>5, NotRestated DEF SameLoads
  <2>. QED BY <1>1, <1>3, <1>4, <1>5, <2>1, CalmRestated
<1>6. ASSUME NEW p \in Packages, Restates(p) PROVE CalmStep
  <2>1. info' = info /\ parts' = [parts EXCEPT ![p] = Updated(p)]  BY <1>6 DEF Restates
  <2>2. SameLoads(info, info') /\ Restated(parts, parts')  BY <1>1, <1>2, <2>1, StatusRestated DEF SameLoads
  <2>3. \A q \in Packages : parts'[q] = IF q = p THEN Updated(p) ELSE parts[q]  BY <1>2, <2>1 DEF TypeOK
  <2>4. ASSUME NEW q \in Packages, NEW k \in DOMAIN parts[q], parts'[q][k].state = "SENT"
        PROVE  parts[q][k].state = "SENT" \/ <<parts[q][k].h, "PACKAGE_SENT">> \in ToSet(reports)
    <3>1. CASE q # p  BY <2>3, <2>4, <3>1
    <3>2. CASE q = p
      <4>1. PICK st : st = (IF Head(reports)[2] = "PACKAGE_SENT" THEN "SENT" ELSE "FAILED")  OBVIOUS
      <4>2. Updated(p) = SetState(p, {Head(reports)[1]}, st) /\ st \in FragmentStates
        BY <4>1 DEF Updated, FragmentStates
      <4>3. SetState(p, {Head(reports)[1]}, st)[k].state
                = IF parts[p][k].h \in {Head(reports)[1]} THEN st ELSE parts[p][k].state
        BY <1>2, <2>4, <3>2, <4>2, SetStateIs
      <4>4. parts'[q][k].state = IF parts[q][k].h = Head(reports)[1] THEN st ELSE parts[q][k].state
        BY <2>3, <3>2, <4>2, <4>3
      <4>5. CASE parts[q][k].h # Head(reports)[1]  BY <2>4, <4>4, <4>5
      <4>6. CASE parts[q][k].h = Head(reports)[1]
        <5>1. st = "SENT"  BY <2>4, <4>4, <4>6
        <5>2. Head(reports)[2] = "PACKAGE_SENT"  BY <4>1, <5>1
        <5>. QED BY <1>3, <4>6, <5>2
      <4>. QED BY <4>5, <4>6
    <3>. QED BY <3>1, <3>2
  <2>. QED BY <1>1, <1>3, <1>4, <2>2, <2>4, CalmRestated
<1>7. ASSUME NEW p \in Packages, Finishes(p) PROVE CalmStep
  <2>1. Kept(Packages \ {p})  BY <1>7 DEF Finishes
  <2>. QED BY <1>1, <1>3, <2>1, CalmKept
<1>. QED BY <1>5, <1>6, <1>7, StatusKept

\* What is in hand after the encoding of the action a.
LEMMA OfEncoding ==
    ASSUME NEW a, Encoding(a), NEW c, c = GivenFor(a)
    PROVE  Of(a)' = {c} /\ \A b : b # a => Of(b)' = Of(b)
<1>1. encoder' = With(encoder, a, c) /\ held' = held /\ a \notin DOMAIN encoder \union DOMAIN held
  BY HandGrows
<1>2. Of(a)' = {c}  BY <1>1 DEF Of, With
<1>3. \A b : b # a => Of(b)' = Of(b)  BY <1>1 DEF Of, With
<1>. QED BY <1>2, <1>3

\* An action that carries a fragment of p is one of p's link.
LEMMA CarriesIts ==
    ASSUME TypeInv, PlanInv, TurnInv, NEW p \in Packages, NEW k \in DOMAIN parts[p], NEW a \in DOMAIN info,
           parts[p][k].action = a
    PROVE  Carries(info, a, Route[p])
<1>1. a # NoAction  BY PackagesAssumption DEF TypeInv, TypeOK
<1>2. SoundPlan(info, parts, actionQueue, ToldHandles, lastEncodeTime)  BY DEF PlanInv
<1>3. SamePieces(info, parts)  BY DEF TurnInv, InTurnPlan
<1>4. info \in [DOMAIN info -> ActionInfo]  BY PlanNow
<1>5. IsHeld(info, parts, actionQueue, p, k)  BY <1>1, <1>2, <1>3, <1>4, PointedTo
<1>. QED BY <1>5 DEF IsHeld

\* What an encoding does to the number that is to follow.
LEMMA NumberedEncode ==
    ASSUME TypeInv, ReportInv, PlanInv, TurnInv, NEW a, Encoding(a), NEW p \in Packages, NEW k \in DOMAIN parts[p],
           Enc(info, parts[p][k], lastEncodeTime), parts[p][k].off + parts[p][k].len # Size[p],
           k + 1 \in DOMAIN parts[p] => parts[p][k + 1].action # NoAction,
           NEW n, NumberedNow(p, k, n)
    PROVE  NumberedNow(p, k, n)'
<1>1. PICK c : c = GivenFor(a)  OBVIOUS
<1>2. PICK l \in Links : l = Route[p]  BY PackagesAssumption
<1>3. /\ a \in DOMAIN info /\ SameLoads(info, info') /\ Restated(parts, parts') /\ EncodesOne(a)
  BY DEF Encoding
<1>4. Of(a)' = {c} /\ \A b : b # a => Of(b)' = Of(b)  BY <1>1, OfEncoding
<1>5. fragmentCount'[l] = fragmentCount[l] + IF Carries(info, a, l) THEN 1 ELSE 0
  BY <1>1, HandGrows
<1>6. \A m \in Links : c.link = m => c.id = fragmentCount[m]  BY <1>1, <1>3, GivenIs
<1>7. fragmentCount[l] \in Nat  BY <1>1, <1>3, GivenIs
<1>8. DOMAIN parts'[p] = DOMAIN parts[p]  BY <1>3 DEF Restated
<1>9. CASE k + 1 \in DOMAIN parts[p] /\ parts[p][k + 1].action = a
  <2>1. Enc(info', parts'[p][k + 1], lastEncodeTime') /\ ~Enc(info, parts[p][k + 1], lastEncodeTime)
    BY <1>3, <1>9, EncShift
  <2>2. fragmentCount[l] = n  BY <1>2, <2>1 DEF NumberedNow, Numbered
  <2>3. Carries(info, a, l)  BY <1>2, <1>3, <1>9, CarriesIts
  <2>4. c.link = l  BY <1>1, <1>3, <2>3, GivenIs
  <2>5. \A d \in Of(a)' : d.id = n  BY <1>4, <1>6, <2>2, <2>4
  <2>6. parts'[p][k + 1].action = a  BY <1>3, <1>9 DEF Restated
  <2>. QED BY <1>8, <1>9, <2>1, <2>5, <2>6 DEF NumberedNow, Numbered
<1>10. CASE k + 1 \in DOMAIN parts[p] /\ parts[p][k + 1].action # a /\ Enc(info, parts[p][k + 1], lastEncodeTime)
  <2>1. Enc(info', parts'[p][k + 1], lastEncodeTime')  BY <1>3, <1>10, EncShift
  <2>2. PICK b : b = parts[p][k + 1].action  OBVIOUS
  <2>3. \A d \in Of(b) : d.id = n  BY <1>10, <2>2 DEF NumberedNow, Numbered
  <2>4. \A d \in Of(b)' : d.id = n  BY <1>4, <1>10, <2>2, <2>3
  <2>5. parts'[p][k + 1].action = b  BY <1>3, <1>10, <2>2 DEF Restated
  <2>. QED BY <1>8, <1>10, <2>1, <2>4, <2>5 DEF NumberedNow, Numbered
<1>11. CASE ~(k + 1 \in DOMAIN parts[p] /\ (parts[p][k + 1].action = a \/ Enc(info, parts[p][k + 1], lastEncodeTime)))
  <2>1. fragmentCount[l] = n  BY <1>2, <1>11 DEF NumberedNow, Numbered
  <2>2. ~(k + 1 \in DOMAIN parts'[p] /\ Enc(info', parts'[p][k + 1], lastEncodeTime'))
    BY <1>3, <1>8, <1>11, EncShift
  <2>3. ~Carries(info, a, l)
    <3>1. SUFFICES ASSUME Carries(info, a, l) PROVE FALSE  OBVIOUS
    <3>2. \A b \in DOMAIN info : info[b].time \in Nat  BY PlanNow
    <3>3. lastEncodeTime \in Nat  BY PlanNow
    <3>4. info[a].time > lastEncodeTime /\ lastEncodeTime' = info[a].time  BY <1>3 DEF EncodesOne
    <3>5. parts[p][k].action # NoAction => info[parts[p][k].action].time < info[a].time
      <4>1. SUFFICES ASSUME NEW b, b = parts[p][k].action, b # NoAction PROVE info[b].time < info[a].time  OBVIOUS
      <4>2. b \in DOMAIN info /\ info[b].time <= lastEncodeTime  BY <4>1, ActionsThere DEF Enc
      <4>. QED BY <1>3, <3>2, <3>3, <3>4, <4>2
    <3>6. k + 1 \in DOMAIN parts[p] => info[parts[p][k + 1].action].time > info[a].time
      <4>1. SUFFICES ASSUME k + 1 \in DOMAIN parts[p], NEW b, b = parts[p][k + 1].action PROVE info[b].time > info[a].time
        OBVIOUS
      <4>2. b \in DOMAIN info  BY <4>1, ActionsThere
      <4>3. ~(info[b].time <= lastEncodeTime) /\ b # a  BY <1>11, <4>1 DEF Enc
      <4>4. info[b].time > lastEncodeTime  BY <3>2, <3>3, <4>2, <4>3
      <4>. QED BY <1>3, <4>2, <4>3, <4>4 DEF EncodesOne
    <3>. QED BY <1>2, <1>3, <3>1, <3>5, <3>6, FrontGoesOn
  <2>4. fragmentCount'[l] = n  BY <1>5, <1>7, <2>1, <2>3
  <2>. QED BY <1>2, <2>2, <2>4 DEF NumberedNow, Numbered
<1>. QED BY <1>9, <1>10, <1>11

LEMMA NumbersEncode ==
    ASSUME Spaced, TypeInv, ReportInv, PlanInv, TurnInv, Prompt, NumbersInv, EncodeActions
    PROVE  NumbersInv'
<1>1. PICK a : Encoding(a)  BY EncodingIs
<1>2. PICK c : c = GivenFor(a)  OBVIOUS
<1>3. /\ a \in DOMAIN info /\ SameLoads(info, info') /\ Restated(parts, parts') /\ EncodesOne(a)
  BY <1>1 DEF Encoding
<1>4. Of(a)' = {c} /\ \A b : b # a => Of(b)' = Of(b)  BY <1>1, <1>2, OfEncoding
<1>5. a # NoAction  BY <1>3, PackagesAssumption DEF TypeInv, TypeOK
<1>6. InTimeOrder(info, parts) /\ OneInEach(parts)  BY DEF PlanInv, SoundPlan, TurnInv, InTurnPlan
<1>7. \A b \in DOMAIN info : info[b].time \in Nat  BY PlanNow
<1>8. lastEncodeTime \in Nat  BY PlanNow
<1>9. info[a].time > lastEncodeTime /\ lastEncodeTime' = info[a].time  BY <1>3 DEF EncodesOne
<1>10. ASSUME NEW p \in Packages, NEW k \in DOMAIN parts'[p], parts'[p][k].off + parts'[p][k].len # Size[p],
              NEW b, b = parts'[p][k].action, NEW d \in Of(b)'
       PROVE  NumberedNow(p, k, d.id + 1)'
  <2>1. /\ k \in DOMAIN parts[p] /\ DOMAIN parts'[p] = DOMAIN parts[p]
        /\ parts'[p][k].off = parts[p][k].off /\ parts'[p][k].len = parts[p][k].len /\ b = parts[p][k].action
    BY <1>3, <1>10 DEF Restated
  <2>2. k + 1 \in DOMAIN parts[p] => parts[p][k + 1].action # NoAction /\ info[b].time <= info[parts[p][k + 1].action].time
    <3>1. b # NoAction
      <4>1. CASE b = a  BY <1>5, <4>1
      <4>2. CASE b # a  BY <1>4, <1>10, <4>2, OfNone DEF TypeInv
      <4>. QED BY <4>1, <4>2
    <3>2. k < k + 1  BY <2>1, PlanNow
    <3>. QED BY <1>6, <2>1, <3>1, <3>2 DEF InTimeOrder
  <2>3. CASE b # a
    <3>1. d \in Of(b)  BY <1>4, <1>10, <2>3
    <3>2. NumberedNow(p, k, d.id + 1)  BY <1>10, <2>1, <3>1 DEF NumbersInv
    <3>3. info[b].time <= lastEncodeTime  BY <3>1, HandEncoded
    <3>4. Enc(info, parts[p][k], lastEncodeTime)  BY <2>1, <3>3 DEF Enc
    <3>. QED BY <1>1, <1>10, <2>1, <2>2, <3>2, <3>4, NumberedEncode
  <2>4. CASE b = a
    <3>1. d = c  BY <1>4, <1>10, <2>4
    <3>2. PICK l \in Links : l = Route[p]  BY PackagesAssumption
    <3>3. Carries(info, a, l)  BY <1>3, <2>1, <2>4, <3>2, CarriesIts
    <3>4. c.id = fragmentCount[l] /\ fragmentCount[l] \in Nat  BY <1>2, <1>3, <3>3, GivenIs
    <3>5. fragmentCount'[l] = d.id + 1  BY <1>1, <1>2, <3>1, <3>3, <3>4, HandGrows
    <3>6. k + 1 \in DOMAIN parts[p] => ~Enc(info', parts'[p][k + 1], lastEncodeTime')
      <4>1. SUFFICES ASSUME k + 1 \in DOMAIN parts[p], NEW e, e = parts[p][k + 1].action
                     PROVE  ~Enc(info', parts'[p][k + 1], lastEncodeTime')
        OBVIOUS
      <4>2. e # NoAction /\ info[a].time <= info[e].time  BY <2>2, <2>4, <4>1
      <4>3. e \in DOMAIN info  BY <4>1, <4>2, ActionsThere
      <4>4. e # a
        <5>1. k # k + 1  BY <2>1, PlanNow
        <5>. QED BY <1>5, <1>6, <2>1, <2>4, <4>1, <5>1 DEF OneInEach
      <4>5. info[e].time > lastEncodeTime  BY <1>3, <1>7, <1>8, <1>9, <4>2, <4>3
      <4>6. info[e].time > info[a].time  BY <1>3, <4>3, <4>4, <4>5 DEF EncodesOne
      <4>7. ~(info[e].time <= lastEncodeTime')  BY <1>3, <1>7, <1>9, <4>3, <4>6
      <4>8. parts'[p][k + 1].action = e /\ info'[e].time = info[e].time  BY <1>3, <4>1, <4>3 DEF Restated, SameLoads
      <4>. QED BY <4>2, <4>7, <4>8 DEF Enc
    <3>. QED BY <2>1, <3>2, <3>5, <3>6 DEF NumberedNow, Numbered
  <2>. QED BY <2>3, <2>4
<1>. QED BY <1>10 DEF NumbersInv

LEMMA NumbersDo ==
    ASSUME Spaced, TypeInv, TypeInv', PlanInv, PlanInv', Prompt', NumbersInv, DoAction
    PROVE  NumbersInv'
<1>1. PICK a : a = FirstAction  OBVIOUS
<1>2. LessActions(info, info', {a}) /\ LessParts(parts, parts', Packages, {a})  BY <1>1, DoLess
<1>3. info[a].time <= lastEncodeTime  BY <1>1, DoneEncoded
<1>4. EncodedAlike(info, parts, info', parts', lastEncodeTime)  BY <1>2, <1>3, AlikeLess
<1>5. /\ held' = Without(held, {a}) /\ encoder' = Without(encoder, {a})
      /\ UNCHANGED <<fragmentCount, lastEncodeTime>>
  BY <1>1, DoIs
<1>6. \A b : Of(b)' \subseteq Of(b)  BY <1>5, OfWithout
<1>7. \A p \in Packages : \A k \in DOMAIN parts'[p] : parts'[p][k].action \in {NoAction, parts[p][k].action}
  BY <1>2 DEF LessParts
<1>8. LessEncoded  BY <1>4, <1>5, <1>6, <1>7 DEF LessEncoded
<1>. QED BY <1>8, NumbersLess DEF TypeInv

LEMMA NumbersInit == Init => NumbersInv
BY DEF Init, NumbersInv

LEMMA NumbersCalm ==
    ASSUME TypeInv, TypeInv', Prompt', NumbersInv, CalmStep
    PROVE  NumbersInv'
BY NumbersLess DEF CalmStep, TypeInv

LEMMA NumbersSame ==
    ASSUME TypeInv, TypeInv', Prompt', NumbersInv,
           UNCHANGED <<info, parts, fragmentCount, lastEncodeTime, reports, encoder, held>>
    PROVE  NumbersInv'
<1>1. \A a : Of(a)' \subseteq Of(a)  BY OfSame
<1>. QED BY <1>1, CalmSame, NumbersCalm

LEMMA CalmElse ==
    ASSUME UNCHANGED <<info, parts, fragmentCount, lastEncodeTime, reports, encoder, held>>
    PROVE  CalmStep
<1>1. \A a : Of(a)' \subseteq Of(a)  BY OfSame
<1>. QED BY <1>1, CalmSame

\* All steps but encoding and what the transport does leave what is sent.
LEMMA CalmNext ==
    ASSUME Careful, Spaced, InTurn, TypeInv, TypeInv', ReportInv, BlockInv, PlanInv, PlanInv', TurnInv, [Next]_vars,
           ~EncodeActions, ~DoAction
    PROVE  CalmStep
<1>1. CASE Tick  BY <1>1, CalmElse DEF Tick, packageVars, actionVars
<1>2. CASE FetchTimeline
  <2>1. Kept(Packages)  BY <1>2, TurnFetch
  <2>2. UNCHANGED <<fragmentCount, lastEncodeTime, encoder, held, reports>>  BY <1>2, Zenon DEF FetchTimeline
  <2>. QED BY <2>1, <2>2, CalmKept
<1>3. CASE OnPackageStatusChanged  BY <1>3, CalmStatus
<1>4. ASSUME NEW p \in Packages, NEW r \in Reactive \union {NoAction}, SendPackage(p, r) PROVE CalmStep
  <2>1. Kept(Packages)  BY <1>4, TurnSend
  <2>2. UNCHANGED <<fragmentCount, lastEncodeTime, encoder, held, reports>>  BY <1>4, Zenon DEF SendPackage
  <2>. QED BY <2>1, <2>2, CalmKept
<1>5. ASSUME NEW a \in Actions, OnBytesEncoded(a) PROVE CalmStep  BY <1>5, CalmEncoded DEF BlockInv
<1>6. ASSUME NEW l \in Links, OnLinkCreated(l) PROVE CalmStep
  BY <1>6, CalmElse DEF OnLinkCreated, packageVars, actionVars
<1>7. ASSUME NEW l \in Links, OnLinkDestroyed(l) PROVE CalmStep  BY <1>7, CalmDestroyed
<1>8. ASSUME NEW l \in Links, Receive(l) PROVE CalmStep  BY <1>8, CalmElse DEF Receive, packageVars, actionVars
<1>9. ASSUME NEW l \in Links, Fault(l) PROVE CalmStep  BY <1>9, CalmElse DEF Fault, packageVars, actionVars
<1>10. CASE UNCHANGED vars  BY <1>10, CalmElse DEF vars, packageVars, actionVars
<1>. QED BY <1>1, <1>2, <1>3, <1>4, <1>5, <1>6, <1>7, <1>8, <1>9, <1>10 DEF Next

LEMMA NumbersKept ==
    ASSUME Careful, Spaced, InTurn, TypeInv, TypeInv', ReportInv, BlockInv, PlanInv, PlanInv', TurnInv,
           Prompt, Prompt', NumbersInv, [Next]_vars
    PROVE  NumbersInv'
<1>1. CASE EncodeActions  BY <1>1, NumbersEncode
<1>2. CASE DoAction  BY <1>2, NumbersDo
<1>3. CASE ~EncodeActions /\ ~DoAction
  <2>1. CalmStep  BY <1>3, CalmNext
  <2>. QED BY <2>1, NumbersCalm
<1>. QED BY <1>1, <1>2, <1>3

--------------------------------------------------------------------------------
(* What the receiving end will have made of all that is on its way.            *)

\* The receiving end takes the content v from the state s on, by the states r.
IsRun(r, s, v) == r[0] = s /\ \A k \in DOMAIN v : r[k] = After(r[k - 1], v[k])

HandedBy(r, v) == UNION {Hands(r[k - 1], v[k]) : k \in DOMAIN v}

Reaches(s, v, end, H) ==
    \E r \in [0 .. Len(v) -> Nat \X Seq(Pieces)] : IsRun(r, s, v) /\ end = r[Len(v)] /\ H = HandedBy(r, v)

LEMMA ReachNone ==
    ASSUME NEW s \in Nat \X Seq(Pieces), NEW v, v = <<>>
    PROVE  /\ Reaches(s, v, s, {})
           /\ \A end, H : Reaches(s, v, end, H) => end = s /\ H = {}
<1>1. Len(v) = 0 /\ DOMAIN v = {}  OBVIOUS
<1>2. PICK r : r = [k \in {0} |-> s]  OBVIOUS
<1>3. r \in [0 .. Len(v) -> Nat \X Seq(Pieces)] /\ r[0] = s  BY <1>1, <1>2
<1>4. HandedBy(r, v) = {}  BY <1>1 DEF HandedBy
<1>5. IsRun(r, s, v)  BY <1>1, <1>3 DEF IsRun
<1>6. Reaches(s, v, s, {})  BY <1>1, <1>3, <1>4, <1>5 DEF Reaches
<1>7. ASSUME NEW end, NEW H, Reaches(s, v, end, H) PROVE end = s /\ H = {}
  <2>1. PICK u : IsRun(u, s, v) /\ end = u[Len(v)] /\ H = HandedBy(u, v)  BY <1>7 DEF Reaches
  <2>. QED BY <1>1, <2>1 DEF IsRun, HandedBy
<1>. QED BY <1>6, <1>7

\* One more content on its way.
LEMMA ReachOn ==
    ASSUME NEW s, NEW v \in Seq(Contents), NEW end, NEW H, Reaches(s, v, end, H), NEW c \in Contents,
           After(end, c) \in Nat \X Seq(Pieces)
    PROVE  Reaches(s, Append(v, c), After(end, c), H \union Hands(end, c))
<1>1. PICK r \in [0 .. Len(v) -> Nat \X Seq(Pieces)] : IsRun(r, s, v) /\ end = r[Len(v)] /\ H = HandedBy(r, v)
  BY DEF Reaches
<1>2. PICK n \in Nat : n = Len(v)  BY Elements
<1>3. DOMAIN v = 1 .. n  BY <1>2, Elements
<1>4. PICK w : w = Append(v, c)  OBVIOUS
<1>5. Len(w) = n + 1 /\ DOMAIN w = 1 .. n + 1 /\ w[n + 1] = c /\ \A k \in 1 .. n : w[k] = v[k]
  <2>1. IsAppended(v, c, w)  BY <1>4, Appended
  <2>. QED BY <1>2, <2>1 DEF IsAppended
<1>6. PICK x \in Nat \X Seq(Pieces) : x = After(end, c)  OBVIOUS
<1>7. PICK u : u = [k \in 0 .. n + 1 |-> IF k = n + 1 THEN x ELSE r[k]]  OBVIOUS
<1>8. r \in [0 .. n -> Nat \X Seq(Pieces)] /\ end = r[n]  BY <1>1, <1>2
<1>9. u \in [0 .. n + 1 -> Nat \X Seq(Pieces)] /\ u[n + 1] = x /\ \A k \in 0 .. n : u[k] = r[k]
  <2>1. \A k \in 0 .. n + 1 : k # n + 1 => k \in 0 .. n  OBVIOUS
  <2>2. \A k \in 0 .. n : k \in 0 .. n + 1 /\ k # n + 1  OBVIOUS
  <2>3. n + 1 \in 0 .. n + 1  OBVIOUS
  <2>. QED BY <1>7, <1>8, <2>1, <2>2, <2>3
<1>10. \A k \in 1 .. n + 1 : k \in 1 .. n \/ k = n + 1  OBVIOUS
<1>11. \A k \in 1 .. n : k - 1 \in 0 .. n /\ k \in 0 .. n  OBVIOUS
<1>12. (n + 1) - 1 = n /\ n \in 0 .. n /\ 0 \in 0 .. n /\ n + 1 \in 1 .. n + 1 /\ \A k \in 1 .. n : k \in 1 .. n + 1
  OBVIOUS
<1>13. r[0] = s /\ \A k \in 1 .. n : r[k] = After(r[k - 1], v[k])  BY <1>1, <1>3 DEF IsRun
<1>14. IsRun(u, s, w)
  <2>1. u[0] = s  BY <1>9, <1>12, <1>13
  <2>2. ASSUME NEW k \in 1 .. n + 1 PROVE u[k] = After(u[k - 1], w[k])
    <3>1. CASE k \in 1 .. n
      <4>1. u[k] = r[k] /\ u[k - 1] = r[k - 1] /\ w[k] = v[k]  BY <1>5, <1>9, <1>11, <3>1
      <4>. QED BY <1>13, <3>1, <4>1
    <3>2. CASE k = n + 1
      <4>1. u[k] = x /\ u[k - 1] = end /\ w[k] = c  BY <1>5, <1>8, <1>9, <1>12, <3>2
      <4>. QED BY <1>6, <4>1
    <3>. QED BY <1>10, <3>1, <3>2
  <2>. QED BY <1>5, <2>1, <2>2 DEF IsRun
<1>15. HandedBy(u, w) = H \union Hands(end, c)
  <2>1. \A k \in 1 .. n : Hands(u[k - 1], w[k]) = Hands(r[k - 1], v[k])  BY <1>5, <1>9, <1>11
  <2>2. Hands(u[n], w[n + 1]) = Hands(end, c)  BY <1>5, <1>8, <1>9, <1>12
  <2>3. HandedBy(u, w) = UNION {Hands(u[k - 1], w[k]) : k \in 1 .. n + 1}  BY <1>5 DEF HandedBy
  <2>4. H = UNION {Hands(r[k - 1], v[k]) : k \in 1 .. n}  BY <1>1, <1>3 DEF HandedBy
  <2>. QED BY <1>10, <1>12, <2>1, <2>2, <2>3, <2>4
<1>. QED BY <1>4, <1>5, <1>6, <1>9, <1>14, <1>15 DEF Reaches

\* The first of the contents on their way is taken.
LEMMA ReachFirst ==
    ASSUME NEW s, NEW v \in Seq(Contents), v # <<>>, NEW end, NEW H, Reaches(s, v, end, H)
    PROVE  \E K : Reaches(After(s, Head(v)), Tail(v), end, K) /\ H = Hands(s, Head(v)) \union K
<1>1. PICK r \in [0 .. Len(v) -> Nat \X Seq(Pieces)] : IsRun(r, s, v) /\ end = r[Len(v)] /\ H = HandedBy(r, v)
  BY DEF Reaches
<1>2. PICK n \in Nat : Len(v) = n + 1
  <2>1. Len(v) \in Nat \ {0}  BY EmptySeq
  <2>2. Len(v) - 1 \in Nat /\ Len(v) = (Len(v) - 1) + 1  BY <2>1
  <2>. QED BY <2>2
<1>3. DOMAIN v = 1 .. n + 1  BY <1>2, Elements
<1>4. PICK w : w = Tail(v)  OBVIOUS
<1>5. DOMAIN w = 1 .. n /\ Len(w) = n /\ \A k \in 1 .. n : w[k] = v[k + 1]
  <2>1. w \in Seq(Contents) /\ Len(w) = Len(v) - 1 /\ \A k \in 1 .. Len(w) : w[k] = v[k + 1]
    BY <1>4, HeadTailProperties
  <2>2. Len(w) = n  BY <1>2, <2>1
  <2>. QED BY <2>1, <2>2, Elements
<1>6. PICK c : c = Head(v) /\ c = v[1]  OBVIOUS
<1>7. PICK u : u = [k \in 0 .. n |-> r[k + 1]]  OBVIOUS
<1>8. r \in [0 .. n + 1 -> Nat \X Seq(Pieces)] /\ end = r[n + 1]  BY <1>1, <1>2
<1>9. \A k \in 0 .. n : k + 1 \in 0 .. n + 1  OBVIOUS
<1>10. u \in [0 .. n -> Nat \X Seq(Pieces)] /\ \A k \in 0 .. n : u[k] = r[k + 1]
  BY <1>7, <1>8, <1>9
<1>11. \A k \in 1 .. n : k \in 0 .. n /\ k - 1 \in 0 .. n /\ (k - 1) + 1 = k /\ k + 1 \in 1 .. n + 1 /\ (k + 1) - 1 = k
  OBVIOUS
<1>12. 0 \in 0 .. n /\ n \in 0 .. n /\ 0 + 1 = 1 /\ 1 - 1 = 0 /\ 1 \in 1 .. n + 1  OBVIOUS
<1>13. \A k \in 1 .. n + 1 : k = 1 \/ (k - 1 \in 1 .. n /\ (k - 1) + 1 = k)  OBVIOUS
<1>14. r[0] = s /\ \A k \in 1 .. n + 1 : r[k] = After(r[k - 1], v[k])  BY <1>1, <1>3 DEF IsRun
<1>15. r[1] = After(s, c)  BY <1>6, <1>12, <1>14
<1>16. IsRun(u, After(s, c), w)
  <2>1. u[0] = After(s, c)  BY <1>10, <1>12, <1>15
  <2>2. ASSUME NEW k \in 1 .. n PROVE u[k] = After(u[k - 1], w[k])
    <3>1. u[k] = r[k + 1] /\ u[k - 1] = r[k] /\ w[k] = v[k + 1]  BY <1>5, <1>10, <1>11
    <3>2. r[k + 1] = After(r[k], v[k + 1])  BY <1>11, <1>14
    <3>. QED BY <3>1, <3>2
  <2>. QED BY <1>5, <2>1, <2>2 DEF IsRun
<1>17. end = u[Len(w)]  BY <1>5, <1>8, <1>10, <1>12
<1>18. PICK K : K = HandedBy(u, w)  OBVIOUS
<1>19. H = Hands(s, c) \union K
  <2>1. H = UNION {Hands(r[k - 1], v[k]) : k \in 1 .. n + 1}  BY <1>1, <1>3 DEF HandedBy
  <2>2. K = UNION {Hands(u[k - 1], w[k]) : k \in 1 .. n}  BY <1>5, <1>18 DEF HandedBy
  <2>3. ASSUME NEW k \in 1 .. n PROVE Hands(u[k - 1], w[k]) = Hands(r[(k + 1) - 1], v[k + 1])
    <3>1. u[k - 1] = r[k]  BY <1>10, <1>11
    <3>2. w[k] = v[k + 1] /\ (k + 1) - 1 = k  BY <1>5, <1>11
    <3>. QED BY <3>1, <3>2
  <2>4. Hands(r[1 - 1], v[1]) = Hands(s, c)  BY <1>6, <1>12, <1>14
  <2>5. H \subseteq Hands(s, c) \union K
    <3>1. ASSUME NEW k \in 1 .. n + 1 PROVE Hands(r[k - 1], v[k]) \subseteq Hands(s, c) \union K
      <4>1. CASE k = 1  BY <2>4, <4>1
      <4>2. CASE k # 1
        <5>1. PICK m : m = k - 1  OBVIOUS
        <5>2. m \in 1 .. n /\ m + 1 = k  BY <1>13, <4>2, <5>1
        <5>3. Hands(r[k - 1], v[k]) = Hands(u[m - 1], w[m])  BY <2>3, <5>2
        <5>. QED BY <2>2, <5>2, <5>3
      <4>. QED BY <4>1, <4>2
    <3>. QED BY <2>1, <3>1
  <2>6. Hands(s, c) \subseteq H  BY <1>12, <2>1, <2>4
  <2>7. K \subseteq H
    <3>1. ASSUME NEW k \in 1 .. n PROVE Hands(u[k - 1], w[k]) \subseteq H
      <4>1. k + 1 \in 1 .. n + 1  BY <1>11
      <4>. QED BY <2>1, <2>3, <4>1
    <3>. QED BY <2>2, <3>1
  <2>. QED BY <2>5, <2>6, <2>7
<1>20. u \in [0 .. Len(w) -> Nat \X Seq(Pieces)]  BY <1>5, <1>10
<1>21. Reaches(After(s, c), w, end, K)  BY <1>16, <1>17, <1>18, <1>20 DEF Reaches
<1>. QED BY <1>4, <1>6, <1>19, <1>21

\* The state s is one the stream of the link l may have left.
InEnds(l, s) ==
    s \in Nat \X Seq(Pieces) /\ (s[2] # <<>> => Tiled(s[2]) /\ <<s[1], Last(s[2])>> \in EndsOf(l))

LEMMA GoesOnFrom ==
    ASSUME StreamInv, NEW l \in Links, NEW s, InEnds(l, s), NEW c \in Existing(l), c \in Contents
    PROVE  WellCut(c) /\ GoesOnWith(s, c) /\ ReceivesWell(s, c) /\ InEnds(l, After(s, c))
<1>1. InStream(Existing(l), EndsOf(l), fragmentCount[l], info, parts, lastEncodeTime, l)  BY DEF StreamInv
<1>2. WellCut(c)  BY <1>1 DEF InStream
<1>3. GoesOnWith(s, c)
  <2>1. ASSUME s[2] # <<>>, c.continueLast, c.id = s[1] + 1
        PROVE  Tiled(s[2]) /\ GoesOn(Last(s[2]), c.data[1])
    <3>1. PICK e : e = <<s[1], Last(s[2])>>  OBVIOUS
    <3>2. e \in EndsOf(l) /\ Tiled(s[2])  BY <2>1, <3>1 DEF InEnds
    <3>3. GoesOn(e[2], c.data[1])  BY <1>1, <2>1, <3>1, <3>2 DEF InStream
    <3>. QED BY <3>1, <3>2, <3>3
  <2>. QED BY <2>1 DEF GoesOnWith
<1>4. ReceivesWell(s, c)  BY <1>2, <1>3, ReceivedIs DEF InEnds
<1>5. PICK x : x = After(s, c)  OBVIOUS
<1>6. x \in Nat \X Seq(Pieces) /\ x[1] = c.id /\ (x[2] # <<>> => Tiled(x[2]) /\ Last(x[2]) = Last(c.data))
  BY <1>4, <1>5 DEF ReceivesWell
<1>7. <<c.id, Last(c.data)>> \in EndsOf(l)  BY DEF EndsOf
<1>8. InEnds(l, x)  BY <1>6, <1>7 DEF InEnds
<1>. QED BY <1>2, <1>3, <1>4, <1>5, <1>8

\* What the receiving end makes of all that is on its way is so, too.
LEMMA RunsWell ==
    ASSUME TypeInv, StreamInv, NEW l \in Links, NEW end, NEW H, Reaches(<<last[l], pending[l]>>, wire[l], end, H)
    PROVE  InEnds(l, end)
<1>1. PICK s : s = <<last[l], pending[l]>>  OBVIOUS
<1>2. PICK v : v = wire[l]  OBVIOUS
<1>3. v \in Seq(Contents) /\ last[l] \in Nat /\ pending[l] \in Seq(Pieces)  BY <1>2 DEF TypeInv, TypeOK
<1>4. PICK r : IsRun(r, s, v) /\ end = r[Len(v)]  BY <1>1, <1>2 DEF Reaches
<1>5. PICK n \in Nat : n = Len(v) /\ DOMAIN v = 1 .. n  BY <1>3, Elements
<1>6. PICK P : P = [k \in 0 .. n |-> {x \in Nat \X Seq(Pieces) : InEnds(l, x)}]  OBVIOUS
<1>7. \A k \in 0 .. n : P[k] = {x \in Nat \X Seq(Pieces) : InEnds(l, x)}  BY <1>6
<1>8. \A k \in 0 .. n : \A x : x \in P[k] <=> InEnds(l, x)  BY <1>7 DEF InEnds
<1>9. \A k \in 1 .. n : k \in 0 .. n /\ k - 1 \in 0 .. n  OBVIOUS
<1>10. 0 \in 0 .. n /\ n \in 0 .. n  OBVIOUS
<1>11. InEnds(l, s)
  <2>1. pending[l] # <<>> => Tiled(pending[l]) /\ <<last[l], Last(pending[l])>> \in EndsOf(l)
    BY DEF StreamInv, EndsOf
  <2>. QED BY <1>1, <1>3, <2>1 DEF InEnds
<1>12. r[0] \in P[0]  BY <1>4, <1>8, <1>10, <1>11 DEF IsRun
<1>13. ASSUME NEW k \in 1 .. n, r[k - 1] \in P[k - 1] PROVE r[k] \in P[k]
  <2>1. InEnds(l, r[k - 1])  BY <1>8, <1>9, <1>13
  <2>2. PICK c : c = v[k]  OBVIOUS
  <2>3. c \in Contents /\ c \in Existing(l)  BY <1>2, <1>3, <1>5, <2>2, Elements DEF Existing, ToSet
  <2>4. InEnds(l, After(r[k - 1], c))  BY <2>1, <2>3, GoesOnFrom
  <2>5. r[k] = After(r[k - 1], c)  BY <1>4, <1>5, <2>2 DEF IsRun
  <2>. QED BY <1>8, <1>9, <2>4, <2>5
<1>14. \A k \in 0 .. n : r[k] \in P[k]  BY <1>12, <1>13, KeptAlong
<1>. QED BY <1>4, <1>5, <1>8, <1>10, <1>14

\* If the content c begins with the k-th of its pieces in the middle of a package, the
\* receiving end is waiting for it.
WaitsFor(s, c, k) == k = 1 /\ c.data[1].off # 0 => c.id = s[1] + 1 /\ s[2] # <<>>

\* What the receiving end makes of the k-th piece.
HandsOver(s, c, k) ==
    /\ Ends(c.data[k]) = Size[c.data[k].pkg]
           => \E d \in Hands(s, c) : d # <<>> /\ d[1].pkg = c.data[k].pkg /\ WholePackage(d)
    /\ Ends(c.data[k]) # Size[c.data[k].pkg] => After(s, c)[2] # <<>>

LEMMA TakesIt ==
    ASSUME NEW c \in Contents, WellCut(c), NEW s, NEW k \in DOMAIN c.data, WaitsFor(s, c, k)
    PROVE  \E m \in DOMAIN Taken(s, c) : Taken(s, c)[m] = c.data[k]
<1>1. c.data \in Seq(Pieces) /\ c.data # <<>>  BY DEF Contents, WellCut
<1>2. DOMAIN c.data = 1 .. Len(c.data) /\ Len(c.data) \in Nat  BY <1>1, Elements
<1>3. CASE Taken(s, c) = c.data  BY <1>3
<1>4. CASE Taken(s, c) # c.data
  <2>1. Taken(s, c) = Tail(c.data) /\ c.continueLast /\ Joined(s, c) = <<>>  BY <1>4 DEF Taken
  <2>2. c.data[1].off # 0  BY <2>1 DEF WellCut
  <2>3. k # 1
    <3>1. SUFFICES ASSUME k = 1 PROVE FALSE  OBVIOUS
    <3>2. c.id = s[1] + 1 /\ s[2] # <<>>  BY <2>2, <3>1 DEF WaitsFor
    <3>. QED BY <2>1, <3>2 DEF Joined
  <2>4. PICK t : t = Tail(c.data)  OBVIOUS
  <2>5. t \in Seq(Pieces) /\ Len(t) = Len(c.data) - 1 /\ \A m \in 1 .. Len(t) : t[m] = c.data[m + 1]
    BY <1>1, <2>4, HeadTailProperties
  <2>6. DOMAIN t = 1 .. Len(c.data) - 1  BY <2>5, Elements
  <2>7. k - 1 \in DOMAIN t /\ (k - 1) + 1 = k /\ k - 1 \in 1 .. Len(t)  BY <1>2, <2>3, <2>5, <2>6
  <2>8. t[k - 1] = c.data[k]  BY <2>5, <2>7
  <2>. QED BY <2>1, <2>4, <2>7, <2>8
<1>. QED BY <1>3, <1>4

LEMMA HandedOver ==
    ASSUME NEW c \in Contents, WellCut(c), NEW s \in Nat \X Seq(Pieces), GoesOnWith(s, c),
           NEW k \in DOMAIN c.data, WaitsFor(s, c, k)
    PROVE  HandsOver(s, c, k)
<1>1. TakenOf(s, c) /\ ReceivesWell(s, c)  BY TakenIs, ReceivedIs
<1>2. PICK t : t = Taken(s, c)  OBVIOUS
<1>3. PICK r : r = Parcels(s, c)  OBVIOUS
<1>4. PICK n : n = Len(t)  OBVIOUS
<1>5. /\ r \in Seq(Seq(Pieces)) /\ DOMAIN r = 1 .. n /\ Len(r) = n /\ n \in Nat /\ DOMAIN t = 1 .. n
      /\ t = <<>> <=> n = 0
  BY <1>1, <1>2, <1>3, <1>4, ParcelSeq
<1>6. PICK m \in 1 .. n : t[m] = c.data[k]  BY <1>2, <1>5, TakesIt
<1>7. /\ r[m] \in Seq(Pieces) /\ r[m] # <<>> /\ Tiled(r[m]) /\ Last(r[m]) = t[m]
  BY <1>1, <1>2, <1>3, <1>5, <1>6, ParcelIs DEF IsParcel
<1>8. n # 0 /\ t # <<>>  BY <1>5, <1>6
<1>9. Last(t) = Last(c.data) /\ Last(t) = t[n]  BY <1>1, <1>2, <1>4, <1>8 DEF TakenOf, Last
<1>10. PICK x : x = Last(c.data)  OBVIOUS
<1>11. c.data # <<>> /\ c.data \in Seq(Pieces)  BY DEF WellCut, Contents
<1>12. /\ Len(c.data) \in DOMAIN c.data /\ x = c.data[Len(c.data)]
       /\ DOMAIN c.data = 1 .. Len(c.data)
  BY <1>10, <1>11, EmptySeq, Elements DEF Last
<1>13. PICK o : o = StaysOpen(s, c)  OBVIOUS
<1>14. ASSUME Ends(c.data[k]) = Size[c.data[k].pkg]
       PROVE  \E d \in Hands(s, c) : d # <<>> /\ d[1].pkg = c.data[k].pkg /\ WholePackage(d)
  <2>1. PICK d : d = r[m]  OBVIOUS
  <2>2. d \in Seq(Pieces) /\ d # <<>> /\ Tiled(d) /\ Last(d) = c.data[k]  BY <1>6, <1>7, <2>1
  <2>3. d[1].pkg = c.data[k].pkg
    <3>1. Len(d) \in DOMAIN d /\ Last(d) = d[Len(d)]  BY <2>2, EmptySeq, Elements DEF Last
    <3>. QED BY <2>2, <3>1 DEF Tiled
  <2>4. WholePackage(d)  BY <1>14, <2>2, TiledWhole
  <2>5. CASE ~o
    <3>1. Hands(s, c) = ToSet(r)  BY <1>3, <1>13, <2>5 DEF Hands
    <3>2. d \in ToSet(r)  BY <1>5, <1>6, <2>1 DEF ToSet
    <3>. QED BY <2>2, <2>3, <2>4, <3>1, <3>2
  <2>6. CASE o
    <3>1. PICK f : f = Front(r)  OBVIOUS
    <3>2. Hands(s, c) = ToSet(f)  BY <1>3, <1>13, <2>6, <3>1 DEF Hands
    <3>3. m # n
      <4>1. SUFFICES ASSUME m = n PROVE FALSE  OBVIOUS
      <4>2. x = c.data[k]  BY <1>6, <1>9, <1>10, <4>1
      <4>3. c.continueNext  BY <1>13, <2>6 DEF StaysOpen
      <4>4. c.continueNext = (Ends(x) < Size[x.pkg])  BY <1>10 DEF WellCut
      <4>5. Ends(x) < Size[x.pkg]  BY <4>3, <4>4
      <4>6. Ends(x) = Size[x.pkg] /\ Size[x.pkg] \in Nat
        <5>1. x \in Pieces  BY <1>11, <1>12, Elements
        <5>2. x.pkg \in Packages  BY <5>1 DEF Pieces
        <5>. QED BY <1>14, <4>2, <5>2, PackagesAssumption
      <4>7. PICK u \in Nat : u = Ends(x) /\ u = Size[x.pkg]  BY <4>6
      <4>. QED BY <4>5, <4>7
    <3>4. f = SubSeq(r, 1, n - 1)  BY <1>5, <3>1 DEF Front
    <3>5. n - 1 \in Nat /\ n - 1 <= Len(r)  BY <1>5, <1>8
    <3>6. DOMAIN f = 1 .. n - 1 /\ \A j \in 1 .. n - 1 : f[j] = r[j]  BY <1>5, <3>4, <3>5
    <3>7. m \in 1 .. n - 1  BY <1>5, <1>6, <3>3
    <3>8. d \in ToSet(f)  BY <2>1, <3>6, <3>7 DEF ToSet
    <3>. QED BY <2>2, <2>3, <2>4, <3>2, <3>8
  <2>. QED BY <2>5, <2>6
<1>15. ASSUME Ends(c.data[k]) # Size[c.data[k].pkg] PROVE After(s, c)[2] # <<>>
  <2>1. k = Len(c.data)  BY <1>15 DEF WellCut
  <2>2. x = c.data[k]  BY <1>12, <2>1
  <2>3. x \in Pieces /\ x.pkg \in Packages
    <3>1. x \in Pieces  BY <1>11, <1>12, Elements
    <3>. QED BY <3>1 DEF Pieces
  <2>4. Ends(x) \in Nat /\ Size[x.pkg] \in Nat  BY <2>3, PackagesAssumption DEF Ends, Pieces
  <2>5. Ends(x) <= Size[x.pkg]  BY <2>2 DEF WellCut
  <2>6. PICK u \in Nat, v \in Nat : u = Ends(x) /\ v = Size[x.pkg]  BY <2>4
  <2>7. u <= v /\ u # v  BY <1>15, <2>2, <2>5, <2>6
  <2>8. u < v  BY <2>7
  <2>9. c.continueNext = (Ends(x) < Size[x.pkg])  BY <1>10 DEF WellCut
  <2>10. c.continueNext  BY <2>6, <2>8, <2>9
  <2>11. StaysOpen(s, c)  BY <1>2, <1>8, <2>10 DEF StaysOpen
  <2>12. After(s, c)[2] = Last(r)  BY <1>3, <2>11 DEF After
  <2>13. Last(r) = r[n]  BY <1>5 DEF Last
  <2>14. n \in 1 .. n  BY <1>5, <1>8
  <2>15. r[n] # <<>>  BY <1>1, <1>2, <1>3, <1>5, <2>14, ParcelIs DEF IsParcel
  <2>. QED BY <2>12, <2>13, <2>15
<1>. QED BY <1>14, <1>15 DEF HandsOver

--------------------------------------------------------------------------------
(* What is sent arrives.  When all that was done of a package was sent, the     *)
(* receiving end will have put all of it together once it has taken what is on   *)
(* its way, and waits for the rest.                                             *)

Got(p, H) == \E d \in H : d # <<>> /\ d[1].pkg = p /\ WholePackage(d)

\* What was done of the package p is its first k fragments, and they were sent.
AllSent(p, k) ==
    /\ \A j \in 1 .. k : DoneSent(parts[p][j], ToSet(reports))
    /\ k + 1 \in DOMAIN parts[p] => parts[p][k + 1].action # NoAction

Outcome(p, k, end, H) ==
    IF parts[p][k].off + parts[p][k].len = Size[p] THEN Got(p, H)
    ELSE end[2] # <<>> /\ NumberedNow(p, k, end[1] + 1)

Arrives(l, end, H) ==
    \A p \in Packages : Route[p] = l =>
        /\ told[p] = <<"PACKAGE_SENT">> => Got(p, H)
        /\ \A k \in DOMAIN parts[p] : AllSent(p, k) => Outcome(p, k, end, H)

SentInv ==
    spent["faults"] = 0 =>
        \A l \in Links : \E end, H, G : /\ Reaches(<<last[l], pending[l]>>, wire[l], end, H)
                                        /\ G = delivered \union H /\ Arrives(l, end, G)

LEMMA GotMore ==
    ASSUME NEW p, NEW G, Got(p, G), NEW H, G \subseteq H
    PROVE  Got(p, H)
BY DEF Got

\* What is sent after a calm step was so before.
LEMMA SentBefore ==
    ASSUME TypeInv, TypeInv', CalmStep, NEW p \in Packages, NEW k \in DOMAIN parts'[p], AllSent(p, k)'
    PROVE  /\ k \in DOMAIN parts[p] /\ AllSent(p, k) /\ Enc(info', parts'[p][k], lastEncodeTime)
           /\ parts'[p][k].off = parts[p][k].off /\ parts'[p][k].len = parts[p][k].len
<1>1. EncodedAlike(info, parts, info', parts', lastEncodeTime) /\ SameDone  BY DEF CalmStep, LessEncoded
<1>2. DOMAIN parts'[p] = 1 .. Len(parts'[p]) /\ Len(parts'[p]) \in Nat
  <2>1. parts'[p] \in Seq(Fragments)  BY DEF TypeInv, TypeOK
  <2>. QED BY <2>1, Elements
<1>3. \A j \in 1 .. k : j \in DOMAIN parts'[p]  BY <1>2
<1>4. k \in 1 .. k  BY <1>2
<1>5. ASSUME NEW j \in 1 .. k
      PROVE  DoneSent(parts[p][j], ToSet(reports)) /\ Enc(info', parts'[p][j], lastEncodeTime)
  <2>1. DoneSent(parts'[p][j], ToSet(reports'))  BY <1>5 DEF AllSent, ToSet
  <2>2. Enc(info', parts'[p][j], lastEncodeTime)  BY <2>1 DEF DoneSent, Enc
  <2>. QED BY <1>1, <1>3, <2>1, <2>2 DEF SameDone
<1>6. Enc(info', parts'[p][k], lastEncodeTime)  BY <1>4, <1>5
<1>7. /\ k \in DOMAIN parts[p]
      /\ parts'[p][k].off = parts[p][k].off /\ parts'[p][k].len = parts[p][k].len
      /\ k + 1 \in DOMAIN parts[p] /\ Enc(info, parts[p][k + 1], lastEncodeTime)
             => k + 1 \in DOMAIN parts'[p] /\ Enc(info', parts'[p][k + 1], lastEncodeTime)
  BY <1>1, <1>6 DEF EncodedAlike
<1>8. ASSUME k + 1 \in DOMAIN parts[p], parts[p][k + 1].action = NoAction PROVE FALSE
  <2>1. k + 1 \in DOMAIN parts'[p] /\ Enc(info', parts'[p][k + 1], lastEncodeTime)  BY <1>7, <1>8 DEF Enc
  <2>2. parts'[p][k + 1].action = NoAction  BY <1>1, <1>8, <2>1 DEF SameDone
  <2>3. k + 1 \in DOMAIN parts'[p] => parts'[p][k + 1].action # NoAction  BY DEF AllSent
  <2>. QED BY <2>1, <2>2, <2>3
<1>9. AllSent(p, k)  BY <1>5, <1>8 DEF AllSent
<1>. QED BY <1>6, <1>7, <1>9

LEMMA ArrivesCalm ==
    ASSUME TypeInv, TypeInv', CalmStep, NEW l, NEW end, NEW H, Arrives(l, end, H),
           \A p \in Packages : Route[p] = l /\ told'[p] = <<"PACKAGE_SENT">> => Got(p, H)
    PROVE  Arrives(l, end, H)'
<1>1. ASSUME NEW p \in Packages, Route[p] = l, NEW k \in DOMAIN parts'[p], AllSent(p, k)'
      PROVE  Outcome(p, k, end, H)'
  <2>1. /\ k \in DOMAIN parts[p] /\ AllSent(p, k) /\ Enc(info', parts'[p][k], lastEncodeTime)
        /\ parts'[p][k].off = parts[p][k].off /\ parts'[p][k].len = parts[p][k].len
    BY <1>1, SentBefore
  <2>2. Outcome(p, k, end, H)  BY <1>1, <2>1 DEF Arrives
  <2>3. CASE parts[p][k].off + parts[p][k].len = Size[p]  BY <2>1, <2>2, <2>3 DEF Outcome, Got, WholePackage
  <2>4. CASE parts[p][k].off + parts[p][k].len # Size[p]
    <3>1. end[2] # <<>> /\ NumberedNow(p, k, end[1] + 1)  BY <2>2, <2>4 DEF Outcome
    <3>2. PICK n : n = end[1] + 1  OBVIOUS
    <3>3. NumberedNow(p, k, n)'  BY <1>1, <2>1, <3>1, <3>2, NumberedKept DEF CalmStep, TypeInv
    <3>. QED BY <2>1, <2>4, <3>1, <3>2, <3>3 DEF Outcome
  <2>. QED BY <2>3, <2>4
<1>. QED BY <1>1 DEF Arrives, Got, WholePackage

\* What the SDK is told after the step is there.
ToldGot ==
    \A l \in Links : \A end, H : Arrives(l, end, H)
        => \A p \in Packages : Route[p] = l /\ told'[p] = <<"PACKAGE_SENT">> => Got(p, H)

LEMMA SentCalm ==
    ASSUME TypeInv, TypeInv', CalmStep, SentInv, UNCHANGED <<wire, last, pending, delivered>>,
           spent'["faults"] = spent["faults"], ToldGot
    PROVE  SentInv'
<1>1. ASSUME spent'["faults"] = 0, NEW l \in Links
      PROVE  \E end, H, G : /\ Reaches(<<last'[l], pending'[l]>>, wire'[l], end, H)
                            /\ G = delivered' \union H /\ Arrives(l, end, G)'
  <2>1. PICK end, H, G : /\ Reaches(<<last[l], pending[l]>>, wire[l], end, H)
                         /\ G = delivered \union H /\ Arrives(l, end, G)
    BY <1>1 DEF SentInv
  <2>2. \A p \in Packages : Route[p] = l /\ told'[p] = <<"PACKAGE_SENT">> => Got(p, G)
    BY <2>1 DEF ToldGot
  <2>3. Arrives(l, end, G)'  BY <2>1, <2>2, ArrivesCalm
  <2>. QED BY <2>1, <2>3
<1>. QED BY <1>1 DEF SentInv

LEMMA ToldSame ==
    ASSUME UNCHANGED told
    PROVE  ToldGot
BY DEF ToldGot, Arrives

LEMMA ArrivesMore ==
    ASSUME NEW l, NEW end, NEW G, Arrives(l, end, G), NEW H, G \subseteq H
    PROVE  Arrives(l, end, H)
<1>1. \A p : Got(p, G) => Got(p, H)  BY GotMore
<1>2. \A p, k : Outcome(p, k, end, G) => Outcome(p, k, end, H)  BY <1>1 DEF Outcome
<1>. QED BY <1>1, <1>2 DEF Arrives

LEMMA AppendOne ==
    ASSUME NEW T, NEW v \in Seq(T), NEW x \in T, NEW y, Append(v, x) = <<y>>
    PROVE  x = y
<1>1. PICK w : w = Append(v, x)  OBVIOUS
<1>2. IsAppended(v, x, w)  BY <1>1, Appended
<1>3. w = <<y>>  BY <1>1
<1>4. Len(w) = 1 /\ w[1] = y  BY <1>3
<1>5. Len(v) + 1 = 1 /\ w[Len(v) + 1] = x  BY <1>2, <1>4 DEF IsAppended
<1>. QED BY <1>4, <1>5

\* A package reported as sent was sent in full.
LEMMA FinishedSent ==
    ASSUME TypeInv, PlanInv, FreshInv, reports # <<>>, reports' = Tail(reports), NEW p \in Packages, Finishes(p),
           told'[p] = <<"PACKAGE_SENT">>, NEW end, NEW H, Arrives(Route[p], end, H)
    PROVE  Got(p, H)
<1>1. /\ Finished(p, Updated(p)) /\ told' = [told EXCEPT ![p] = Append(@, Head(reports)[2])]
  BY DEF Finishes
<1>2. TypeOK  BY DEF TypeInv
<1>3. /\ Head(reports) \in ToSet(reports) /\ Head(reports)[1] \in ToldHandles
      /\ Head(reports) = <<Head(reports)[1], Head(reports)[2]>> /\ Head(reports)[2] \in Statuses
  BY <1>2, ReportTaken
<1>4. Head(reports)[2] = "PACKAGE_SENT"
  <2>1. told[p] \in Seq(Statuses)  BY <1>2 DEF TypeOK
  <2>2. told'[p] = Append(told[p], Head(reports)[2])  BY <1>1, <1>2 DEF TypeOK
  <2>. QED BY <1>3, <2>1, <2>2, AppendOne
<1>5. PICK h : h = Head(reports)[1]  OBVIOUS
<1>6. Updated(p) = SetState(p, {h}, "SENT")  BY <1>4, <1>5 DEF Updated
<1>7. /\ SetState(p, {h}, "SENT") \in Seq(Fragments) /\ DOMAIN SetState(p, {h}, "SENT") = DOMAIN parts[p]
      /\ Len(SetState(p, {h}, "SENT")) = Len(parts[p])
  BY <1>2, SetStateIs DEF FragmentStates
<1>8. PICK u \in Seq(Fragments) : u = Updated(p) /\ DOMAIN u = DOMAIN parts[p] /\ Len(u) = Len(parts[p])
  BY <1>6, <1>7
<1>9. \A k \in DOMAIN parts[p] :
          /\ u[k].h = parts[p][k].h /\ u[k].off = parts[p][k].off /\ u[k].len = parts[p][k].len
          /\ u[k].action = parts[p][k].action
          /\ u[k].state = IF parts[p][k].h = h THEN "SENT" ELSE parts[p][k].state
  <2>1. ASSUME NEW k \in DOMAIN parts[p]
        PROVE  /\ u[k].h = parts[p][k].h /\ u[k].off = parts[p][k].off /\ u[k].len = parts[p][k].len
               /\ u[k].action = parts[p][k].action
               /\ u[k].state = IF parts[p][k].h \in {h} THEN "SENT" ELSE parts[p][k].state
    BY <1>2, <1>6, <1>8, SetStateIs DEF FragmentStates
  <2>. QED BY <2>1
<1>10. \A k \in DOMAIN u : u[k].state # "FAILED"  BY <1>8, <1>9 DEF FreshInv
<1>11. Covered(u) = Size[p] /\ \A k \in DOMAIN u : u[k].state = "SENT"  BY <1>1, <1>8, <1>10 DEF Finished
<1>12. PICK n \in Nat : n = Len(parts[p]) /\ DOMAIN parts[p] = 1 .. n  BY PlanNow
<1>13. u # <<>>
  <2>1. u = <<>> => Covered(u) = 0  BY DEF Covered
  <2>2. Size[p] # 0  BY PackagesAssumption
  <2>. QED BY <1>11, <2>1, <2>2
<1>14. n \in DOMAIN u /\ Last(u) = u[n] /\ n \in DOMAIN parts[p]
  <2>1. n # 0  BY <1>8, <1>12, <1>13, EmptySeq
  <2>2. n \in 1 .. n  BY <2>1
  <2>. QED BY <1>8, <1>12, <2>2 DEF Last
<1>15. parts[p][n].off + parts[p][n].len = Size[p]
  <2>1. Covered(u) = u[n].off + u[n].len  BY <1>13, <1>14 DEF Covered
  <2>. QED BY <1>9, <1>11, <1>14, <2>1
<1>16. ASSUME NEW j \in 1 .. n PROVE DoneSent(parts[p][j], ToSet(reports))
  <2>1. PICK f : f = parts[p][j]  OBVIOUS
  <2>2. f.h = h \/ f.state = "SENT"  BY <1>8, <1>9, <1>11, <1>12, <2>1
  <2>3. f.action # NoAction => f.h \notin ToldHandles /\ f.state # "SENT"  BY <1>12, <2>1 DEF FreshInv
  <2>4. f.action = NoAction  BY <1>3, <1>5, <2>2, <2>3
  <2>5. f.h = h => <<f.h, "PACKAGE_SENT">> \in ToSet(reports)  BY <1>3, <1>4, <1>5
  <2>. QED BY <2>1, <2>2, <2>4, <2>5 DEF DoneSent
<1>17. n + 1 \notin DOMAIN parts[p]  BY <1>12
<1>18. AllSent(p, n)  BY <1>16, <1>17 DEF AllSent
<1>19. Outcome(p, n, end, H)  BY <1>14, <1>18 DEF Arrives
<1>. QED BY <1>15, <1>19 DEF Outcome

LEMMA SentStatus ==
    ASSUME Careful, Spaced, TypeInv, TypeInv', ReportInv, PlanInv, TurnInv, FreshInv, SentInv, OnPackageStatusChanged
    PROVE  SentInv'
<1>1. /\ reports # <<>> /\ reports' = Tail(reports)
      /\ UNCHANGED <<wire, last, pending, delivered, spent>>
      /\ \/ UNCHANGED told \/ \E p \in Packages : Finishes(p)
  BY StatusKept DEF Restates
<1>2. CalmStep  BY CalmStatus
<1>3. ToldGot
  <2>1. CASE UNCHANGED told  BY <2>1, ToldSame
  <2>2. ASSUME NEW p \in Packages, Finishes(p) PROVE ToldGot
    <3>1. told' = [told EXCEPT ![p] = Append(@, Head(reports)[2])]  BY <2>2 DEF Finishes
    <3>2. \A q \in Packages : q # p => told'[q] = told[q]  BY <3>1 DEF TypeInv, TypeOK
    <3>3. ASSUME NEW l \in Links, NEW end, NEW H, Arrives(l, end, H), NEW q \in Packages, Route[q] = l,
                 told'[q] = <<"PACKAGE_SENT">>
          PROVE  Got(q, H)
      <4>1. CASE q # p  BY <3>2, <3>3, <4>1 DEF Arrives
      <4>2. CASE q = p  BY <1>1, <2>2, <3>3, <4>2, FinishedSent
      <4>. QED BY <4>1, <4>2
    <3>. QED BY <3>3 DEF ToldGot
  <2>. QED BY <1>1, <2>1, <2>2
<1>. QED BY <1>1, <1>2, <1>3, SentCalm

LEMMA SentDestroyed ==
    ASSUME Careful, TypeInv, TypeInv', ReportInv, BlockInv, PlanInv, PlanInv', SentInv,
           NEW l \in Links, OnLinkDestroyed(l)
    PROVE  SentInv'
<1>1. CalmStep  BY CalmDestroyed
<1>2. UNCHANGED <<wire, last, pending, delivered, spent>>  BY DEF OnLinkDestroyed, receiveVars
<1>3. told' = [p \in Packages |-> IF p \in ToSet(packageQueue[l]) THEN Append(told[p], "PACKAGE_FAILED_GENERIC")
                                  ELSE told[p]]
  BY DEF OnLinkDestroyed
<1>4. ASSUME NEW q \in Packages, told'[q] = <<"PACKAGE_SENT">> PROVE told[q] = <<"PACKAGE_SENT">>
  <2>1. CASE q \notin ToSet(packageQueue[l])  BY <1>3, <1>4, <2>1
  <2>2. CASE q \in ToSet(packageQueue[l])
    <3>1. told[q] \in Seq(Statuses) /\ "PACKAGE_FAILED_GENERIC" \in Statuses  BY DEF TypeInv, TypeOK, Statuses
    <3>2. Append(told[q], "PACKAGE_FAILED_GENERIC") = <<"PACKAGE_SENT">>  BY <1>3, <1>4, <2>2
    <3>3. "PACKAGE_FAILED_GENERIC" = "PACKAGE_SENT"  BY <3>1, <3>2, AppendOne
    <3>. QED BY <3>3
  <2>. QED BY <2>1, <2>2
<1>5. ToldGot  BY <1>4 DEF ToldGot, Arrives
<1>. QED BY <1>1, <1>2, <1>5, SentCalm

\* An encoding sends nothing.
LEMMA SentEncode ==
    ASSUME Spaced, TypeInv, ReportInv, PlanInv, TurnInv, Prompt, SentInv, EncodeActions
    PROVE  SentInv'
<1>1. PICK a : Encoding(a)  BY EncodingIs
<1>2. Restated(parts, parts')  BY <1>1 DEF Encoding
<1>3. UNCHANGED <<told, wire, receiveVars, spent, reports>>  BY Zenon DEF EncodeActions
<1>4. PICK hs : parts' = [p \in Packages |-> SetState(p, hs, "ENCODING")]  BY EncodeIs DEF TypeInv
<1>5. \A p \in Packages : \A k \in DOMAIN parts[p] : parts'[p][k].state = "SENT" => parts[p][k].state = "SENT"
  <2>1. ASSUME NEW p \in Packages, NEW k \in DOMAIN parts[p], parts'[p][k].state = "SENT"
        PROVE  parts[p][k].state = "SENT"
    <3>1. parts'[p][k].state = IF parts[p][k].h \in hs THEN "ENCODING" ELSE parts[p][k].state
      BY <1>4, SetStateIs DEF TypeInv, FragmentStates
    <3>. QED BY <2>1, <3>1
  <2>. QED BY <2>1
<1>6. ASSUME NEW p \in Packages, NEW k \in DOMAIN parts'[p], AllSent(p, k)'
      PROVE  /\ k \in DOMAIN parts[p] /\ AllSent(p, k) /\ Enc(info, parts[p][k], lastEncodeTime)
             /\ parts'[p][k].off = parts[p][k].off /\ parts'[p][k].len = parts[p][k].len
             /\ k + 1 \in DOMAIN parts[p] => parts[p][k + 1].action # NoAction
  <2>1. DOMAIN parts'[p] = DOMAIN parts[p]  BY <1>2 DEF Restated
  <2>2. k \in DOMAIN parts[p] /\ \A j \in 1 .. k : j \in DOMAIN parts[p]  BY <1>6, <2>1, PlanNow
  <2>3. k \in 1 .. k  BY <2>2, PlanNow
  <2>4. ASSUME NEW j \in 1 .. k PROVE DoneSent(parts[p][j], ToSet(reports))
    <3>1. DoneSent(parts'[p][j], ToSet(reports'))  BY <1>6, <2>4 DEF AllSent, ToSet
    <3>2. parts'[p][j].h = parts[p][j].h /\ parts'[p][j].action = parts[p][j].action
      BY <1>2, <2>2, <2>4 DEF Restated
    <3>3. ToSet(reports') = ToSet(reports)  BY <1>3
    <3>. QED BY <1>5, <2>2, <2>4, <3>1, <3>2, <3>3 DEF DoneSent
  <2>5. k + 1 \in DOMAIN parts[p] => parts[p][k + 1].action # NoAction
    <3>1. k + 1 \in DOMAIN parts'[p] => parts'[p][k + 1].action # NoAction  BY <1>6 DEF AllSent
    <3>. QED BY <1>2, <2>1, <3>1 DEF Restated
  <2>6. Enc(info, parts[p][k], lastEncodeTime)  BY <2>3, <2>4 DEF DoneSent, Enc
  <2>7. AllSent(p, k)  BY <2>4, <2>5 DEF AllSent
  <2>. QED BY <1>2, <2>2, <2>5, <2>6, <2>7 DEF Restated
<1>7. ASSUME NEW l, NEW end, NEW H, Arrives(l, end, H) PROVE Arrives(l, end, H)'
  <2>1. ASSUME NEW p \in Packages, Route[p] = l, NEW k \in DOMAIN parts'[p], AllSent(p, k)'
        PROVE  Outcome(p, k, end, H)'
    <3>1. /\ k \in DOMAIN parts[p] /\ AllSent(p, k) /\ Enc(info, parts[p][k], lastEncodeTime)
          /\ parts'[p][k].off = parts[p][k].off /\ parts'[p][k].len = parts[p][k].len
          /\ k + 1 \in DOMAIN parts[p] => parts[p][k + 1].action # NoAction
      BY <1>6, <2>1
    <3>2. Outcome(p, k, end, H)  BY <1>7, <2>1, <3>1 DEF Arrives
    <3>3. CASE parts[p][k].off + parts[p][k].len = Size[p]  BY <3>1, <3>2, <3>3 DEF Outcome, Got, WholePackage
    <3>4. CASE parts[p][k].off + parts[p][k].len # Size[p]
      <4>1. end[2] # <<>> /\ NumberedNow(p, k, end[1] + 1)  BY <3>2, <3>4 DEF Outcome
      <4>2. PICK n : n = end[1] + 1  OBVIOUS
      <4>3. NumberedNow(p, k, n)'  BY <1>1, <3>1, <3>4, <4>1, <4>2, NumberedEncode
      <4>. QED BY <3>1, <3>4, <4>1, <4>2, <4>3 DEF Outcome
    <3>. QED BY <3>3, <3>4
  <2>. QED BY <1>3, <1>7, <2>1 DEF Arrives, Got, WholePackage
<1>8. ASSUME spent'["faults"] = 0, NEW l \in Links
      PROVE  \E end, H, G : /\ Reaches(<<last'[l], pending'[l]>>, wire'[l], end, H)
                            /\ G = delivered' \union H /\ Arrives(l, end, G)'
  <2>1. PICK end, H, G : /\ Reaches(<<last[l], pending[l]>>, wire[l], end, H)
                         /\ G = delivered \union H /\ Arrives(l, end, G)
    BY <1>3, <1>8 DEF SentInv
  <2>2. Arrives(l, end, G)'  BY <1>7, <2>1
  <2>. QED BY <1>3, <2>1, <2>2 DEF receiveVars
<1>. QED BY <1>8 DEF SentInv

\* The receiving end takes the first content on its way.
LEMMA SentReceive ==
    ASSUME TypeInv, TypeInv', SentInv, NEW m \in Links, Receive(m)
    PROVE  SentInv'
<1>1. PICK c : c = Head(wire[m])  OBVIOUS
<1>2. PICK s : s = <<last[m], pending[m]>>  OBVIOUS
<1>3. PICK x : x = After(s, c)  OBVIOUS
<1>4. PICK D : D = Hands(s, c)  OBVIOUS
<1>5. /\ wire[m] # <<>> /\ wire' = [wire EXCEPT ![m] = Tail(@)]
      /\ last' = [last EXCEPT ![m] = x[1]] /\ pending' = [pending EXCEPT ![m] = x[2]]
      /\ delivered' = delivered \union D
  BY <1>1, <1>2, <1>3, <1>4, ReceiveIs
<1>6. UNCHANGED <<actionVars, packageVars, held, reports, spent>>  BY Zenon DEF Receive
<1>7. UNCHANGED <<info, parts, fragmentCount, lastEncodeTime, encoder, told>>  BY <1>6 DEF actionVars, packageVars
<1>8. CalmStep  BY <1>6, <1>7, CalmElse
<1>9. /\ wire \in [Links -> Seq(Contents)] /\ last \in [Links -> Nat] /\ pending \in [Links -> Seq(Pieces)]
  BY DEF TypeInv, TypeOK
<1>10. ASSUME NEW l \in Links, NEW end, NEW G, Arrives(l, end, G), NEW K, G \subseteq K
       PROVE  Arrives(l, end, K)'
  <2>1. Arrives(l, end, K)  BY <1>10, ArrivesMore
  <2>2. \A p \in Packages : Route[p] = l /\ told'[p] = <<"PACKAGE_SENT">> => Got(p, K)  BY <1>7, <2>1 DEF Arrives
  <2>. QED BY <1>8, <2>1, <2>2, ArrivesCalm
<1>11. ASSUME spent'["faults"] = 0, NEW l \in Links
       PROVE  \E end, H, G : /\ Reaches(<<last'[l], pending'[l]>>, wire'[l], end, H)
                             /\ G = delivered' \union H /\ Arrives(l, end, G)'
  <2>1. PICK end, H, G : /\ Reaches(<<last[l], pending[l]>>, wire[l], end, H)
                         /\ G = delivered \union H /\ Arrives(l, end, G)
    BY <1>6, <1>11 DEF SentInv
  <2>2. CASE l # m
    <3>1. wire'[l] = wire[l] /\ last'[l] = last[l] /\ pending'[l] = pending[l]  BY <1>5, <1>9, <2>2
    <3>2. PICK K : K = delivered' \union H  OBVIOUS
    <3>3. G \subseteq K  BY <1>5, <2>1, <3>2
    <3>4. Arrives(l, end, K)'  BY <1>10, <2>1, <3>3
    <3>. QED BY <2>1, <3>1, <3>2, <3>4
  <2>3. CASE l = m
    <3>1. PICK v \in Seq(Contents) : v = wire[m]  BY <1>9
    <3>2. v # <<>> /\ Reaches(s, v, end, H)  BY <1>2, <1>5, <2>1, <2>3, <3>1
    <3>3. PICK K : Reaches(After(s, Head(v)), Tail(v), end, K) /\ H = Hands(s, Head(v)) \union K
      BY <3>1, <3>2, ReachFirst
    <3>4. Reaches(x, Tail(v), end, K) /\ H = D \union K  BY <1>1, <1>3, <1>4, <3>1, <3>3
    <3>5. x = <<x[1], x[2]>>  BY <1>3 DEF After
    <3>6. wire'[l] = Tail(v) /\ last'[l] = x[1] /\ pending'[l] = x[2]  BY <1>5, <1>9, <2>3, <3>1
    <3>7. <<last'[l], pending'[l]>> = x  BY <3>5, <3>6
    <3>8. Reaches(<<last'[l], pending'[l]>>, wire'[l], end, K)  BY <3>4, <3>6, <3>7
    <3>9. G = delivered' \union K  BY <1>5, <2>1, <3>4
    <3>10. Arrives(l, end, G)'  BY <1>10, <2>1
    <3>. QED BY <3>8, <3>9, <3>10
  <2>. QED BY <2>2, <2>3
<1>. QED BY <1>11 DEF SentInv

\* A fault of the wire.
LEMMA SentFault ==
    ASSUME TypeInv, NEW l \in Links, Fault(l)
    PROVE  SentInv'
<1>1. Spend("faults", MaxFaults)  BY Zenon DEF Fault
<1>2. spent \in [Bounded -> Nat] /\ "faults" \in Bounded  BY DEF TypeInv, TypeOK, Bounded
<1>3. spent'["faults"] = spent["faults"] + 1 /\ spent["faults"] \in Nat  BY <1>1, <1>2 DEF Spend
<1>4. \A n \in Nat : n + 1 # 0  OBVIOUS
<1>. QED BY <1>3, <1>4 DEF SentInv

LEMMA SentInit == Init => SentInv
<1> SUFFICES ASSUME Init PROVE SentInv  OBVIOUS
<1>1. ASSUME NEW l \in Links
      PROVE  \E end, H, G : /\ Reaches(<<last[l], pending[l]>>, wire[l], end, H)
                            /\ G = delivered \union H /\ Arrives(l, end, G)
  <2>1. PICK s : s = <<last[l], pending[l]>>  OBVIOUS
  <2>2. last[l] = 0 /\ pending[l] = <<>> /\ wire[l] = <<>>  BY DEF Init
  <2>3. s \in Nat \X Seq(Pieces)
    <3>1. last[l] \in Nat /\ pending[l] \in Seq(Pieces)  BY <2>2
    <3>. QED BY <2>1, <3>1
  <2>4. Reaches(s, wire[l], s, {})  BY <2>2, <2>3, ReachNone
  <2>5. PICK G : G = delivered \union {}  OBVIOUS
  <2>6. \A p \in Packages : parts[p] = <<>> /\ told[p] = <<>>  BY DEF Init
  <2>7. \A p \in Packages : DOMAIN parts[p] = {} /\ told[p] # <<"PACKAGE_SENT">>
    <3>1. DOMAIN <<>> = {} /\ <<>> # <<"PACKAGE_SENT">>  OBVIOUS
    <3>. QED BY <2>6, <3>1
  <2>8. Arrives(l, s, G)  BY <2>7 DEF Arrives
  <2>. QED BY <2>1, <2>4, <2>5, <2>8
<1>. QED BY <1>1 DEF SentInv

\* The transport does the action a, whose fragments are fs; it was sent, or it failed.
Does(a, fs, sent) ==
    /\ a \in DOMAIN info /\ a # NoAction /\ fs = info[a].fragments /\ fs \in Seq(Pointers)
    /\ info[a].time <= lastEncodeTime
    /\ parts' = DoneParts(HandlesOf(fs))
    /\ LessActions(info, info', {a}) /\ LessParts(parts, parts', Packages, {a}) /\ DOMAIN info' = DOMAIN info \ {a}
    /\ LessEncoded

DoesSend(a, fs, sent) ==
    /\ sent \in BOOLEAN /\ (sent => a \in DOMAIN held)
    /\ wire' = IF sent /\ held[a].data # <<>>
               THEN [wire EXCEPT ![held[a].link] = Append(@, held[a])] ELSE wire
    /\ reports' = reports \o ReportsOf(fs, sent)

LEMMA DoesIt ==
    ASSUME Spaced, TypeInv, TypeInv', PlanInv, PlanInv', DoAction
    PROVE  /\ \E a, fs : \E sent \in BOOLEAN : Does(a, fs, sent) /\ DoesSend(a, fs, sent)
           /\ UNCHANGED <<told, last, pending, delivered>> /\ spent'["faults"] = spent["faults"]
<1>1. PICK a : a = FirstAction  OBVIOUS
<1>2. PICK fs : fs = info[a].fragments  OBVIOUS
<1>3. PICK sent \in BOOLEAN :
          /\ DoesSend(a, fs, sent)
          /\ IF sent \/ a \notin DOMAIN held THEN UNCHANGED spent ELSE Spend("failures", MaxFailures)
  BY <1>1, <1>2, DoIs DEF DoesSend
<1>4. /\ held' = Without(held, {a}) /\ encoder' = Without(encoder, {a}) /\ parts' = DoneParts(HandlesOf(fs))
      /\ UNCHANGED <<lastEncodeTime, fragmentCount, told, last, pending, delivered>>
  BY <1>1, <1>2, DoIs DEF receiveVars
<1>5. /\ a \in DOMAIN info /\ LessActions(info, info', {a}) /\ LessParts(parts, parts', Packages, {a})
      /\ DOMAIN info' = DOMAIN info \ {a}
  BY <1>1, DoLess
<1>6. info[a].time <= lastEncodeTime  BY <1>1, DoneEncoded
<1>7. a # NoAction /\ fs \in Seq(Pointers)
  <2>1. DOMAIN info \subseteq Actions  BY DEF TypeInv, TypeOK
  <2>2. info \in [DOMAIN info -> ActionInfo]  BY PlanNow
  <2>. QED BY <1>2, <1>5, <2>1, <2>2, PackagesAssumption DEF ActionInfo
<1>8. LessEncoded
  <2>1. EncodedAlike(info, parts, info', parts', lastEncodeTime)  BY <1>5, <1>6, AlikeLess
  <2>2. \A b : Of(b)' \subseteq Of(b)  BY <1>4, OfWithout
  <2>3. \A p \in Packages : \A k \in DOMAIN parts'[p] : parts'[p][k].action \in {NoAction, parts[p][k].action}
    BY <1>5 DEF LessParts
  <2>. QED BY <1>4, <2>1, <2>2, <2>3 DEF LessEncoded
<1>9. spent'["faults"] = spent["faults"]
  <2>1. spent \in [Bounded -> Nat] /\ "faults" \in Bounded /\ "faults" # "failures"  BY DEF TypeInv, TypeOK, Bounded
  <2>2. CASE UNCHANGED spent  BY <2>2
  <2>3. CASE Spend("failures", MaxFailures)  BY <2>1, <2>3 DEF Spend
  <2>. QED BY <1>3, <2>2, <2>3
<1>10. Does(a, fs, sent)  BY <1>2, <1>4, <1>5, <1>6, <1>7, <1>8 DEF Does
<1>. QED BY <1>3, <1>4, <1>9, <1>10

\* What is done and sent after the step was so before, or it is what the action carried.
LEMMA DoneWas ==
    ASSUME TypeInv, PlanInv, FreshInv, NEW a, NEW fs, NEW sent, Does(a, fs, sent), DoesSend(a, fs, sent),
           NEW p \in Packages, NEW k \in DOMAIN parts[p], DoneSent(parts'[p][k], ToSet(reports'))
    PROVE  \/ parts[p][k].action = a /\ sent
           \/ parts[p][k].action = NoAction /\ DoneSent(parts[p][k], ToSet(reports))
<1>1. PICK f : f = parts[p][k]  OBVIOUS
<1>2. PICK g : g = parts'[p][k]  OBVIOUS
<1>3. PICK hs : hs = HandlesOf(fs)  OBVIOUS
<1>4. /\ g.h = f.h /\ g.action = IF f.h \in hs THEN NoAction ELSE f.action
      /\ g.state = IF f.h \in hs THEN "DONE" ELSE f.state
  BY <1>1, <1>2, <1>3, DoneIs DEF Does, TypeInv
<1>5. f.h \in hs <=> f.action = a  BY <1>1, <1>3, CarriedIs DEF Does, TypeInv
<1>6. PICK x : x = <<f.h, "PACKAGE_SENT">>  OBVIOUS
<1>7. g.action = NoAction /\ (g.state = "SENT" \/ x \in ToSet(reports'))  BY <1>2, <1>4, <1>6 DEF DoneSent
<1>8. x \in ToSet(reports')
          => x \in ToSet(reports) \/ (f.h \in hs /\ x = <<f.h, IF sent THEN "PACKAGE_SENT" ELSE "PACKAGE_FAILED_GENERIC">>)
  <2>1. reports \in Seq(Handles \X Statuses)  BY DEF TypeInv, TypeOK
  <2>2. fs \in Seq(Pointers) /\ sent \in BOOLEAN /\ reports' = reports \o ReportsOf(fs, sent)  BY DEF Does, DoesSend
  <2>3. \A y \in ToSet(reports') :
            \/ y \in ToSet(reports)
            \/ y[1] \in hs /\ y = <<y[1], IF sent THEN "PACKAGE_SENT" ELSE "PACKAGE_FAILED_GENERIC">>
    BY <1>3, <2>1, <2>2, ReportsAdded
  <2>4. x[1] = f.h  BY <1>6
  <2>. QED BY <2>3, <2>4
<1>9. CASE f.action = a
  <2>1. x \in ToSet(reports')  BY <1>4, <1>5, <1>7, <1>9
  <2>2. x \notin ToSet(reports)
    <3>1. f.h \notin ToldHandles  BY <1>1, <1>9 DEF FreshInv, Does
    <3>. QED BY <1>6, <3>1, HandlesTold
  <2>3. x = <<f.h, IF sent THEN "PACKAGE_SENT" ELSE "PACKAGE_FAILED_GENERIC">>  BY <1>8, <2>1, <2>2
  <2>4. sent  BY <1>6, <2>3
  <2>. QED BY <1>1, <1>9, <2>4
<1>10. CASE f.action # a
  <2>1. f.action = NoAction /\ (f.state = "SENT" \/ x \in ToSet(reports))  BY <1>4, <1>5, <1>7, <1>8, <1>10
  <2>. QED BY <1>1, <1>6, <2>1 DEF DoneSent
<1>. QED BY <1>9, <1>10

\* What comes after is with an action still to come.
GoesLater(a, p, k) == k + 1 \in DOMAIN parts[p] => parts[p][k + 1].action \notin {NoAction, a}

EarlierSent(p, k) == \A j \in 1 .. k - 1 : DoneSent(parts[p][j], ToSet(reports))

LEMMA SentWas ==
    ASSUME TypeInv, PlanInv, TurnInv, FreshInv, NEW a, NEW fs, NEW sent, Does(a, fs, sent), DoesSend(a, fs, sent),
           NEW p \in Packages, NEW k \in DOMAIN parts[p], AllSent(p, k)'
    PROVE  /\ GoesLater(a, p, k) /\ parts'[p][k].action = NoAction
           /\ \/ AllSent(p, k) /\ parts[p][k].action = NoAction
              \/ sent /\ parts[p][k].action = a /\ EarlierSent(p, k)
<1>1. k \in 1 .. k /\ \A j \in 1 .. k : j \in DOMAIN parts[p] /\ (j < k \/ j = k)  BY PlanNow
<1>2. a # NoAction /\ LessParts(parts, parts', Packages, {a})  BY DEF Does
<1>3. \A j \in 1 .. k : DoneSent(parts'[p][j], ToSet(reports'))  BY DEF AllSent, ToSet
<1>4. \A j \in 1 .. k : \/ parts[p][j].action = a /\ sent
                        \/ parts[p][j].action = NoAction /\ DoneSent(parts[p][j], ToSet(reports))
  BY <1>1, <1>3, DoneWas
<1>5. GoesLater(a, p, k)
  <2>1. k + 1 \in DOMAIN parts'[p] => parts'[p][k + 1].action # NoAction  BY DEF AllSent
  <2>. QED BY <1>2, <2>1 DEF GoesLater, LessParts
<1>6. parts'[p][k].action = NoAction  BY <1>1, <1>3 DEF DoneSent
<1>7. \A j \in 1 .. k - 1 : j \in 1 .. k /\ j < k /\ j # k  BY PlanNow
<1>8. \A j \in 1 .. k - 1 : parts[p][j].action # a
  <2>1. InTimeOrder(info, parts) /\ OneInEach(parts)  BY DEF PlanInv, SoundPlan, TurnInv, InTurnPlan
  <2>2. ASSUME NEW j \in 1 .. k - 1, parts[p][j].action = a PROVE FALSE
    <3>1. j \in DOMAIN parts[p] /\ j < k /\ j # k  BY <1>1, <1>7, <2>2
    <3>2. parts[p][k].action # NoAction  BY <1>2, <2>1, <2>2, <3>1 DEF InTimeOrder
    <3>3. parts[p][k].action = a  BY <1>1, <1>4, <3>2
    <3>. QED BY <1>2, <2>1, <2>2, <3>1, <3>3 DEF OneInEach
  <2>. QED BY <2>2
<1>9. \A j \in 1 .. k - 1 : DoneSent(parts[p][j], ToSet(reports))  BY <1>4, <1>7, <1>8
<1>10. CASE parts[p][k].action = a
  <2>1. EarlierSent(p, k)  BY <1>9 DEF EarlierSent
  <2>. QED BY <1>1, <1>2, <1>4, <1>5, <1>6, <1>10, <2>1
<1>11. CASE parts[p][k].action # a
  <2>1. parts[p][k].action = NoAction /\ DoneSent(parts[p][k], ToSet(reports))  BY <1>1, <1>4, <1>11
  <2>2. \A j \in 1 .. k : j = k \/ j \in 1 .. k - 1  BY PlanNow
  <2>3. \A j \in 1 .. k : DoneSent(parts[p][j], ToSet(reports))  BY <1>9, <2>1, <2>2
  <2>4. AllSent(p, k)  BY <1>5, <2>3 DEF AllSent, GoesLater
  <2>. QED BY <1>5, <1>6, <2>1, <2>4
<1>. QED BY <1>10, <1>11

LEMMA PartsDone ==
    ASSUME NEW a, NEW fs, NEW sent, Does(a, fs, sent), NEW p \in Packages
    PROVE  /\ DOMAIN parts'[p] = DOMAIN parts[p]
           /\ \A k \in DOMAIN parts[p] : parts'[p][k].off = parts[p][k].off /\ parts'[p][k].len = parts[p][k].len
BY DEF Does, LessParts

\* A package of which nothing was carried has its outcome still.
LEMMA OutcomeStays ==
    ASSUME TypeInv, NEW a, NEW fs, NEW sent, Does(a, fs, sent), NEW p \in Packages, NEW k \in DOMAIN parts[p],
           parts'[p][k].action = NoAction, NEW end, NEW G, Outcome(p, k, end, G), NEW H, G \subseteq H
    PROVE  Outcome(p, k, end, H)'
<1>1. Got(p, G) => Got(p, H)  BY GotMore
<1>2. k \in DOMAIN parts'[p] /\ parts'[p][k].off = parts[p][k].off /\ parts'[p][k].len = parts[p][k].len
  BY PartsDone
<1>3. CASE parts[p][k].off + parts[p][k].len = Size[p]
  BY <1>1, <1>2, <1>3 DEF Outcome, Got, WholePackage
<1>4. CASE parts[p][k].off + parts[p][k].len # Size[p]
  <2>1. end[2] # <<>> /\ NumberedNow(p, k, end[1] + 1)  BY <1>4 DEF Outcome
  <2>2. PICK n : n = end[1] + 1  OBVIOUS
  <2>3. Enc(info', parts'[p][k], lastEncodeTime)  BY DEF Enc
  <2>4. NumberedNow(p, k, n)'  BY <1>2, <2>1, <2>2, <2>3, NumberedKept DEF Does, TypeInv
  <2>. QED BY <1>2, <1>4, <2>1, <2>2, <2>4 DEF Outcome
<1>. QED BY <1>3, <1>4

\* What the action carries is what the transport held.
LEMMA HeldIs ==
    ASSUME TypeInv, PlanInv, TurnInv, HeldInv, NEW a, NEW fs, NEW sent, Does(a, fs, sent), a \in DOMAIN held,
           NEW p \in Packages, NEW k \in DOMAIN parts[p], parts[p][k].action = a, NEW c, c = held[a]
    PROVE  /\ c \in Of(a) /\ c.link = Route[p] /\ c.data # <<>> /\ c.data = PiecesOf(fs)
           /\ Carries(info, a, Route[p])
<1>1. Carries(info, a, Route[p])  BY CarriesIts DEF Does
<1>2. a \in Actions  BY DEF Does, TypeInv, TypeOK
<1>3. c \in Of(a)  BY OfIs
<1>4. HeldAs(info, linkStatus, a, c)  BY <1>2, <1>3 DEF HeldInv
<1>5. info[a].fragments # <<>> /\ info[a].link = Route[p]  BY <1>1 DEF Carries
<1>6. c.link = Route[p] /\ c.data = PiecesOf(fs)  BY <1>4, <1>5 DEF HeldAs, Does
<1>7. c.data # <<>>
  <2>1. fs \in Seq(Pointers) /\ fs # <<>>  BY <1>5 DEF Does
  <2>2. 1 \in DOMAIN fs  BY <2>1
  <2>3. 1 \in DOMAIN PiecesOf(fs)  BY <2>2 DEF PiecesOf
  <2>4. DOMAIN <<>> = {}  OBVIOUS
  <2>. QED BY <1>6, <2>3, <2>4
<1>. QED BY <1>1, <1>3, <1>6, <1>7

\* What does not go out on the link l does not change what is sent on it.
LEMMA SentElsewhere ==
    ASSUME TypeInv, PlanInv, TurnInv, FreshInv, HeldInv, UNCHANGED told,
           NEW a, NEW fs, NEW sent, Does(a, fs, sent), DoesSend(a, fs, sent), NEW l \in Links,
           sent => held[a].data = <<>> \/ held[a].link # l,
           NEW end, NEW G, Arrives(l, end, G)
    PROVE  Arrives(l, end, G)'
<1>1. ASSUME NEW p \in Packages, Route[p] = l, NEW k \in DOMAIN parts'[p], AllSent(p, k)'
      PROVE  Outcome(p, k, end, G)'
  <2>1. k \in DOMAIN parts[p]  BY <1>1, PartsDone
  <2>2. /\ parts'[p][k].action = NoAction
        /\ AllSent(p, k) \/ (sent /\ parts[p][k].action = a)
    BY <1>1, <2>1, SentWas
  <2>3. ~(sent /\ parts[p][k].action = a)
    <3>1. SUFFICES ASSUME sent, parts[p][k].action = a PROVE FALSE  OBVIOUS
    <3>2. a \in DOMAIN held  BY <3>1 DEF DoesSend
    <3>. QED BY <1>1, <2>1, <3>1, <3>2, HeldIs
  <2>4. Outcome(p, k, end, G)  BY <1>1, <2>1, <2>2, <2>3 DEF Arrives
  <2>. QED BY <2>1, <2>2, <2>4, OutcomeStays
<1>. QED BY <1>1 DEF Arrives, Got, WholePackage

\* What goes out on a link on which all there was is gone.
LEMMA SentForNone ==
    ASSUME TypeInv, ReportInv, HeldInv, UNCHANGED told, NEW a, NEW fs, NEW sent, Does(a, fs, sent),
           NEW l \in Links, linkStatus[l] = "LINK_DESTROYED", NEW end, NEW G, Arrives(l, end, G),
           NEW x, NEW H, G \subseteq H
    PROVE  Arrives(l, x, H)'
<1>1. packageQueue[l] = <<>>  BY DEF HeldInv, NoneDestroyed
<1>2. ASSUME NEW p \in Packages, Route[p] = l PROVE DOMAIN parts'[p] = {}
  <2>1. parts[p] = <<>>
    <3>1. SUFFICES ASSUME parts[p] # <<>> PROVE FALSE  OBVIOUS
    <3>2. PICK m \in Links : p \in ToSet(packageQueue[m])  BY <3>1 DEF ReportInv, Queued
    <3>3. m = l  BY <1>2, <3>2 DEF ReportInv, OwnQueues
    <3>. QED BY <1>1, <3>2, <3>3 DEF ToSet
  <2>2. DOMAIN <<>> = {}  OBVIOUS
  <2>. QED BY <2>1, <2>2, PartsDone
<1>3. \A p : Got(p, G) => Got(p, H)  BY GotMore
<1>. QED BY <1>2, <1>3 DEF Arrives, Got, WholePackage

\* The receiving end waits for a fragment in the middle of its package.
LEMMA SentWaits ==
    ASSUME TypeInv, PlanInv, TurnInv, HeldInv, NEW a, NEW fs, NEW sent, Does(a, fs, sent), a \in DOMAIN held,
           NEW p \in Packages, NEW k \in DOMAIN parts[p], parts[p][k].action = a, parts[p][k].off # 0,
           EarlierSent(p, k),
           NEW c, c = held[a], NEW end, NEW G, Arrives(Route[p], end, G)
    PROVE  c.id = end[1] + 1 /\ end[2] # <<>>
<1>1. k # 1  BY DEF PlanInv, SoundPlan, Tiles
<1>2. PICK m : m = k - 1  OBVIOUS
<1>3. m \in DOMAIN parts[p] /\ m + 1 = k  BY <1>1, <1>2, PlanNow
<1>4. \A j \in 1 .. m : DoneSent(parts[p][j], ToSet(reports))  BY <1>2 DEF EarlierSent
<1>5. a # NoAction  BY DEF Does
<1>6. AllSent(p, m)  BY <1>3, <1>4, <1>5 DEF AllSent
<1>7. Outcome(p, m, end, G)  BY <1>3, <1>6 DEF Arrives
<1>8. parts[p][m].off + parts[p][m].len # Size[p]
  <2>1. parts[p][k].off = parts[p][m].off + parts[p][m].len /\ parts[p][k].len > 0
    BY <1>1, <1>2 DEF PlanInv, SoundPlan, Tiles
  <2>2. parts[p][k].off + parts[p][k].len <= Size[p]  BY DEF TypeInv, Whole
  <2>3. parts[p][k].off \in Nat /\ parts[p][k].len \in Nat  BY PlanNow
  <2>4. Size[p] \in Nat  BY PackagesAssumption
  <2>5. \A x, y, z \in Nat : x + y <= z /\ y > 0 => x # z  OBVIOUS
  <2>. QED BY <2>1, <2>2, <2>3, <2>4, <2>5
<1>9. end[2] # <<>> /\ NumberedNow(p, m, end[1] + 1)  BY <1>7, <1>8 DEF Outcome
<1>10. PICK n : n = end[1] + 1  OBVIOUS
<1>11. Enc(info, parts[p][k], lastEncodeTime)  BY DEF Does, Enc
<1>12. \A d \in Of(a) : d.id = n  BY <1>3, <1>9, <1>10, <1>11 DEF NumberedNow, Numbered
<1>13. c \in Of(a)  BY OfIs
<1>. QED BY <1>9, <1>10, <1>12, <1>13

\* What the action carries is put together, or waits for the rest.
LEMMA SentCarried ==
    ASSUME TypeInv, PlanInv, TurnInv, HeldInv, NumbersInv, StreamInv,
           NEW a, NEW fs, NEW sent, Does(a, fs, sent), a \in DOMAIN held,
           NEW p \in Packages, NEW k \in DOMAIN parts[p], parts[p][k].action = a, parts'[p][k].action = NoAction,
           EarlierSent(p, k),
           NEW c, c = held[a], NEW end, InEnds(Route[p], end), NEW G, Arrives(Route[p], end, G),
           NEW x, x = After(end, c), NEW H, G \union Hands(end, c) \subseteq H
    PROVE  Outcome(p, k, x, H)'
<1>1. c \in Of(a) /\ c.link = Route[p] /\ c.data # <<>> /\ c.data = PiecesOf(fs)  BY HeldIs
<1>2. PICK l \in Links : l = Route[p]  BY PackagesAssumption
<1>3. c \in Contents /\ c \in Existing(l)  BY <1>1, <1>2 DEF TypeInv, TypeOK, Existing, HandFor, InHand
<1>4. WellCut(c) /\ GoesOnWith(end, c) /\ ReceivesWell(end, c)  BY <1>2, <1>3, GoesOnFrom
<1>5. end \in Nat \X Seq(Pieces)  BY DEF InEnds
<1>6. PICK m \in DOMAIN c.data : c.data[m].pkg = p /\ c.data[m].off = parts[p][k].off /\ c.data[m].len = parts[p][k].len
  <2>1. IsHeld(info, parts, actionQueue, p, k)
    <3>1. SoundPlan(info, parts, actionQueue, ToldHandles, lastEncodeTime)  BY DEF PlanInv
    <3>2. SamePieces(info, parts)  BY DEF TurnInv, InTurnPlan
    <3>3. info \in [DOMAIN info -> ActionInfo]  BY PlanNow
    <3>4. a # NoAction  BY DEF Does
    <3>. QED BY <3>1, <3>2, <3>3, <3>4, PointedTo
  <2>2. PICK m \in DOMAIN fs : fs[m].pkg = p /\ fs[m].off = parts[p][k].off /\ fs[m].len = parts[p][k].len
    BY <2>1 DEF IsHeld, Does
  <2>. QED BY <1>1, <2>2 DEF PiecesOf
<1>13. parts[p][k].off # 0 => c.id = end[1] + 1 /\ end[2] # <<>>  BY SentWaits
<1>7. WaitsFor(end, c, m)
  <2>1. SUFFICES ASSUME m = 1, c.data[1].off # 0 PROVE c.id = end[1] + 1 /\ end[2] # <<>>  BY DEF WaitsFor
  <2>2. parts[p][k].off # 0  BY <1>6, <2>1
  <2>. QED BY <1>13, <2>2
<1>8. HandsOver(end, c, m)  BY <1>3, <1>4, <1>5, <1>7, HandedOver
<1>9. Ends(c.data[m]) = parts[p][k].off + parts[p][k].len  BY <1>6 DEF Ends
<1>10. k \in DOMAIN parts'[p] /\ parts'[p][k].off = parts[p][k].off /\ parts'[p][k].len = parts[p][k].len
  BY PartsDone
<1>11. CASE parts[p][k].off + parts[p][k].len = Size[p]
  <2>1. PICK d \in Hands(end, c) : d # <<>> /\ d[1].pkg = p /\ WholePackage(d)  BY <1>6, <1>8, <1>9, <1>11 DEF HandsOver
  <2>2. Got(p, H)  BY <2>1 DEF Got
  <2>. QED BY <1>10, <1>11, <2>2 DEF Outcome, Got, WholePackage
<1>12. CASE parts[p][k].off + parts[p][k].len # Size[p]
  <2>1. x[2] # <<>>  BY <1>6, <1>8, <1>9, <1>12 DEF HandsOver
  <2>2. x[1] = c.id  BY <1>4 DEF ReceivesWell
  <2>3. NumberedNow(p, k, c.id + 1)  BY <1>1, <1>12 DEF NumbersInv
  <2>4. PICK n : n = c.id + 1  OBVIOUS
  <2>5. Enc(info', parts'[p][k], lastEncodeTime)  BY DEF Enc
  <2>6. NumberedNow(p, k, n)'  BY <1>10, <2>3, <2>4, <2>5, NumberedKept DEF Does, TypeInv
  <2>. QED BY <1>10, <1>12, <2>1, <2>2, <2>4, <2>6 DEF Outcome
<1>. QED BY <1>11, <1>12

\* Nothing goes out on a link while a package is open whose rest comes later.
LEMMA NoneOpen ==
    ASSUME TypeInv, ReportInv, PlanInv, TurnInv, NEW a, NEW fs, NEW sent, Does(a, fs, sent),
           NEW p \in Packages, NEW l \in Links, Route[p] = l, Carries(info, a, l), NEW k \in DOMAIN parts[p],
           parts[p][k].action = NoAction, GoesLater(a, p, k)
    PROVE  parts[p][k].off + parts[p][k].len = Size[p]
<1>1. SUFFICES ASSUME parts[p][k].off + parts[p][k].len # Size[p] PROVE FALSE  OBVIOUS
<1>2. a \in DOMAIN info /\ LessActions(info, info', {a}) /\ DOMAIN info' = DOMAIN info \ {a}  BY DEF Does
<1>3. ASSUME k + 1 \in DOMAIN parts[p]
      PROVE  parts[p][k + 1].action # NoAction /\ info[parts[p][k + 1].action].time > info[a].time
  <2>1. PICK b : b = parts[p][k + 1].action  OBVIOUS
  <2>2. b # NoAction /\ b # a  BY <1>3, <2>1 DEF GoesLater
  <2>3. b \in DOMAIN info  BY <1>3, <2>1, <2>2, ActionsThere
  <2>4. info[a].time < info[b].time  BY <1>2, <2>2, <2>3 DEF LessActions
  <2>5. info[a].time \in Nat /\ info[b].time \in Nat  BY <1>2, <2>3, PlanNow
  <2>6. info[b].time > info[a].time  BY <2>4, <2>5
  <2>. QED BY <2>1, <2>2, <2>6
<1>. QED BY <1>1, <1>2, <1>3, FrontGoesOn

\* What goes out on the link l, of packages it has.
LEMMA SentHere ==
    ASSUME TypeInv, ReportInv, PlanInv, TurnInv, FreshInv, HeldInv, NumbersInv, StreamInv, UNCHANGED told,
           NEW a, NEW fs, NEW sent, Does(a, fs, sent), DoesSend(a, fs, sent), sent, NEW l \in Links,
           Carries(info, a, l), NEW c, c = held[a],
           NEW end, InEnds(l, end), NEW G, Arrives(l, end, G),
           NEW x, x = After(end, c), NEW H, G \union Hands(end, c) \subseteq H
    PROVE  Arrives(l, x, H)'
<1>1. a \in DOMAIN held  BY DEF DoesSend
<1>2. \A p : Got(p, G) => Got(p, H)
  <2>1. G \subseteq H  OBVIOUS
  <2>. QED BY <2>1, GotMore
<1>3. ASSUME NEW p \in Packages, Route[p] = l, NEW k \in DOMAIN parts'[p], AllSent(p, k)'
      PROVE  Outcome(p, k, x, H)'
  <2>1. k \in DOMAIN parts[p]  BY <1>3, PartsDone
  <2>2. /\ GoesLater(a, p, k) /\ parts'[p][k].action = NoAction
        /\ \/ AllSent(p, k) /\ parts[p][k].action = NoAction
           \/ parts[p][k].action = a /\ EarlierSent(p, k)
    BY <1>3, <2>1, SentWas
  <2>3. CASE AllSent(p, k) /\ parts[p][k].action = NoAction
    <3>1. parts[p][k].off + parts[p][k].len = Size[p]  BY <1>3, <2>1, <2>2, <2>3, NoneOpen
    <3>2. Outcome(p, k, end, G)  BY <1>3, <2>1, <2>3 DEF Arrives
    <3>3. Got(p, H)  BY <1>2, <3>1, <3>2 DEF Outcome
    <3>. QED BY <2>1, <3>1, <3>3, PartsDone DEF Outcome, Got, WholePackage
  <2>4. CASE parts[p][k].action = a /\ EarlierSent(p, k)
    BY <1>1, <1>3, <2>1, <2>2, <2>4, SentCarried
  <2>. QED BY <2>2, <2>3, <2>4
<1>. QED BY <1>2, <1>3 DEF Arrives, Got, WholePackage

\* The transport sends, or fails to.
LEMMA SentDo ==
    ASSUME Spaced, TypeInv, TypeInv', ReportInv, PlanInv, PlanInv', TurnInv, StreamInv, FreshInv, HeldInv, NumbersInv,
           SentInv, DoAction
    PROVE  SentInv'
<1>1. PICK a, fs : \E sent \in BOOLEAN : Does(a, fs, sent) /\ DoesSend(a, fs, sent)  BY DoesIt
<1>2. PICK sent \in BOOLEAN : Does(a, fs, sent) /\ DoesSend(a, fs, sent)  BY <1>1
<1>3. UNCHANGED <<told, last, pending, delivered>> /\ spent'["faults"] = spent["faults"]  BY DoesIt
<1>4. PICK c : c = held[a]  OBVIOUS
<1>5. wire \in [Links -> Seq(Contents)]  BY DEF TypeInv, TypeOK
<1>6. /\ sent => a \in DOMAIN held
      /\ wire' = IF sent /\ c.data # <<>> THEN [wire EXCEPT ![c.link] = Append(@, c)] ELSE wire
  BY <1>2, <1>4 DEF DoesSend
<1>7. ASSUME spent'["faults"] = 0, NEW l \in Links
      PROVE  \E end, H, G : /\ Reaches(<<last'[l], pending'[l]>>, wire'[l], end, H)
                            /\ G = delivered' \union H /\ Arrives(l, end, G)'
  <2>1. PICK end, H, G : /\ Reaches(<<last[l], pending[l]>>, wire[l], end, H)
                         /\ G = delivered \union H /\ Arrives(l, end, G)
    BY <1>3, <1>7 DEF SentInv
  <2>2. CASE ~(sent /\ c.data # <<>> /\ c.link = l)
    <3>1. wire'[l] = wire[l]  BY <1>5, <1>6, <2>2
    <3>2. Arrives(l, end, G)'  BY <1>2, <1>3, <1>4, <2>1, <2>2, SentElsewhere
    <3>. QED BY <1>3, <2>1, <3>1, <3>2
  <2>3. CASE sent /\ c.data # <<>> /\ c.link = l
    <3>1. a \in DOMAIN held /\ wire'[l] = Append(wire[l], c)  BY <1>5, <1>6, <2>3
    <3>2. c \in Contents  BY <1>4, <3>1 DEF TypeInv, TypeOK
    <3>3. c \in Existing(l)  BY <1>4, <2>3, <3>1 DEF Existing, HandFor, InHand
    <3>4. InEnds(l, end)  BY <2>1, RunsWell
    <3>5. PICK x : x = After(end, c)  OBVIOUS
    <3>6. x \in Nat \X Seq(Pieces)  BY <3>2, <3>3, <3>4, <3>5, GoesOnFrom DEF ReceivesWell
    <3>7. PICK D : D = Hands(end, c)  OBVIOUS
    <3>8. PICK v \in Seq(Contents) : v = wire[l]  BY <1>5
    <3>9. PICK s : s = <<last[l], pending[l]>>  OBVIOUS
    <3>10. Reaches(s, Append(v, c), x, H \union D)  BY <2>1, <3>2, <3>5, <3>6, <3>7, <3>8, <3>9, ReachOn
    <3>11. PICK K : K = H \union D  OBVIOUS
    <3>12. Reaches(<<last'[l], pending'[l]>>, wire'[l], x, K)  BY <1>3, <3>1, <3>8, <3>9, <3>10, <3>11
    <3>13. PICK E : E = delivered' \union K  OBVIOUS
    <3>14. G \subseteq E /\ G \union Hands(end, c) \subseteq E  BY <1>3, <2>1, <3>7, <3>11, <3>13
    <3>15. HeldAs(info, linkStatus, a, c)
      <4>1. a \in Actions /\ c \in Of(a)  BY <1>2, <1>4, <3>1, OfIs DEF Does, TypeInv, TypeOK
      <4>. QED BY <4>1 DEF HeldInv
    <3>16. CASE info[a].fragments = <<>>
      <4>1. linkStatus[l] = "LINK_DESTROYED"  BY <2>3, <3>15, <3>16 DEF HeldAs
      <4>2. Arrives(l, x, E)'  BY <1>2, <1>3, <2>1, <3>14, <4>1, SentForNone
      <4>. QED BY <3>12, <3>13, <4>2
    <3>17. CASE info[a].fragments # <<>>
      <4>1. Carries(info, a, l)  BY <2>3, <3>15, <3>17 DEF HeldAs, Carries
      <4>2. sent  BY <2>3
      <4>3. Arrives(l, x, E)'  BY <1>2, <1>3, <1>4, <2>1, <3>4, <3>5, <3>14, <4>1, <4>2, SentHere
      <4>. QED BY <3>12, <3>13, <4>3
    <3>. QED BY <3>16, <3>17
  <2>. QED BY <2>2, <2>3
<1>. QED BY <1>7 DEF SentInv

\* All other steps.
LEMMA SentElse ==
    ASSUME TypeInv, TypeInv', CalmStep, SentInv, UNCHANGED <<wire, receiveVars, told>>,
           spent'["faults"] = spent["faults"]
    PROVE  SentInv'
<1>1. UNCHANGED <<wire, last, pending, delivered>>  BY DEF receiveVars
<1>2. ToldGot  BY ToldSame
<1>. QED BY <1>1, <1>2, SentCalm

LEMMA SpentElse ==
    ASSUME TypeInv, UNCHANGED spent \/ Spend("fetches", MaxFetches) \/ Spend("failures", MaxFailures)
    PROVE  spent'["faults"] = spent["faults"]
<1>1. spent \in [Bounded -> Nat] /\ "faults" \in Bounded  BY DEF TypeInv, TypeOK, Bounded
<1>2. "faults" # "failures" /\ "faults" # "fetches"  OBVIOUS
<1>3. CASE UNCHANGED spent  BY <1>3
<1>4. CASE Spend("failures", MaxFailures)  BY <1>1, <1>2, <1>4 DEF Spend
<1>5. CASE Spend("fetches", MaxFetches)  BY <1>1, <1>2, <1>5 DEF Spend
<1>. QED BY <1>3, <1>4, <1>5

\* The steps that send nothing, receive nothing and tell the SDK of no package.
LEMMA AtRest ==
    ASSUME \/ Tick \/ FetchTimeline \/ \E l \in Links : OnLinkCreated(l)
           \/ \E p \in Packages, r \in Reactive \union {NoAction} : SendPackage(p, r)
           \/ \E a \in Actions : OnBytesEncoded(a)
           \/ UNCHANGED vars,
           TypeInv
    PROVE  UNCHANGED <<wire, receiveVars, told>> /\ spent'["faults"] = spent["faults"]
<1>1. CASE Tick
  <2>1. UNCHANGED <<wire, receiveVars, packageVars, spent>>  BY <1>1, Zenon DEF Tick
  <2>. QED BY <2>1, Zenon DEF packageVars
<1>2. CASE FetchTimeline
  <2>1. UNCHANGED <<wire, receiveVars, told>> /\ Spend("fetches", MaxFetches)
    BY <1>2, Zenon DEF FetchTimeline
  <2>. QED BY <2>1, SpentElse
<1>3. CASE \E l \in Links : OnLinkCreated(l)
  <2>1. UNCHANGED <<wire, receiveVars, packageVars, spent>>  BY <1>3, Zenon DEF OnLinkCreated
  <2>. QED BY <2>1, Zenon DEF packageVars
<1>4. ASSUME NEW p \in Packages, NEW r \in Reactive \union {NoAction}, SendPackage(p, r)
      PROVE  UNCHANGED <<wire, receiveVars, told, spent>>
  BY ONLY <1>4, ZenonT(30) DEF SendPackage
<1>5. CASE \E a \in Actions : OnBytesEncoded(a)
  <2>1. /\ UNCHANGED <<wire, receiveVars, told>>
        /\ UNCHANGED spent \/ Spend("failures", MaxFailures)
    BY <1>5, Zenon DEF OnBytesEncoded
  <2>. QED BY <2>1, SpentElse
<1>6. CASE UNCHANGED vars
  <2>1. UNCHANGED <<wire, receiveVars, packageVars, spent>>  BY <1>6, Zenon DEF vars
  <2>. QED BY <2>1, Zenon DEF packageVars
<1>. QED BY <1>1, <1>2, <1>3, <1>4, <1>5, <1>6

LEMMA SentKept ==
    ASSUME Careful, Spaced, InTurn, TypeInv, TypeInv', ReportInv, BlockInv, PlanInv, PlanInv', TurnInv, Prompt,
           StreamInv, FreshInv, HeldInv, NumbersInv, SentInv, [Next]_vars
    PROVE  SentInv'
<1>1. CASE EncodeActions  BY <1>1, SentEncode
<1>2. CASE DoAction  BY <1>2, SentDo
<1>3. CASE OnPackageStatusChanged  BY <1>3, SentStatus
<1>4. ASSUME NEW l \in Links, OnLinkDestroyed(l) PROVE SentInv'  BY <1>4, SentDestroyed
<1>5. ASSUME NEW l \in Links, Receive(l) PROVE SentInv'  BY <1>5, SentReceive
<1>6. ASSUME NEW l \in Links, Fault(l) PROVE SentInv'  BY <1>6, SentFault
<1>7. CASE /\ ~EncodeActions /\ ~DoAction
           /\ \/ Tick \/ FetchTimeline \/ \E l \in Links : OnLinkCreated(l)
              \/ \E p \in Packages, r \in Reactive \union {NoAction} : SendPackage(p, r)
              \/ \E a \in Actions : OnBytesEncoded(a)
              \/ UNCHANGED vars
  <2>1. CalmStep  BY <1>7, CalmNext
  <2>2. UNCHANGED <<wire, receiveVars, told>> /\ spent'["faults"] = spent["faults"]  BY <1>7, AtRest
  <2>. QED BY <2>1, <2>2, SentElse
<1>. QED BY <1>1, <1>2, <1>3, <1>4, <1>5, <1>6, <1>7 DEF Next

\* Once the link is drained there is nothing the receiving end will have but what it has.
LEMMA SentThere ==
    ASSUME TypeInv, SentInv
    PROVE  SentArrives
<1>1. ASSUME spent["faults"] = 0, NEW p \in Packages, told[p] = <<"PACKAGE_SENT">>, wire[Route[p]] = <<>>
      PROVE  \E d \in delivered : d[1].pkg = p /\ WholePackage(d)
  <2>1. PICK l \in Links : l = Route[p]  BY PackagesAssumption
  <2>2. PICK end, H, G : /\ Reaches(<<last[l], pending[l]>>, wire[l], end, H)
                         /\ G = delivered \union H /\ Arrives(l, end, G)
    BY <1>1 DEF SentInv
  <2>3. PICK s : s = <<last[l], pending[l]>>  OBVIOUS
  <2>4. s \in Nat \X Seq(Pieces)  BY <2>3 DEF TypeInv, TypeOK
  <2>5. H = {}  BY <1>1, <2>1, <2>2, <2>3, <2>4, ReachNone
  <2>6. Got(p, G)  BY <1>1, <2>1, <2>2 DEF Arrives
  <2>. QED BY <2>2, <2>5, <2>6 DEF Got
<1>. QED BY <1>1 DEF SentArrives

\* The same, and a package that ComponentPackageManager::onPackageStatusChanged told the
\* SDK was sent has been received whole once the wire of its link is empty, unless the wire
\* did something wrong.
THEOREM ReceivedWholeCorrect == Careful /\ Punctual /\ Spaced /\ InTurn => (Spec => []ReceivedWhole)
<1> SUFFICES ASSUME Careful, Punctual, Spaced, InTurn PROVE Spec => []ReceivedWhole  OBVIOUS
<1> DEFINE Inv == /\ TypeInv /\ ReportInv /\ BlockInv /\ PlanInv /\ TurnInv /\ Prompt /\ StreamInv /\ NeverGarbled
                  /\ FreshInv /\ HeldInv /\ NumbersInv /\ SentInv
<1>1. Init => Inv
  <2>1. Init => NeverGarbled  BY DEF Init, NeverGarbled
  <2>. QED BY <2>1, TypeInit, ReportsInit, BlockInit, PlanInit, TurnInit, PromptInit, StreamInit, FreshInit,
              HeldInit, NumbersInit, SentInit
<1>2. Inv /\ [Next]_vars => Inv'
  <2> SUFFICES ASSUME Inv, [Next]_vars PROVE Inv'  OBVIOUS
  <2>1. TypeInv' /\ ReportInv' /\ BlockInv' /\ PlanInv'  BY TypeKept, ReportsKept, BlockKept, PlanKept
  <2>2. TurnInv' /\ Prompt'  BY <2>1, TurnKept, PromptKept
  <2>3. StreamInv' /\ NeverGarbled'  BY <2>1, StreamKept, GarbledKept
  <2>4. FreshInv' /\ HeldInv'  BY FreshInvKept, HeldInvKept
  <2>5. NumbersInv'  BY <2>1, <2>2, NumbersKept
  <2>6. SentInv'  BY <2>1, SentKept
  <2>. QED BY <2>1, <2>2, <2>3, <2>4, <2>5, <2>6
<1>3. Inv => ReceivedWhole  BY SentThere DEF ReceivedWhole
<1> HIDE DEF Inv
<1> QED BY <1>1, <1>2, <1>3, PTL DEF Spec
================================================================================
