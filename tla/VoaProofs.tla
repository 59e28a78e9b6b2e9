------------------------------- MODULE VoaProofs -------------------------------
(* Timing, order and conservation in VoaThread, for all packages, hold times, *)
(* clocks and callers.                                                        *)
EXTENDS VoaThread, DataLemmas, TLAPS

--------------------------------------------------------------------------------
(* Items and the packages they are copies of                                  *)

\* An item tells the package it is a copy of.
LEMMA CopyOfOne ==
    ASSUME NEW p \in Packages, NEW i \in CopiesOf(p)
    PROVE  i \in Items /\ i[1] = p /\ i[2] \in 1 .. Copies[p]
BY DEF CopiesOf, Items

\* What was shipped are the copies of the packages that were.
LEMMA ShippedItem ==
    ASSUME NEW i \in Shipped
    PROVE  i \in Items /\ i[1] \in Packages /\ ship[i[1]] = "shipped"
BY CopyOfOne DEF Shipped, Items

\* Only process() adds to what was shipped.
LEMMA ShippedGrows ==
    ASSUME TypeOK, NEW p \in Packages, Process(p)
    PROVE  Shipped' = Shipped \cup CopiesOf(p)
<1>1. {r \in Packages : ship'[r] = "shipped"} = {r \in Packages : ship[r] = "shipped"} \cup {p}
  BY DEF Process, TypeOK
<1>2. Shipped' = UNION {CopiesOf(r) : r \in {x \in Packages : ship'[x] = "shipped"}}
  BY DEF Shipped, CopiesOf
<1>. QED BY <1>1, <1>2 DEF Shipped

\* A package that does not become "shipped" leaves what was shipped alone.
LEMMA ShippedStays ==
    ASSUME TypeOK, NEW p \in Packages, NEW s, ship[p] # "shipped", s # "shipped",
           ship' = [ship EXCEPT ![p] = s]
    PROVE  Shipped' = Shipped
<1>1. {r \in Packages : ship'[r] = "shipped"} = {r \in Packages : ship[r] = "shipped"}
  BY DEF TypeOK
<1>2. Shipped' = UNION {CopiesOf(r) : r \in {x \in Packages : ship'[x] = "shipped"}}
  BY DEF Shipped, CopiesOf
<1>. QED BY <1>1, <1>2 DEF Shipped

\* A package that is being held was not shipped yet, nor any copy of it.
LEMMA HeldIsNew ==
    ASSUME NEW p \in Packages, ship[p] # "shipped"
    PROVE  CopiesOf(p) \cap Shipped = {}
BY CopyOfOne, ShippedItem

--------------------------------------------------------------------------------
(* The inductive invariant.  The item that runs was shipped, is due and, unless *)
(* one was overtaken, is still the first; what was never shipped never ran.     *)

RunsAnItem ==
    /\ Running => currItem \in Shipped
    /\ NotEarly
    /\ \A i \in Items \ Shipped : ran[i] = 0

RunsTheFirst == ~overtaken /\ Running => voaQueue # {} /\ currItem = top

VInv == TypeOK /\ RunsAnItem
OnceInv == VInv /\ RunsTheFirst /\ ExactlyOnce

LEMMA VInvInit == Init => VInv /\ RunsTheFirst /\ ExactlyOnce
<1>. SUFFICES ASSUME Init PROVE VInv /\ RunsTheFirst /\ ExactlyOnce  OBVIOUS
<1>1. Shipped = {}  BY DEF Init, Shipped
<1>2. ~Running  BY DEF Init, Running
<1>3. TypeOK
  <2>1. overtaken \in BOOLEAN  BY DEF Init
  <2>2. 0 \in 0 .. MaxTime  BY VoaAssumption
  <2>3. /\ holdTimestamp \in [Items -> 0 .. MaxTime] /\ ran \in [Items -> Nat]
        /\ ship \in [Packages -> {"idle", "held", "shipped", "refused"}]
        /\ ctl \in [Stoppers -> {"idle", "shutting", "notify", "join", "done", "terminated"}]
    BY <2>2 DEF Init
  <2>. QED BY <1>1, <1>2, <2>1, <2>2, <2>3 DEF Init, TypeOK
<1>4. RunsAnItem  BY <1>2 DEF Init, RunsAnItem, NotEarly
<1>. QED BY <1>1, <1>2, <1>3, <1>4 DEF VInv, RunsTheFirst, ExactlyOnce

\* Steps that change neither queue, times, packages nor counts.
Quiet == UNCHANGED <<queueVars, holdTimestamp, ship, ran, overtaken>> /\ now' >= now

LEMMA QuietShipped ==
    ASSUME Quiet
    PROVE  Shipped' = Shipped /\ UNCHANGED <<voaQueue, top, holdTimestamp, ship, ran, overtaken>>
BY DEF Quiet, queueVars, Shipped, CopiesOf

\* Every step is quiet, or is a sender's, or takes, runs or ends an item.
LEMMA StepShape ==
    ASSUME TypeOK, Next
    PROVE  \/ /\ Quiet /\ UNCHANGED currItem
              /\ (Running' <=> Running) /\ (worker = "return" <=> worker' = "return")
           \/ TakesItem \/ Callback \/ Pop
           \/ \E p \in Packages : GetsQueue(p) \/ TurnedAway(p) \/ Process(p)
BY VoaAssumption DEF Next, WorkThread, Environment, Tick, StartThread, SpuriousWakeUp, ShutdownBegins, JoinTimesOut,
   StopThread, Exits, Waits, TimesOut, GoesBack, Quiet, queueVars, workVars, Running, Notified,
   TypeOK

--------------------------------------------------------------------------------
(* Types: what is on top of the queue is due first, whatever is pushed or popped *)

LEMMA GetsQueueTypes ==
    ASSUME TypeOK, NEW p \in Packages, GetsQueue(p)
    PROVE  TypeOK' /\ Shipped' = Shipped /\ \A i \in Shipped : holdTimestamp'[i] = holdTimestamp[i]
<1>1. PICK d \in Timestamps(p) :
         holdTimestamp' = [i \in Items |-> IF i \in CopiesOf(p) THEN d[i[2]] ELSE holdTimestamp[i]]
  BY DEF GetsQueue
<1>2. d \in [1 .. Copies[p] -> 0 .. MaxTime]  BY <1>1, VoaAssumption DEF Timestamps, TypeOK
<1>3. holdTimestamp' \in [Items -> 0 .. MaxTime]
  <2>1. \A i \in Items : i \in CopiesOf(p) => d[i[2]] \in 0 .. MaxTime  BY <1>2, CopyOfOne
  <2>. QED BY <1>1, <2>1 DEF TypeOK
<1>4. Shipped' = Shipped  BY ShippedStays DEF GetsQueue
<1>5. \A i \in Shipped : holdTimestamp'[i] = holdTimestamp[i]
  BY <1>1, HeldIsNew, ShippedItem DEF GetsQueue
<1>6. First(voaQueue)' = First(voaQueue)  BY <1>5 DEF First, TypeOK, GetsQueue, queueVars
<1>. QED
  BY <1>3, <1>4, <1>5, <1>6 DEF TypeOK, GetsQueue, queueVars, workVars, Running

LEMMA TypesStep ==
    ASSUME TypeOK, [Next]_vars
    PROVE  TypeOK'
<1>1. ASSUME NEW p \in Packages, GetsQueue(p) PROVE TypeOK'  BY <1>1, GetsQueueTypes
<1>2. ASSUME NEW p \in Packages, TurnedAway(p) PROVE TypeOK'
  <2>1. Shipped' = Shipped  BY <1>2, ShippedStays DEF TurnedAway
  <2>. QED BY <1>2, <2>1 DEF TypeOK, TurnedAway, queueVars, workVars, First, Running
<1>3. ASSUME NEW p \in Packages, Process(p) PROVE TypeOK'
  <2>1. Shipped' = Shipped \cup CopiesOf(p)  BY <1>3, ShippedGrows
  <2>2. IF voaQueue' = {} THEN top' = NoItem ELSE top' \in First(voaQueue)'
    BY <1>3 DEF Process, TopOf, First
  <2>. QED BY <1>3, <2>1, <2>2 DEF TypeOK, Process, Notified, Running
<1>4. CASE Pop
  <2>1. Shipped' = Shipped  BY <1>4 DEF Pop, Shipped, CopiesOf
  <2>2. IF voaQueue' = {} THEN top' = NoItem ELSE top' \in First(voaQueue)'
    BY <1>4 DEF Pop, TopOf, First
  <2>. QED BY <1>4, <2>1, <2>2 DEF TypeOK, Pop, Popped, Running
<1>5. CASE TakesItem
  <2>1. Shipped' = Shipped  BY <1>5 DEF TakesItem, Shipped, CopiesOf
  <2>2. top \in Items  BY <1>5, ShippedItem DEF TakesItem, Due, TypeOK, First
  <2>. QED BY <1>5, <2>1, <2>2, VoaAssumption DEF TypeOK, TakesItem, queueVars, First, Running
<1>6. CASE Callback
  <2>1. Shipped' = Shipped  BY <1>6 DEF Callback, Shipped, CopiesOf
  <2>. QED BY <1>6, <2>1 DEF TypeOK, Callback, queueVars, First, Running
<1>7. CASE Waits
  <2>1. Shipped' = Shipped  BY <1>7 DEF Waits, Shipped, CopiesOf
  <2>2. voaQueue # {} => holdTimestamp[top] \in 0 .. MaxTime
    BY ShippedItem DEF TypeOK, First
  <2>. QED BY <1>7, <2>1, <2>2 DEF TypeOK, Waits, queueVars, First, Running
<1>8. ASSUME NEW c \in Stoppers, StopThread(c) PROVE TypeOK'
  <2>1. Shipped' = Shipped  BY <1>8 DEF StopThread, Shipped, CopiesOf
  <2>. QED BY <1>8, <2>1 DEF TypeOK, StopThread, AfterNotify, Notified, queueVars, First, Running
<1>9. CASE \/ Tick \/ StartThread \/ SpuriousWakeUp \/ Exits \/ TimesOut \/ GoesBack
           \/ \E c \in Stoppers : ShutdownBegins(c) \/ JoinTimesOut(c)
  <2>1. Shipped' = Shipped
    BY <1>9 DEF Tick, StartThread, SpuriousWakeUp, Exits, TimesOut, GoesBack, ShutdownBegins,
       JoinTimesOut, Shipped, CopiesOf
  <2>. QED
    BY <1>9, <2>1, VoaAssumption DEF TypeOK, Tick, StartThread, SpuriousWakeUp, Exits, TimesOut, GoesBack,
       ShutdownBegins, JoinTimesOut, queueVars, workVars, First, Running
<1>10. CASE UNCHANGED vars
  <2>1. Shipped' = Shipped  BY <1>10 DEF vars, Shipped, CopiesOf
  <2>. QED BY <1>10, <2>1 DEF vars, TypeOK, queueVars, workVars, First, Running
<1>. QED
  BY <1>1, <1>2, <1>3, <1>4, <1>5, <1>6, <1>7, <1>8, <1>9, <1>10 DEF Next, WorkThread, Environment

\* The state and the queue have their types, and the top is due first.
THEOREM TypeCorrect == Spec => []TypeOK
<1>1. Init => TypeOK  BY VInvInit DEF VInv
<1>2. TypeOK /\ [Next]_vars => TypeOK'  BY TypesStep
<1>. QED BY <1>1, <1>2, PTL DEF Spec

\* The queue is served in the order of hold times: the callback that starts is of an
\* item that nothing in the queue is due before (runVoaThread copies top()).
THEOREM InOrderCorrect == Spec => InOrder
<1>1. ASSUME TypeOK, [Next]_vars, worker' = "call", worker # "call"
      PROVE  \A i \in voaQueue' : holdTimestamp'[currItem'] <= holdTimestamp'[i]
  <2>1. TakesItem
    BY <1>1 DEF vars, workVars, Next, WorkThread, Environment, Tick, StartThread, SpuriousWakeUp,
       ShutdownBegins, JoinTimesOut, StopThread, Exits, Waits, TimesOut, GoesBack, TakesItem,
       Callback, Pop, GetsQueue, TurnedAway, Process, Notified
  <2>. QED BY <1>1, <2>1 DEF TypeOK, TakesItem, Due, queueVars, First
<1>2. TypeOK /\ [Next]_vars
        => (worker' = "call" /\ worker # "call" =>
              \A i \in voaQueue' : holdTimestamp'[currItem'] <= holdTimestamp'[i])
  BY <1>1
<1>. QED BY <1>2, TypeCorrect, PTL DEF Spec, InOrder

--------------------------------------------------------------------------------
(* Never early, and only what was shipped                                       *)

LEMMA RunsAnItemStep ==
    ASSUME VInv, Next
    PROVE  RunsAnItem'
<1>. USE DEF VInv
<1>1. CASE /\ Quiet /\ UNCHANGED currItem /\ (Running' <=> Running)
  <2>1. now \in Int /\ now' \in Int /\ now' >= now /\ holdTimestamp \in [Items -> Int]
    BY <1>1, TypesStep DEF Quiet, TypeOK
  <2>. QED BY <1>1, <2>1, QuietShipped, ShippedItem DEF RunsAnItem, NotEarly
<1>2. CASE TakesItem
  <2>1. Shipped' = Shipped  BY <1>2 DEF TakesItem, Shipped, CopiesOf
  <2>2. top \in Shipped /\ holdTimestamp[top] <= now  BY <1>2 DEF TakesItem, Due, TypeOK, First
  <2>. QED BY <1>2, <2>1, <2>2 DEF TakesItem, RunsAnItem, NotEarly, Running, queueVars
<1>3. CASE Callback
  <2>1. Shipped' = Shipped  BY <1>3 DEF Callback, Shipped, CopiesOf
  <2>2. Running /\ currItem \in Shipped  BY <1>3 DEF Callback, RunsAnItem, Running
  <2>. QED BY <1>3, <2>1, <2>2 DEF Callback, RunsAnItem, NotEarly, Running, TypeOK
<1>4. CASE Pop
  <2>1. Shipped' = Shipped  BY <1>4 DEF Pop, Shipped, CopiesOf
  <2>. QED BY <1>4, <2>1 DEF Pop, RunsAnItem, NotEarly, Running
<1>5. ASSUME NEW p \in Packages, GetsQueue(p) PROVE RunsAnItem'
  <2>1. Shipped' = Shipped /\ \A i \in Shipped : holdTimestamp'[i] = holdTimestamp[i]
    BY <1>5, GetsQueueTypes
  <2>. QED BY <1>5, <2>1 DEF GetsQueue, RunsAnItem, NotEarly, Running, workVars
<1>6. ASSUME NEW p \in Packages, TurnedAway(p) PROVE RunsAnItem'
  <2>1. Shipped' = Shipped  BY <1>6, ShippedStays DEF TurnedAway
  <2>. QED BY <1>6, <2>1 DEF TurnedAway, RunsAnItem, NotEarly, Running, workVars
<1>7. ASSUME NEW p \in Packages, Process(p) PROVE RunsAnItem'
  <2>1. Shipped' = Shipped \cup CopiesOf(p)  BY <1>7, ShippedGrows
  <2>. QED BY <1>7, <2>1 DEF Process, Notified, RunsAnItem, NotEarly, Running
<1>. QED BY <1>1, <1>2, <1>3, <1>4, <1>5, <1>6, <1>7, StepShape

LEMMA VInvStep == ASSUME VInv, [Next]_vars PROVE VInv'
<1>1. CASE Next  BY <1>1, RunsAnItemStep, TypesStep DEF VInv
<1>2. CASE UNCHANGED vars
  <2>1. Shipped' = Shipped  BY <1>2 DEF vars, Shipped, CopiesOf
  <2>. QED BY <1>2, <2>1, TypesStep DEF vars, queueVars, workVars, VInv, RunsAnItem, NotEarly, Running
<1>. QED BY <1>1, <1>2

\* No callback starts before its item is due, whatever wakes the thread: a push, a
\* stop, a deadline that is stale, or nothing at all.
THEOREM NotEarlyCorrect == Spec => []NotEarly
<1>1. Init => VInv  BY VInvInit
<1>2. VInv /\ [Next]_vars => VInv'  BY VInvStep
<1>3. VInv => NotEarly  BY DEF VInv, RunsAnItem
<1>. QED BY <1>1, <1>2, <1>3, PTL DEF Spec

--------------------------------------------------------------------------------
(* Conservation.  As long as nothing was pushed during the callback of an item  *)
(* that is due later, what is popped is what ran.                               *)

LEMMA OnceStep ==
    ASSUME OnceInv, Next
    PROVE  RunsTheFirst' /\ ExactlyOnce'
<1>. USE DEF OnceInv, VInv
<1>1. CASE /\ Quiet /\ UNCHANGED currItem /\ (Running' <=> Running)
           /\ (worker = "return" <=> worker' = "return")
  BY <1>1, QuietShipped DEF RunsTheFirst, ExactlyOnce
<1>2. CASE TakesItem
  <2>1. Shipped' = Shipped  BY <1>2 DEF TakesItem, Shipped, CopiesOf
  <2>. QED BY <1>2, <2>1 DEF TakesItem, Due, RunsTheFirst, ExactlyOnce, Running, queueVars
<1>3. CASE Callback
  <2>1. Shipped' = Shipped  BY <1>3 DEF Callback, Shipped, CopiesOf
  <2>2. ~overtaken => currItem = top /\ currItem \in voaQueue /\ ran[currItem] = 0
    BY <1>3 DEF Callback, Running, RunsTheFirst, ExactlyOnce, TypeOK, First
  <2>3. ~overtaken => \A i \in Shipped : ran'[i] = IF i = currItem THEN 1 ELSE ran[i]
    BY <1>3, <2>2, ShippedItem DEF Callback, TypeOK
  <2>4. worker = "call" /\ worker' = "return" /\ UNCHANGED <<voaQueue, top, currItem, overtaken>>
    BY <1>3 DEF Callback, queueVars
  <2>5. RunsTheFirst'  BY <2>4 DEF RunsTheFirst, Running
  <2>6. ExactlyOnce'  BY <2>1, <2>2, <2>3, <2>4 DEF ExactlyOnce
  <2>. QED BY <2>5, <2>6
<1>4. CASE Pop
  <2>1. Shipped' = Shipped  BY <1>4 DEF Pop, Shipped, CopiesOf
  <2>2. ~overtaken => currItem = top  BY <1>4 DEF Pop, RunsTheFirst, Running
  <2>. QED BY <1>4, <2>1, <2>2 DEF Pop, Popped, RunsTheFirst, ExactlyOnce, Running
<1>5. ASSUME NEW p \in Packages, GetsQueue(p) PROVE RunsTheFirst' /\ ExactlyOnce'
  BY <1>5, GetsQueueTypes DEF GetsQueue, RunsTheFirst, ExactlyOnce, Running, workVars, queueVars
<1>6. ASSUME NEW p \in Packages, TurnedAway(p) PROVE RunsTheFirst' /\ ExactlyOnce'
  <2>1. Shipped' = Shipped  BY <1>6, ShippedStays DEF TurnedAway
  <2>. QED BY <1>6, <2>1 DEF TurnedAway, RunsTheFirst, ExactlyOnce, Running, workVars, queueVars
<1>7. ASSUME NEW p \in Packages, Process(p) PROVE RunsTheFirst' /\ ExactlyOnce'
  <2>1. Shipped' = Shipped \cup CopiesOf(p)  BY <1>7, ShippedGrows
  <2>2. CopiesOf(p) \cap Shipped = {} /\ CopiesOf(p) \subseteq Items
    BY <1>7, HeldIsNew, CopyOfOne DEF Process
  <2>3. RunsTheFirst'
    <3>1. SUFFICES ASSUME ~overtaken', Running
                   PROVE  voaQueue' # {} /\ top' = top /\ currItem' = currItem
      BY <1>7 DEF Process, Notified, Running, RunsTheFirst
    <3>2. top \in First(voaQueue) /\ currItem = top
      BY <1>7, <3>1 DEF Process, RunsTheFirst, TypeOK
    <3>3. \A i \in CopiesOf(p) : holdTimestamp[top] <= holdTimestamp[i]
      <4>1. \A i \in CopiesOf(p) : ~(holdTimestamp[i] < holdTimestamp[top])
        BY <1>7, <3>1, <3>2 DEF Process, Overtakes
      <4>. QED BY <2>2, <3>2, <4>1, ShippedItem DEF TypeOK, First
    <3>4. top \in First(voaQueue')  BY <1>7, <3>2, <3>3 DEF Process, First
    <3>. QED BY <1>7, <3>4 DEF Process, TopOf
  <2>4. ExactlyOnce'
    <3>1. \A i \in CopiesOf(p) : ran[i] = 0  BY <2>2 DEF RunsAnItem
    <3>2. worker = "return" => currItem \in Shipped  BY DEF RunsAnItem, Running
    <3>. QED BY <1>7, <2>1, <2>2, <3>1, <3>2 DEF Process, Notified, ExactlyOnce, Running
  <2>. QED BY <2>3, <2>4
<1>. QED BY <1>1, <1>2, <1>3, <1>4, <1>5, <1>6, <1>7, StepShape

\* As long as nothing overtakes the item being run, each copy that process() pushed
\* is run exactly once, and removed by the pop that follows its own callback.
THEOREM ExactlyOnceCorrect == Spec => []ExactlyOnce
<1>1. Init => OnceInv  BY VInvInit DEF OnceInv
<1>2. ASSUME OnceInv, [Next]_vars PROVE OnceInv'
  <2>1. CASE Next  BY <1>2, <2>1, OnceStep, VInvStep DEF OnceInv
  <2>2. CASE UNCHANGED vars
    <3>1. Shipped' = Shipped  BY <2>2 DEF vars, Shipped, CopiesOf
    <3>. QED BY <1>2, <2>2, <3>1, VInvStep DEF OnceInv, vars, queueVars, workVars, RunsTheFirst,
                ExactlyOnce, Running
  <2>. QED BY <1>2, <2>1, <2>2
<1>3. OnceInv /\ [Next]_vars => OnceInv'  BY <1>2
<1>4. OnceInv => ExactlyOnce  BY DEF OnceInv
<1>. QED BY <1>1, <1>3, <1>4, PTL DEF Spec

--------------------------------------------------------------------------------
(* Stopping                                                                     *)

OneStopper == \A c, d \in Stoppers : c = d

\* Once a stop has begun, the thread it waits for will not be started again, and one
\* that returned has seen it exit, or found that it never started.
StopsOnce ==
    /\ \A c \in Stoppers : ctl[c] \in {"notify", "join", "done"} => voa_thread_state = "STOPPED"
    /\ voa_thread_state = "STOPPED" => \/ worker \in {"off", "exit"}
                                       \/ \E c \in Stoppers : ctl[c] \in {"notify", "join", "terminated"}
    /\ worker = "off" => voa_thread_state = "STOPPED"
    /\ StoppedForGood

LEMMA StopsOnceStep ==
    ASSUME OneStopper, TypeOK, StopsOnce, [Next]_vars
    PROVE  StopsOnce'
<1>1. CASE StartThread
  BY <1>1 DEF StartThread, isShuttingDown, StopsOnce, StoppedForGood
<1>2. ASSUME NEW c \in Stoppers, StopThread(c) PROVE StopsOnce'
  <2>1. \A d \in Stoppers : d = c  BY DEF OneStopper
  <2>2. ctl[c] = "shutting" /\ voa_thread_state = "STOPPED" => worker \in {"off", "exit"}
    BY <2>1 DEF StopsOnce
  <2>3. ctl'[c] \in {"notify", "join", "done"} /\ voa_thread_state' = "STOPPED"
    BY <1>2 DEF StopThread, AfterNotify, TypeOK, StopsOnce
  <2>4. ctl'[c] = "done" => worker' \in {"off", "exit"}
    BY <1>2, <2>2 DEF StopThread, AfterNotify, TypeOK
  <2>5. ctl'[c] # "done" => ctl'[c] \in {"notify", "join"}  BY <2>3
  <2>6. worker' = "off" => voa_thread_state' = "STOPPED"  BY <2>3
  <2>7. StoppedForGood'  BY <2>1, <2>4 DEF StoppedForGood
  <2>. QED BY <2>1, <2>3, <2>4, <2>5, <2>6, <2>7 DEF StopsOnce
<1>3. ASSUME NEW c \in Stoppers, ShutdownBegins(c) \/ JoinTimesOut(c) PROVE StopsOnce'
  <2>1. \A d \in Stoppers : d = c  BY DEF OneStopper
  <2>. QED BY <1>3, <2>1 DEF ShutdownBegins, JoinTimesOut, workVars, StopsOnce, StoppedForGood, TypeOK
<1>4. CASE \/ Tick \/ Exits \/ Waits \/ TimesOut \/ SpuriousWakeUp \/ GoesBack \/ TakesItem
           \/ Callback \/ Pop \/ UNCHANGED vars
           \/ \E p \in Packages : GetsQueue(p) \/ TurnedAway(p) \/ Process(p)
  BY <1>4 DEF Tick, Exits, Waits, TimesOut, SpuriousWakeUp, GoesBack, TakesItem, Callback, Pop, vars,
     GetsQueue, TurnedAway, Process, Notified, workVars, StopsOnce, StoppedForGood
<1>. QED BY <1>1, <1>2, <1>3, <1>4 DEF Next, WorkThread, Environment

\* With one thread that shuts down, once stopThread() returned no callback runs.
THEOREM StoppedForGoodCorrect == OneStopper /\ Spec => []StoppedForGood
<1>1. OneStopper /\ Init => OneStopper /\ StopsOnce  BY DEF Init, StopsOnce, StoppedForGood
<1>2. OneStopper /\ TypeOK /\ StopsOnce /\ [Next]_vars => (OneStopper /\ StopsOnce)'
  BY StopsOnceStep DEF OneStopper
<1>3. StopsOnce => StoppedForGood  BY DEF StopsOnce
<1>. QED BY <1>1, <1>2, <1>3, TypeCorrect, PTL DEF Spec

--------------------------------------------------------------------------------
(* What is lost when an item is overtaken.  The thread removes one item per    *)
(* callback, so the sums agree; the item removed in place of the one that ran   *)
(* is due before it, and that one, due later, runs again.                       *)

\* The rules make finitely many copies.
LEMMA ItemsFinite == IsFiniteSet(Items)
<1> DEFINE f == [p \in Packages |-> CopiesOf(p)]
           T == {CopiesOf(p) : p \in Packages}
<1>1. f \in Surjection(Packages, T)  BY DEF Surjection
<1>2. IsFiniteSet(T)
  <2> HIDE DEF f, T
  <2>. QED BY <1>1, FS_Surjection, VoaAssumption
<1>3. ASSUME NEW p \in Packages PROVE IsFiniteSet(CopiesOf(p))
  <2>1. IsFiniteSet({p})  BY FS_Singleton
  <2>2. IsFiniteSet(1 .. Copies[p])
    <3>1. 1 \in Int /\ Copies[p] \in Int  BY VoaAssumption
    <3>. QED BY <3>1, FS_Interval
  <2>3. IsFiniteSet({p} \X (1 .. Copies[p]))  BY <2>1, <2>2, FS_Product
  <2>4. CopiesOf(p) = {p} \X (1 .. Copies[p])  BY DEF CopiesOf
  <2>. QED BY <2>3, <2>4
<1>4. \A C \in T : IsFiniteSet(C)  BY <1>3
<1>5. Items = UNION T  BY DEF Items
<1> HIDE DEF T
<1> QED BY <1>2, <1>4, <1>5, FS_UNION

Gone == Shipped \ voaQueue
Returns == IF worker = "return" THEN 1 ELSE 0
\* j ran in place of an item that was removed, and runs once more or has done so
RunsAgain(j) == ran[j] > 1 \/ (ran[j] = 1 /\ j \in voaQueue /\ (worker = "return" => currItem # j))
LostInv ==
    /\ Running => currItem \in voaQueue /\ top \in voaQueue
    /\ Running /\ top # currItem => holdTimestamp[top] < holdTimestamp[currItem]
    /\ worker = "return" => ran[currItem] > 0
    /\ \A i \in Gone : ran[i] = 0 =>
          \E j \in Shipped : holdTimestamp[j] > holdTimestamp[i] /\ RunsAgain(j)
CountInv == Cardinality(Gone) + Returns = SumOver(ran, Items)

\* What was shipped and what is gone are items, finitely many.
LEMMA GoneFinite ==
    ASSUME TypeOK
    PROVE  /\ Shipped \subseteq Items /\ Gone \subseteq Items
           /\ IsFiniteSet(Gone) /\ Cardinality(Gone) \in Nat
           /\ \A i \in Items : ran[i] \in Nat /\ holdTimestamp[i] \in Int
<1>1. Shipped \subseteq Items  BY ShippedItem
<1>2. Gone \subseteq Items  BY <1>1 DEF Gone
<1>3. IsFiniteSet(Gone)  BY <1>2, ItemsFinite, FS_Subset
<1>4. Cardinality(Gone) \in Nat  BY <1>3, FS_CardinalityType
<1> QED BY <1>1, <1>2, <1>3, <1>4, VoaAssumption DEF TypeOK

LEMMA LostProcess ==
    ASSUME VInv, LostInv, CountInv, NEW p \in Packages, Process(p)
    PROVE  LostInv' /\ CountInv'
<1>1. Shipped' = Shipped \cup CopiesOf(p) /\ voaQueue' = voaQueue \cup CopiesOf(p)
  BY ShippedGrows DEF VInv, Process
<1>2. CopiesOf(p) \cap Shipped = {}  BY HeldIsNew DEF Process
<1>3. Gone' = Gone  BY <1>1, <1>2 DEF Gone, VInv, TypeOK
<1>4. /\ UNCHANGED <<holdTimestamp, currItem, ran>>
      /\ Running' <=> Running
      /\ worker' = "return" <=> worker = "return"
  BY DEF Process, Notified, Running
<1>5. CountInv'
  <2>1. Returns' = Returns  BY <1>4 DEF Returns
  <2>. QED BY <1>3, <1>4, <2>1 DEF CountInv
<1>6. ASSUME Running'
      PROVE  /\ currItem' \in voaQueue' /\ top' \in voaQueue'
             /\ top' # currItem' => holdTimestamp'[top'] < holdTimestamp'[currItem']
  <2>1. currItem \in voaQueue /\ top \in voaQueue  BY <1>4, <1>6 DEF LostInv
  <2>2. top' \in First(voaQueue') /\ (top \in First(voaQueue') => top' = top)
    BY <1>1, <2>1 DEF Process, TopOf
  <2>3. \A i \in voaQueue' : holdTimestamp[i] \in Int
    <3>1. voaQueue' \subseteq Items  BY <1>1, CopyOfOne, ShippedItem DEF VInv, TypeOK
    <3>. QED BY <3>1, GoneFinite DEF VInv
  <2>4. top' = top \/ holdTimestamp[top'] < holdTimestamp[top]
    BY <1>1, <2>1, <2>2, <2>3 DEF First
  <2>5. top = currItem \/ holdTimestamp[top] < holdTimestamp[currItem]
    BY <1>4, <1>6 DEF LostInv
  <2>6. top' \in voaQueue'  BY <2>2 DEF First
  <2>. QED BY <1>1, <1>4, <2>1, <2>3, <2>4, <2>5, <2>6
<1>7. \A j : RunsAgain(j) => RunsAgain(j)'
  BY <1>1, <1>4 DEF RunsAgain
<1> QED BY <1>1, <1>3, <1>4, <1>5, <1>6, <1>7 DEF LostInv

LEMMA LostCallback ==
    ASSUME VInv, LostInv, CountInv, Callback
    PROVE  LostInv' /\ CountInv'
<1>1. /\ worker = "call" /\ worker' = "return" /\ currItem \in Shipped
      /\ ran' = [ran EXCEPT ![currItem] = @ + 1]
      /\ UNCHANGED <<voaQueue, top, holdTimestamp, ship, currItem>>
  BY DEF Callback, queueVars, VInv, RunsAnItem, Running
<1>2. Shipped' = Shipped /\ Gone' = Gone  BY <1>1 DEF Shipped, CopiesOf, Gone
<1>3. currItem \in Items /\ ran[currItem] \in Nat
  BY <1>1, GoneFinite DEF VInv
<1>4. /\ ran'[currItem] = ran[currItem] + 1
      /\ \A i \in Items \ {currItem} : ran'[i] = ran[i]
  BY <1>1, <1>3 DEF VInv, TypeOK
<1>5. CountInv'
  <2>1. \A i \in Items : ran[i] \in Nat  BY GoneFinite DEF VInv
  <2>2. /\ SumOver(ran, Items) \in Nat
        /\ SumOver(ran', Items) + ran[currItem] = SumOver(ran, Items) + ran'[currItem]
    BY <1>3, <1>4, <2>1, ItemsFinite, SumChange
  <2>3. SumOver(ran', Items) \in Nat
    <3>1. \A i \in Items : ran'[i] \in Nat  BY <1>3, <1>4, <2>1
    <3>. QED BY <3>1, ItemsFinite, SumUnfold
  <2>4. SumOver(ran', Items) = SumOver(ran, Items) + 1  BY <1>3, <1>4, <2>2, <2>3
  <2>5. Returns = 0 /\ Returns' = 1  BY <1>1 DEF Returns
  <2>6. Cardinality(Gone) \in Nat /\ SumOver(ran, Items)' = SumOver(ran', Items)
    BY GoneFinite DEF VInv, Items, CopiesOf
  <2>. QED BY <1>2, <2>2, <2>4, <2>5, <2>6 DEF CountInv
<1>6. ASSUME NEW j \in Shipped, RunsAgain(j) PROVE RunsAgain(j)'
  <2>1. j \in Items /\ ran[j] \in Nat /\ ran[j] > 0  BY <1>6, GoneFinite DEF VInv, RunsAgain
  <2>. QED BY <1>1, <1>3, <1>4, <1>6, <2>1 DEF RunsAgain
<1>7. ASSUME NEW i \in Gone', ran'[i] = 0
      PROVE  \E j \in Shipped' : holdTimestamp'[j] > holdTimestamp'[i] /\ RunsAgain(j)'
  <2>1. i \in Items /\ i \in Gone /\ ran[i] = 0
    BY <1>2, <1>3, <1>4, <1>7, GoneFinite DEF VInv
  <2>. QED BY <1>1, <1>2, <1>6, <2>1 DEF LostInv
<1>8. Running /\ Running'  BY <1>1 DEF Running
<1>9. ran'[currItem'] > 0  BY <1>1, <1>3, <1>4
<1> QED BY <1>1, <1>5, <1>7, <1>8, <1>9 DEF LostInv

LEMMA LostPop ==
    ASSUME VInv, LostInv, CountInv, Pop
    PROVE  LostInv' /\ CountInv'
<1>1. /\ worker = "return" /\ worker' = "top" /\ voaQueue' = voaQueue \ {top}
      /\ UNCHANGED <<holdTimestamp, ship, ran>>
  BY DEF Pop, Popped
<1>2. Running /\ ~Running'  BY <1>1 DEF Running
<1>3. currItem \in voaQueue /\ top \in voaQueue /\ currItem \in Shipped /\ top \in Shipped
  BY <1>2 DEF LostInv, VInv, RunsAnItem, TypeOK
<1>4. Shipped' = Shipped  BY <1>1 DEF Shipped, CopiesOf
<1>5. top \notin Gone /\ Gone' = Gone \cup {top}  BY <1>1, <1>3, <1>4 DEF Gone
<1>6. CountInv'
  <2>1. /\ IsFiniteSet(Gone) /\ Cardinality(Gone) \in Nat
        /\ Cardinality(Gone \cup {top}) = Cardinality(Gone) + 1
    BY <1>5, GoneFinite, FS_AddElement DEF VInv
  <2>2. Returns = 1 /\ Returns' = 0  BY <1>1 DEF Returns
  <2>. QED BY <1>1, <1>5, <2>1, <2>2 DEF CountInv
<1>7. \A i \in Shipped : ran[i] \in Nat /\ holdTimestamp[i] \in Int
  BY GoneFinite DEF VInv
<1>8. ran[currItem] > 0  BY <1>1 DEF LostInv
\* what ran takes the place of what is removed
<1>9. ASSUME NEW k, k = currItem, top # k
      PROVE  k \in Shipped /\ holdTimestamp[k] > holdTimestamp[top] /\ RunsAgain(k)'
  <2>1. holdTimestamp[top] < holdTimestamp[k]  BY <1>2, <1>9 DEF LostInv
  <2>2. k \in voaQueue' /\ k \in Shipped  BY <1>1, <1>3, <1>9
  <2>3. ran[k] = 1 \/ ran[k] > 1  BY <1>3, <1>7, <1>8, <1>9
  <2>4. RunsAgain(k)'  BY <1>1, <2>2, <2>3 DEF RunsAgain
  <2>. QED BY <1>3, <1>7, <2>1, <2>2, <2>4
<1>10. ASSUME NEW j \in Shipped, RunsAgain(j)
       PROVE  RunsAgain(j)' \/ (j = top /\ top # currItem)
  BY <1>1, <1>10 DEF RunsAgain
<1>11. ASSUME NEW i \in Gone', ran'[i] = 0
       PROVE  \E j \in Shipped' : holdTimestamp'[j] > holdTimestamp'[i] /\ RunsAgain(j)'
  <2>. PICK k : k = currItem  OBVIOUS
  <2>1. CASE i = top
    <3>1. top # k  BY <1>1, <1>8, <1>11, <2>1
    <3>2. k \in Shipped /\ holdTimestamp[k] > holdTimestamp[top] /\ RunsAgain(k)'
      BY <1>9, <3>1
    <3>. QED BY <1>1, <1>4, <2>1, <3>2
  <2>2. CASE i \in Gone
    <3>1. PICK j \in Shipped : holdTimestamp[j] > holdTimestamp[i] /\ RunsAgain(j)
      BY <1>1, <1>11, <2>2 DEF LostInv
    <3>2. CASE RunsAgain(j)'  BY <1>1, <1>4, <3>1, <3>2
    <3>3. CASE j = top /\ top # k
      <4>1. i \in Shipped  BY <2>2 DEF Gone
      <4>2. k \in Shipped /\ holdTimestamp[k] > holdTimestamp[top] /\ RunsAgain(k)'
        BY <1>9, <3>3
      <4>3. holdTimestamp[k] > holdTimestamp[i]  BY <1>7, <3>1, <3>3, <4>1, <4>2
      <4>. QED BY <1>1, <1>4, <4>2, <4>3
    <3>. QED BY <1>10, <3>1, <3>2, <3>3
  <2>. QED BY <1>5, <1>11, <2>1, <2>2
<1> QED BY <1>1, <1>2, <1>6, <1>11 DEF LostInv

LEMMA LostStep ==
    ASSUME VInv, LostInv, CountInv, Next
    PROVE  LostInv' /\ CountInv'
<1>1. ASSUME UNCHANGED <<voaQueue, top, ran>>, Shipped' = Shipped,
             \A i \in Shipped : holdTimestamp'[i] = holdTimestamp[i],
             currItem' = currItem, Running' <=> Running, worker' = "return" <=> worker = "return"
      PROVE  LostInv' /\ CountInv'
  <2>1. Gone' = Gone /\ Returns' = Returns /\ Gone \subseteq Shipped /\ voaQueue \subseteq Shipped
    BY <1>1 DEF Gone, Returns, VInv, TypeOK
  <2>2. CountInv'  BY <1>1, <2>1 DEF CountInv
  <2>3. \A j : RunsAgain(j)' <=> RunsAgain(j)  BY <1>1 DEF RunsAgain
  <2>4. LostInv'  BY <1>1, <2>1, <2>3 DEF LostInv
  <2>. QED BY <2>2, <2>4
<1>2. CASE /\ Quiet /\ UNCHANGED currItem /\ (Running' <=> Running)
           /\ (worker = "return" <=> worker' = "return")
  BY <1>1, <1>2, QuietShipped
<1>3. CASE TakesItem
  <2>1. /\ worker' = "call" /\ worker # "return" /\ currItem' = top /\ voaQueue # {}
        /\ UNCHANGED <<voaQueue, top, holdTimestamp, ship, ran>>
    BY <1>3 DEF TakesItem, Due, queueVars
  <2>2. Shipped' = Shipped  BY <2>1 DEF Shipped, CopiesOf
  <2>3. Gone' = Gone /\ Returns' = Returns  BY <2>1, <2>2 DEF Gone, Returns
  <2>4. top \in voaQueue  BY <2>1 DEF VInv, TypeOK, First
  <2>5. CountInv'  BY <2>1, <2>3 DEF CountInv
  <2>6. \A j : RunsAgain(j) => RunsAgain(j)'  BY <2>1 DEF RunsAgain
  <2>7. LostInv'  BY <2>1, <2>2, <2>3, <2>4, <2>6 DEF LostInv, Running
  <2>. QED BY <2>5, <2>7
<1>4. ASSUME NEW p \in Packages, GetsQueue(p) PROVE LostInv' /\ CountInv'
  <2>1. UNCHANGED <<voaQueue, top, ran, currItem, worker>>
    BY <1>4 DEF GetsQueue, queueVars, workVars
  <2>. QED BY <1>1, <1>4, <2>1, GetsQueueTypes DEF VInv, Running
<1>5. ASSUME NEW p \in Packages, TurnedAway(p) PROVE LostInv' /\ CountInv'
  <2>1. UNCHANGED <<voaQueue, top, ran, currItem, worker, holdTimestamp>>
    BY <1>5 DEF TurnedAway, queueVars, workVars
  <2>2. Shipped' = Shipped  BY <1>5, ShippedStays DEF TurnedAway, VInv
  <2>. QED BY <1>1, <2>1, <2>2 DEF Running
<1> QED BY <1>2, <1>3, <1>4, <1>5, LostProcess, LostCallback, LostPop, StepShape DEF VInv

\* Whatever is pushed while callbacks run, nothing vanishes: an item removed without
\* having run was removed in place of one due later, which runs a second time, and
\* callbacks that ended and items that are gone are equally many.
THEOREM LostForAnotherCorrect == Spec => []LostForAnother
<1>1. Init => VInv /\ LostInv /\ CountInv
  <2>1. SUFFICES ASSUME Init PROVE LostInv /\ CountInv  BY VInvInit
  <2>2. Shipped = {} /\ ~Running /\ worker = "off"
    <3>1. Shipped = {}  BY <2>1 DEF Init, Shipped
    <3>. QED BY <2>1, <3>1 DEF Init, Running
  <2>3. Gone = {} /\ Returns = 0 /\ Cardinality(Gone) = 0  BY <2>2, FS_EmptySet DEF Gone, Returns
  <2>4. SumOver(ran, Items) = 0
    <3>1. \A i \in Items : ran[i] = 0  BY <2>1 DEF Init
    <3>. QED BY <3>1, ItemsFinite, SumOfNothing
  <2>. QED BY <2>2, <2>3, <2>4 DEF LostInv, CountInv
<1>2. (VInv /\ LostInv /\ CountInv) /\ [Next]_vars => (VInv /\ LostInv /\ CountInv)'
  <2>1. SUFFICES ASSUME VInv, LostInv, CountInv, [Next]_vars
                 PROVE  VInv' /\ LostInv' /\ CountInv'
    OBVIOUS
  <2>2. CASE UNCHANGED vars
    <3>1. Shipped' = Shipped /\ Gone' = Gone  BY <2>2 DEF vars, queueVars, Shipped, CopiesOf, Gone
    <3>2. \A j : RunsAgain(j)' <=> RunsAgain(j)
      BY <2>2 DEF RunsAgain, vars, queueVars, workVars
    <3>3. LostInv' /\ CountInv'
      BY <2>1, <2>2, <3>1, <3>2 DEF LostInv, CountInv, Returns, Running, vars, queueVars, workVars
    <3>. QED BY <2>1, <3>3, VInvStep
  <2>. QED BY <2>1, <2>2, LostStep, VInvStep
<1>3. VInv /\ LostInv /\ CountInv => LostForAnother
  <2>1. SUFFICES ASSUME VInv, LostInv, CountInv PROVE LostForAnother  OBVIOUS
  <2>2. \A i \in Items : ran[i] \in Nat  BY <2>1, GoneFinite DEF VInv
  <2>3. MapThenSumSet(LAMBDA i : ran[i], Items) = SumOver(ran, Items)
    BY <2>2, ItemsFinite, SumIsMap
  <2>. QED BY <2>1, <2>3 DEF LostForAnother, LostInv, CountInv, RunsAgain, Gone, Returns
<1>. QED BY <1>1, <1>2, <1>3, PTL DEF Spec
================================================================================
