------------------------------- MODULE VoaThread -------------------------------
(***************************************************************************)
(* Packages that a rule of the "voice of adversary" holds back, copies or  *)
(* corrupts before they are shipped:                                       *)
(* racesdk/core/source/VoaThread.{h,cpp}, with its callers in RaceSdk.cpp. *)
(*                                                                         *)
(* A sender computes with no lock when each copy of its package is due,    *)
(* and later hands the copies to the thread.  The thread copies the first  *)
(* item of the queue, runs its callback with no lock, and then removes     *)
(* what is the first item by then.  An action is one critical section of   *)
(* voa_queue_mutex, or a step outside of it.                               *)
(***************************************************************************)
EXTENDS Integers, FiniteSets, FiniteSetsExt

CONSTANTS
    Packages,        \* packages that match an active rule
    Copies,          \* how many copies of it the rule ships: 2 or more for "replay"
    Holds,           \* hold times of the rules; 0 for "tamper"
    MaxTime,         \* bound: the last second of the clock
    Stoppers,        \* threads that call RaceSdk::cleanShutdown, once each
    NoItem

CopiesOf(p) == {<<p, n>> : n \in 1 .. Copies[p]}
Items == UNION {CopiesOf(p) : p \in Packages}

ASSUME VoaAssumption ==
    /\ IsFiniteSet(Packages)
    /\ Copies \in [Packages -> Nat \ {0}]
    /\ Holds \subseteq Nat /\ MaxTime \in Nat
    /\ NoItem \notin Items

VARIABLES
    now,             \* system_clock, in seconds
    voa_thread_state,
    voaQueue, top,   \* the items of the priority queue, and voaQueue.top()
    holdTimestamp,   \* of each item
    ship,            \* what the thread sending a package is doing
    worker, currItem,
    until,           \* the deadline of wait_until
    ran,             \* history: how often the callback of an item has run
    overtaken,       \* history: an item was pushed while the callback of one due
                     \* later was running
    ctl              \* what the stopping threads are doing

queueVars == <<voaQueue, top>>
workVars  == <<worker, currItem, until, ran>>
vars == <<now, voa_thread_state, queueVars, holdTimestamp, ship, workVars, overtaken, ctl>>

Alive == \A c \in Stoppers : ctl[c] # "terminated"
isShuttingDown == \E c \in Stoppers : ctl[c] # "idle"
Running == worker \in {"call", "return"}

\* the items of Q that are due first
First(Q) == {i \in Q : \A j \in Q : holdTimestamp[i] <= holdTimestamp[j]}
TopOfAny(Q, t) == IF Q = {} THEN t = NoItem ELSE t \in Q  \* mutant
\* t is top() of a heap that holds Q.  An item keeps its place before one that is
\* pushed later with the same time; after a pop any of the first may be next.
TopOf(Q, t) ==
    IF Q = {} THEN t = NoItem
    ELSE /\ t \in First(Q)
         /\ top \in First(Q) => t = top

NotifiesNobody == worker  \* mutant
\* voa_thread_signaler.notify_one() or notify_all()
Notified == IF worker \in {"idle", "timed"} THEN "woken" ELSE worker

Init ==
    /\ now = 0 /\ voa_thread_state = "STOPPED"
    /\ voaQueue = {} /\ top = NoItem
    /\ holdTimestamp = [i \in Items |-> 0]
    /\ ship = [p \in Packages |-> "idle"]
    /\ worker = "off" /\ currItem = NoItem /\ until = 0
    /\ ran = [i \in Items |-> 0] /\ overtaken = FALSE
    /\ ctl = [c \in Stoppers |-> "idle"]

--------------------------------------------------------------------------------
Tick ==
    /\ Alive /\ now < MaxTime
    /\ now' = now + 1
    /\ UNCHANGED <<voa_thread_state, queueVars, holdTimestamp, ship, workVars, ctl,
                   overtaken>>

\* what getVoaPkgQueue() gives the copies of p: one is due after the hold time, of
\* several the first at once and each of the others a hold time after the last
Timestamps(p) ==
    {d \in [1 .. Copies[p] -> now .. MaxTime] :
        IF Copies[p] = 1 THEN d[1] - now \in Holds
        ELSE /\ d[1] = now
             /\ \A n \in 2 .. Copies[p] : d[n] - d[n - 1] \in Holds}

\* sendEncryptedPackage() up to getVoaPkgQueue(), which takes no lock of the thread.
\* A package that is dropped, or that no rule matches, never gets here.
GetsQueue(p) ==
    /\ Alive /\ ship[p] = "idle" /\ ~isShuttingDown
    /\ \E d \in Timestamps(p) :
          holdTimestamp' = [i \in Items |->
                                IF i \in CopiesOf(p) THEN d[i[2]] ELSE holdTimestamp[i]]
    /\ ship' = [ship EXCEPT ![p] = "held"]
    /\ UNCHANGED <<now, voa_thread_state, queueVars, workVars, ctl, overtaken>>

\* shipVoaItems() returns SDK_SHUTTING_DOWN
TurnedAway(p) ==
    /\ Alive /\ ship[p] = "held" /\ isShuttingDown
    /\ ship' = [ship EXCEPT ![p] = "refused"]
    /\ UNCHANGED <<now, voa_thread_state, queueVars, holdTimestamp, workVars, ctl,
                   overtaken>>

Overtakes(i) == Running /\ holdTimestamp[i] < holdTimestamp[currItem]

\* process(), some time after isShuttingDown was found false
Process(p) ==
    /\ Alive /\ ship[p] = "held"
    /\ ship' = [ship EXCEPT ![p] = "shipped"]
    /\ voaQueue' = voaQueue \cup CopiesOf(p)
    /\ top' \in voaQueue' /\ TopOf(voaQueue', top')
    /\ worker' = Notified
    /\ overtaken' = (overtaken \/ \E i \in CopiesOf(p) : Overtakes(i))
    /\ UNCHANGED <<now, voa_thread_state, holdTimestamp, currItem, until, ran, ctl>>

--------------------------------------------------------------------------------
(* runVoaThread()                                                            *)

DueOnceWoken == voaQueue # {} /\ (worker = "woken" \/ holdTimestamp[top] <= now)  \* mutant
Due == voaQueue # {} /\ holdTimestamp[top] <= now

\* startThread(), from initRaceSystem()
StartThread ==
    /\ Alive /\ worker = "off" /\ ~isShuttingDown
    /\ worker' = "top" /\ voa_thread_state' = "STARTED"
    /\ UNCHANGED <<now, queueVars, holdTimestamp, ship, currItem, until, ran, ctl,
                   overtaken>>

Exits ==
    /\ Alive /\ worker \in {"top", "woken"} /\ voa_thread_state = "STOPPED"
    /\ worker' = "exit"
    /\ UNCHANGED <<now, voa_thread_state, queueVars, holdTimestamp, ship, currItem, until,
                   ran, ctl, overtaken>>

\* nothing to do, or not yet: wait, or wait_until the first item is due
Waits ==
    /\ Alive /\ worker = "top" /\ voa_thread_state = "STARTED" /\ ~Due
    /\ IF voaQueue = {} THEN worker' = "idle" /\ until' = until
       ELSE worker' = "timed" /\ until' = holdTimestamp[top]
    /\ UNCHANGED <<now, voa_thread_state, queueVars, holdTimestamp, ship, currItem, ran,
                   ctl, overtaken>>

\* the deadline of wait_until is reached
TimesOut ==
    /\ Alive /\ worker = "timed" /\ until <= now
    /\ worker' = "woken"
    /\ UNCHANGED <<now, voa_thread_state, queueVars, holdTimestamp, ship, currItem, until,
                   ran, ctl, overtaken>>

SpuriousWakeUp ==
    /\ Alive /\ worker \in {"idle", "timed"}
    /\ worker' = "woken"
    /\ UNCHANGED <<now, voa_thread_state, queueVars, holdTimestamp, ship, currItem, until,
                   ran, ctl, overtaken>>

\* woken, but the queue is empty or its first item is not due
GoesBack ==
    /\ Alive /\ worker = "woken" /\ voa_thread_state = "STARTED" /\ ~Due
    /\ worker' = "top"
    /\ UNCHANGED <<now, voa_thread_state, queueVars, holdTimestamp, ship, currItem, until,
                   ran, ctl, overtaken>>

\* the item is copied and the lock released
TakesItem ==
    /\ Alive /\ worker \in {"top", "woken"} /\ voa_thread_state = "STARTED" /\ Due
    /\ worker' = "call" /\ currItem' = top
    /\ UNCHANGED <<now, voa_thread_state, queueVars, holdTimestamp, ship, until, ran, ctl,
                   overtaken>>

\* the callback: shipPackage(), with no lock held
Callback ==
    /\ Alive /\ worker = "call"
    /\ worker' = "return" /\ ran' = [ran EXCEPT ![currItem] = @ + 1]
    /\ UNCHANGED <<now, voa_thread_state, queueVars, holdTimestamp, ship, currItem, until,
                   ctl, overtaken>>

RemovesDue == {i \in voaQueue : holdTimestamp[i] <= now}  \* mutant
RemovesNothing == {}  \* mutant
\* voaQueue.pop(), whatever is the first item now
Popped == {top}

Pop ==
    /\ Alive /\ worker = "return"
    /\ voaQueue' = voaQueue \ Popped
    /\ top' \in voaQueue' \cup {NoItem} /\ TopOf(voaQueue', top')
    /\ worker' = "top" /\ currItem' = NoItem
    /\ UNCHANGED <<now, voa_thread_state, holdTimestamp, ship, until, ran, ctl, overtaken>>

--------------------------------------------------------------------------------
(* cleanShutdown(): isShuttingDown is set, the plugins are shut down, and     *)
(* then stopThread() is called.                                              *)

ShutdownBegins(c) ==
    /\ Alive /\ ctl[c] = "idle"
    /\ ctl' = [ctl EXCEPT ![c] = "shutting"]
    /\ UNCHANGED <<now, voa_thread_state, queueVars, holdTimestamp, ship, workVars,
                   overtaken>>

NoJoin == "done"  \* mutant
AfterNotify == "join"
StopThread(c) ==
    /\ Alive
    /\ \/ /\ ctl[c] = "shutting"
          /\ ctl' = [ctl EXCEPT ![c] = IF voa_thread_state = "STARTED" THEN "notify" ELSE "done"]
          /\ voa_thread_state' = "STOPPED" /\ worker' = worker
       \/ /\ ctl[c] = "notify"
          /\ ctl' = [ctl EXCEPT ![c] = AfterNotify]
          /\ worker' = Notified /\ UNCHANGED voa_thread_state
       \/ /\ ctl[c] = "join" /\ worker = "exit"
          /\ ctl' = [ctl EXCEPT ![c] = "done"]
          /\ UNCHANGED <<voa_thread_state, worker>>
    /\ UNCHANGED <<now, queueVars, holdTimestamp, ship, currItem, until, ran, overtaken>>

\* the five seconds of the join are over: std::terminate()
JoinTimesOut(c) ==
    /\ Alive /\ ctl[c] = "join" /\ worker # "exit"
    /\ ctl' = [ctl EXCEPT ![c] = "terminated"]
    /\ UNCHANGED <<now, voa_thread_state, queueVars, holdTimestamp, ship, workVars,
                   overtaken>>

--------------------------------------------------------------------------------
WorkThread == Exits \/ Waits \/ TimesOut \/ GoesBack \/ TakesItem \/ Callback \/ Pop
Environment ==
    \/ StartThread \/ SpuriousWakeUp
    \/ \E p \in Packages : GetsQueue(p) \/ TurnedAway(p) \/ Process(p)
    \/ \E c \in Stoppers : ShutdownBegins(c) \/ JoinTimesOut(c)

Next == Tick \/ WorkThread \/ Environment \/ \E c \in Stoppers : StopThread(c)
Spec == Init /\ [][Next]_vars

\* Time passes, the thread is scheduled, callbacks end, and a stop goes on.  No
\* package, no start and no shutdown is forced.
Fairness == WF_vars(Tick) /\ WF_vars(WorkThread) /\ \A c \in Stoppers : WF_vars(StopThread(c))
FairSpec == Spec /\ Fairness

--------------------------------------------------------------------------------
Shipped == UNION {CopiesOf(p) : p \in {r \in Packages : ship[r] = "shipped"}}

TypeOK ==
    /\ now \in 0 .. MaxTime /\ until \in 0 .. MaxTime
    /\ voa_thread_state \in {"STARTED", "STOPPED"}
    /\ voaQueue \subseteq Shipped
    /\ IF voaQueue = {} THEN top = NoItem ELSE top \in First(voaQueue)
    /\ holdTimestamp \in [Items -> 0 .. MaxTime]
    /\ ship \in [Packages -> {"idle", "held", "shipped", "refused"}]
    /\ worker \in {"off", "top", "idle", "timed", "woken", "call", "return", "exit"}
    /\ currItem \in Items \cup {NoItem} /\ (Running <=> currItem # NoItem)
    /\ ran \in [Items -> Nat] /\ overtaken \in BOOLEAN
    /\ ctl \in [Stoppers -> {"idle", "shutting", "notify", "join", "done", "terminated"}]

\* VoaThread.h: holdTimestamp is the "hold-time prior to invoking the deferred
\* action": no callback starts before its item is due, however the thread was woken.
NotEarly == Running => holdTimestamp[currItem] <= now

\* The queue is in "sorted holdtime order": a callback that starts is of an item no
\* other item in the queue is due before, whatever was pushed since the wake-up.
InOrder ==
    [][worker' = "call" /\ worker # "call" =>
          \A i \in voaQueue' : holdTimestamp'[currItem'] <= holdTimestamp'[i]]_vars

\* As long as no item was pushed during the callback of one due later, each item that
\* was pushed is run once: it is queued and has not run, or is being run, or has run
\* and is gone.
ExactlyOnce ==
    ~overtaken => \A i \in Shipped :
        ran[i] = IF i \notin voaQueue \/ (worker = "return" /\ currItem = i) THEN 1 ELSE 0

\* Whatever is pushed, an item that is gone and never ran was removed in place of one
\* due later, which runs twice: the thread removes one item per callback.
LostForAnother ==
    /\ \A i \in Shipped \ voaQueue :
          ran[i] = 0 => \E j \in Shipped : /\ holdTimestamp[j] > holdTimestamp[i]
                                           /\ ran[j] > 1 \/ (ran[j] = 1 /\ j \in voaQueue)
    /\ Cardinality(Shipped \ voaQueue) + (IF worker = "return" THEN 1 ELSE 0)
          = MapThenSumSet(LAMBDA i : ran[i], Items)

\* After stopThread() returned, no callback runs or will.
StoppedForGood == (\E c \in Stoppers : ctl[c] = "done") => worker \in {"off", "exit"}

\* VoaConfig.h:135: "A replaytimes value of 1 would result in two packages being sent
\* out": when all is done a package was shipped as often as it has copies.
CopiesSent ==
    voaQueue = {} /\ ~Running =>
        \A p \in Packages : ship[p] = "shipped" =>
            MapThenSumSet(LAMBDA i : ran[i], CopiesOf(p)) = Copies[p]

\* An item that was pushed is run, although the thread may sleep until a later item
\* is due when it comes, unless the thread is stopped or an item is overtaken.
Delivered ==
    \A i \in Items :
        (i \in voaQueue /\ voa_thread_state = "STARTED")
            ~> (ran[i] > 0 \/ voa_thread_state = "STOPPED" \/ overtaken)

\* stopThread() returns, or ends the process.
StopReturns ==
    \A c \in Stoppers : ctl[c] # "idle" ~> \/ ctl[c] = "done"
                                            \/ \E d \in Stoppers : ctl[d] = "terminated"
================================================================================
