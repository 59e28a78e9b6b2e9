-------------------------------- MODULE Handler --------------------------------
(***************************************************************************)
(* The work queue every plugin wrapper of the RACE SDK is built on:        *)
(* racesdk/core/source/Handler.{h,cpp}.                                    *)
(*                                                                         *)
(* Any thread posts work to a named queue.  Queues are grouped by integer  *)
(* priority.  One work thread runs the first work of a queue with no lock  *)
(* held; a callback that returns no value blocks its queue until somebody  *)
(* calls unblock_queue.  A second thread moves work whose deadline passed  *)
(* to timedOutQueue.  The code keeps counters instead of scanning queues,  *)
(* and loops for ever under data_mutex when those counters are wrong: most *)
(* of what can go wrong here is a counter that no longer tells the truth.  *)
(*                                                                         *)
(* Every action but PostBegin, Callback and the environment's two is one   *)
(* critical section of data_mutex.  A deadline is not a number: any work   *)
(* that has one may be found expired by any pass of the timeout thread.    *)
(***************************************************************************)
EXTENDS Integers, Sequences, FiniteSets, SequencesExt

CONSTANTS
    Works,           \* pieces of work; an id is used again once it is over
    Queues,          \* names a queue may have
    DefaultQueue,    \* the queue "" of the constructor
    Priority,        \* the priority a queue is created with
    Targets,         \* [Works -> SUBSET Queues], where the callers post it
    Size,            \* size in bytes of a work
    Timed,           \* works posted with a finite timeoutTimestamp
    Patient,         \* works posted with timeout = RACE_BLOCKING
    MayBlock,        \* queues whose callbacks may return std::nullopt
    MaxQueueSize,    \* max_queue_size
    MaxTotalSize,    \* max_total_size
    SizeMod,         \* 2^w, the range of size_t
    Controllers,     \* threads that call stop() or stop_immediate(), once each
    SerialStops,     \* no stop begins while another is in progress
    MarkBound,       \* bound: remove_queue is called on a queue already marked only
                     \* while total_marked is below it; 0 when callers never do
    NoQueue, NoWork

Priorities == {Priority[q] : q \in Queues}
HandlerStates == {"PRESTART", "STARTED", "STOPPING", "STOPPED"}

ASSUME QueuesAssumption ==
    /\ IsFiniteSet(Works) /\ IsFiniteSet(Queues)
    /\ DefaultQueue \in Queues /\ NoQueue \notin Queues /\ NoWork \notin Works
    /\ "dangling" \notin Queues \cup {NoQueue}
    /\ Priority \in [Queues -> Int] /\ Priority[DefaultQueue] = 0
    /\ Targets \in [Works -> SUBSET Queues]
    /\ Timed \subseteq Works /\ Patient \subseteq Works /\ MayBlock \subseteq Queues
    /\ SerialStops \in BOOLEAN /\ MarkBound \in Nat
ASSUME SizeAssumption ==
    /\ MaxQueueSize \in Nat /\ MaxTotalSize \in Nat
    /\ SizeMod \in Nat /\ SizeMod > 1 /\ Size \in [Works -> 0 .. SizeMod - 1]
    /\ Cardinality(Works) < SizeMod /\ Cardinality(Queues) < SizeMod
    /\ 2 * MaxTotalSize < SizeMod /\ 2 * MaxQueueSize < SizeMod

VARIABLES
    state,                  \* Handler::state
    queue_map,              \* names that have a queue
    queue, size,            \* per queue: the list of its work and its size
    marked, blocked,        \* queues whose flag of that name is set
    work_queues,            \* priority -> queues of that level, in list order
    unblocked_work_count, marked_count,              \* per level
    current_priority, queueIters,
    unblock_list, timeoutQueue, timedOutQueue,
    total_marked, total_size, unblocked_work,
    post,                   \* what the thread posting a work is doing
    at,                     \* Work::queueIter, or the queue it is posted to
    runningCallback,        \* works whose flag of that name is set
    notified,               \* works whose timeoutCallback has been called
    worker, cur,            \* work thread: where it is, the work it runs
    timer,                  \* timeout thread
    ctl,                    \* what the stopping threads are doing
    avail,                  \* queues whose callback would succeed now
    owed                    \* queues that became available, unblock to come

queueVars == <<queue_map, queue, size, marked, blocked, work_queues>>
countVars == <<unblocked_work_count, marked_count, total_marked, total_size,
               unblocked_work>>
iterVars  == <<current_priority, queueIters>>
timeVars  == <<timeoutQueue, timedOutQueue, notified>>
postVars  == <<post, at>>
workVars  == <<worker, cur, runningCallback>>
envVars   == <<avail, owed>>
vars == <<state, queueVars, countVars, iterVars, unblock_list, timeVars, postVars,
          workVars, timer, ctl, envVars>>

Alive == worker # "undefined" /\ \A c \in Controllers : ctl[c] # "terminated"
\* data_mutex can be taken: the work thread keeps it while it removes expired
\* work and, for ever, in the loops of get_next_queue_with_work.
Lockable == Alive /\ worker \notin {"purge", "spin"}

\* arithmetic of size_t, on 0 .. SizeMod - 1
Plus(a, b)  == IF a + b < SizeMod THEN a + b ELSE (a + b) - SizeMod
Minus(a, b) == IF a >= b THEN a - b ELSE (a - b) + SizeMod

QueuedIn(Q) == {w \in Works : post[w] = "queued" /\ at[w] \in Q}
Level(p) == {q \in Queues : Priority[q] = p}
Levels == {p \in Priorities : work_queues[p] # << >>}
HasMore(p) == unblocked_work_count[p] # 0 \/ marked_count[p] # 0

FirstFromAny(p, from, S) == p \in S  \* mutant
\* priority_levels is in descending order: p is the first member of S met by
\* an iterator that starts at `from' and wraps.
FirstFrom(p, from, S) ==
    /\ p \in S
    /\ \/ p <= from /\ \A r \in S : r <= from => r <= p
       \/ (\A r \in S : r > from) /\ (\A r \in S : r <= p)

Position(s, q) == SelectInSeq(s, LAMBDA r : r = q)
\* next_cycle on the list of a level: the only queue is its own successor
NextCycle(s, q) == IF Position(s, q) = Len(s) THEN s[1] ELSE s[Position(s, q) + 1]
\* how many times next_cycle is applied before an iterator at `from' reaches q
Turn(s, from, q) == (Position(s, q) - Position(s, from)) % Len(s)

\* the loop conditions of get_next_queue_with_work: q of level p is chosen
EligibleBlocked(q) == q \in queue_map /\ (q \in marked \/ queue[q] # << >>)  \* mutant
EligibleWithWork(q) == q \in queue_map \ blocked /\ queue[q] # << >>  \* mutant
Eligible(q) == q \in queue_map \ blocked /\ (q \in marked \/ queue[q] # << >>)
IterOf(p) == IF queueIters[p] = NoQueue THEN Head(work_queues[p]) ELSE queueIters[p]
IsNext(p, q) ==
    /\ FirstFrom(p, current_priority, {r \in Levels : HasMore(r)})
    /\ q \in Level(p) /\ Eligible(q)
    /\ \A r \in Level(p) : Eligible(r) =>
          Turn(work_queues[p], IterOf(p), q) <= Turn(work_queues[p], IterOf(p), r)

NeverRaised(p) == current_priority  \* mutant
RaisedTo(p) == IF p > current_priority THEN p ELSE current_priority
NotifyNobody(f) == f  \* mutant
\* post_signaler.notify_all()
NotifyAll(f) == [w \in Works |-> IF f[w] = "waiting" THEN "entering" ELSE f[w]]

\* blocked queues do not count
CountsAlways(q) == TRUE  \* mutant
Counts(q) == q \notin blocked

Init ==
    /\ state = "PRESTART"
    /\ queue_map = {DefaultQueue}
    /\ queue = [q \in Queues |-> << >>] /\ size = [q \in Queues |-> 0]
    /\ marked = {} /\ blocked = {}
    /\ work_queues = [p \in Priorities |-> IF p = 0 THEN <<DefaultQueue>> ELSE << >>]
    /\ unblocked_work_count = [p \in Priorities |-> 0]
    /\ marked_count = [p \in Priorities |-> 0]
    /\ current_priority = 0 /\ queueIters = [p \in Priorities |-> NoQueue]
    /\ unblock_list = {} /\ timeoutQueue = {} /\ timedOutQueue = {}
    /\ total_marked = 0 /\ total_size = 0 /\ unblocked_work = 0
    /\ post = [w \in Works |-> "idle"] /\ at = [w \in Works |-> NoQueue]
    /\ runningCallback = {} /\ notified = {}
    /\ worker = "off" /\ cur = NoWork /\ timer = "off"
    /\ ctl = [c \in Controllers |-> "idle"]
    /\ avail \in SUBSET MayBlock /\ owed = {}

--------------------------------------------------------------------------------
(* post().  A work whose deadline is past, or that is too large for an empty *)
(* queue, is turned away at once and changes nothing: it stays "idle".       *)

\* the checks made before the lock is taken, the load of `state' among them
PostBegin(w, q) ==
    /\ Alive /\ post[w] = "idle" /\ q \in Targets[w]
    /\ Size[w] <= MaxQueueSize /\ Size[w] <= MaxTotalSize
    /\ state \in {"PRESTART", "STARTED"}
    /\ post' = [post EXCEPT ![w] = "entering"] /\ at' = [at EXCEPT ![w] = q]
    /\ UNCHANGED <<state, queueVars, countVars, iterVars, unblock_list, timeVars,
                   workVars, timer, ctl, envVars>>

Fits(w) == /\ Plus(size[at[w]], Size[w]) <= MaxQueueSize
           /\ Plus(total_size, Size[w]) <= MaxTotalSize

\* std::out_of_range: there is no such queue, or it is being removed.
\* QUEUE_FULL or HANDLER_FULL: the wait_for ended and the work does not fit.
PostFails(w) ==
    /\ Lockable /\ post[w] = "entering"
    /\ \/ at[w] \notin queue_map
       \/ at[w] \in marked
       \/ ~Fits(w) /\ w \notin Patient
    /\ post' = [post EXCEPT ![w] = "idle"] /\ at' = [at EXCEPT ![w] = NoQueue]
    /\ UNCHANGED <<state, queueVars, countVars, iterVars, unblock_list, timeVars,
                   workVars, timer, ctl, envVars>>

\* the predicate is false: wait on post_signaler
PostWaits(w) ==
    /\ Lockable /\ post[w] = "entering"
    /\ at[w] \in queue_map \ marked /\ ~Fits(w)
    /\ post' = [post EXCEPT ![w] = "waiting"]
    /\ UNCHANGED <<state, queueVars, countVars, iterVars, unblock_list, timeVars, at,
                   workVars, timer, ctl, envVars>>

\* a spurious wake-up, or the timeout of wait_for: the predicate is tried again
PostWakes(w) ==
    /\ Alive /\ post[w] = "waiting"
    /\ post' = [post EXCEPT ![w] = "entering"]
    /\ UNCHANGED <<state, queueVars, countVars, iterVars, unblock_list, timeVars, at,
                   workVars, timer, ctl, envVars>>

\* The work is added, whatever `state' has become since it was read.
PostInserts(w) ==
    LET q == at[w]  p == Priority[q] IN
    /\ Lockable /\ post[w] = "entering"
    /\ q \in queue_map \ marked /\ Fits(w)
    /\ queue' = [queue EXCEPT ![q] = Append(@, w)]
    /\ size' = [size EXCEPT ![q] = Plus(@, Size[w])]
    /\ total_size' = Plus(total_size, Size[w])
    /\ timeoutQueue' = timeoutQueue \cup {w}
    /\ IF Counts(q)
       THEN /\ unblocked_work_count' = [unblocked_work_count EXCEPT ![p] = Plus(@, 1)]
            /\ unblocked_work' = Plus(unblocked_work, 1)
       ELSE UNCHANGED <<unblocked_work_count, unblocked_work>>
    /\ current_priority' = RaisedTo(p)
    /\ post' = [post EXCEPT ![w] = "queued"]
    /\ UNCHANGED <<state, queue_map, marked, blocked, work_queues, marked_count,
                   total_marked, queueIters, unblock_list, timedOutQueue, notified, at,
                   workVars, timer, ctl, envVars>>

--------------------------------------------------------------------------------
(* start() and the operations on queues, called from any thread.  The calls  *)
(* that throw change nothing.                                                *)

Start ==
    /\ Lockable /\ state = "PRESTART"
    /\ state' = "STARTED" /\ worker' = "wait" /\ timer' = "run"
    /\ UNCHANGED <<queueVars, countVars, iterVars, unblock_list, timeVars, postVars,
                   cur, runningCallback, ctl, envVars>>

CreateQueue(q) ==
    /\ Lockable /\ q \notin queue_map
    /\ queue_map' = queue_map \cup {q}
    /\ work_queues' = [work_queues EXCEPT ![Priority[q]] = Append(@, q)]
    /\ UNCHANGED <<state, queue, size, marked, blocked, countVars, iterVars,
                   unblock_list, timeVars, postVars, workVars, timer, ctl, envVars>>

RemovableByAnyName(q) == q # DefaultQueue /\ q \notin marked  \* mutant
Removable(q) == /\ q \in queue_map \ {DefaultQueue}
                /\ q \in marked => total_marked < MarkBound

\* The counters go up even when the queue is marked already.
RemoveQueue(q) ==
    /\ Lockable /\ Removable(q)
    /\ marked' = marked \cup {q}
    /\ IF Counts(q)
       THEN /\ marked_count' = [marked_count EXCEPT ![Priority[q]] = Plus(@, 1)]
            /\ total_marked' = total_marked + 1
            /\ current_priority' = RaisedTo(Priority[q])
       ELSE UNCHANGED <<marked_count, total_marked, current_priority>>
    /\ UNCHANGED <<state, queue_map, queue, size, blocked, work_queues,
                   unblocked_work_count, total_size, unblocked_work, queueIters,
                   unblock_list, timeVars, postVars, workVars, timer, ctl, envVars>>

\* The cause that made callbacks on q fail goes away or comes back; whoever
\* removes it calls unblock_queue some time later.
ResourceChanges(q) ==
    /\ Alive /\ q \in MayBlock
    /\ IF q \in avail THEN avail' = avail \ {q} /\ owed' = owed
                      ELSE avail' = avail \cup {q} /\ owed' = owed \cup {q}
    /\ UNCHANGED <<state, queueVars, countVars, iterVars, unblock_list, timeVars,
                   postVars, workVars, timer, ctl>>

UnblockOnlyBlocked(q) ==  \* mutant
    /\ Lockable /\ q \in owed
    /\ unblock_list' = unblock_list \cup ({q} \cap blocked) /\ owed' = owed \ {q}
    /\ UNCHANGED <<state, queueVars, countVars, iterVars, timeVars, postVars,
                   workVars, timer, ctl, avail>>
UnblockQueue(q) ==
    /\ Lockable /\ q \in owed
    /\ unblock_list' = unblock_list \cup {q} /\ owed' = owed \ {q}
    /\ UNCHANGED <<state, queueVars, countVars, iterVars, timeVars, postVars,
                   workVars, timer, ctl, avail>>

--------------------------------------------------------------------------------
(* runWorkThread(): unblock, else stop, else remove expired work, else run   *)
(* the next work or remove a queue.                                          *)

MustStopAtOnce == state = "STOPPED"  \* mutant
MustStop == state = "STOPPED" \/ (state = "STOPPING" /\ unblocked_work = 0)
MayRun == Lockable /\ worker = "wait" /\ unblock_list = {} /\ ~MustStop
MayPick == /\ MayRun /\ timedOutQueue = {}
           /\ state # "STARTED" \/ total_marked > 0 \/ unblocked_work > 0

\* unblock_queues_internal()
WorkUnblocks ==
    LET freed == unblock_list \cap blocked \cap queue_map IN
    /\ Lockable /\ worker = "wait" /\ unblock_list # {}
    /\ unblock_list' = {}
    /\ blocked' = blocked \ freed
    /\ unblocked_work' = Plus(unblocked_work, Cardinality(QueuedIn(freed)))
    /\ unblocked_work_count' = [p \in Priorities |->
          Plus(unblocked_work_count[p], Cardinality(QueuedIn(freed \cap Level(p))))]
    /\ marked_count' = [p \in Priorities |->
          Plus(marked_count[p], Cardinality(freed \cap marked \cap Level(p)))]
    /\ total_marked' = total_marked + Cardinality(freed \cap marked)
    /\ current_priority' \in {current_priority} \cup {Priority[q] : q \in freed}
    /\ current_priority' >= current_priority
    /\ \A q \in freed : current_priority' >= Priority[q]
    /\ UNCHANGED <<state, queue_map, queue, size, marked, work_queues, total_size,
                   queueIters, timeVars, postVars, workVars, timer, ctl, envVars>>

WorkExits ==
    /\ Lockable /\ worker = "wait" /\ unblock_list = {} /\ MustStop
    /\ worker' = "exit"
    /\ UNCHANGED <<state, queueVars, countVars, iterVars, unblock_list, timeVars,
                   postVars, cur, runningCallback, timer, ctl, envVars>>

SizeKept(w) == size[at[w]]  \* mutant
SizeWithout(w) == Minus(size[at[w]], Size[w])

\* What pop_queue_internal and remove_work_internal share.  The unblocked counters
\* go down even when the queue is blocked.
TakenOut(w) ==
    LET q == at[w]  p == Priority[q] IN
    /\ size' = [size EXCEPT ![q] = SizeWithout(w)]
    /\ total_size' = Minus(total_size, Size[w])
    /\ unblocked_work_count' = [unblocked_work_count EXCEPT ![p] = Minus(@, 1)]
    /\ unblocked_work' = Minus(unblocked_work, 1)
    /\ post' = [NotifyAll(post) EXCEPT ![w] = "idle"]
    /\ at' = [at EXCEPT ![w] = NoQueue]
    /\ notified' = notified \ {w} /\ runningCallback' = runningCallback \ {w}

\* one turn of the loop that empties timedOutQueue
RemoveTimedOut(w) ==
    /\ MayRun \/ (Alive /\ worker = "purge")
    /\ w \in timedOutQueue
    /\ queue' = [queue EXCEPT ![at[w]] = RemoveFirst(@, w)]
    /\ timedOutQueue' = timedOutQueue \ {w}
    /\ TakenOut(w)
    /\ worker' = IF timedOutQueue' = {} THEN "wait" ELSE "purge"
    /\ UNCHANGED <<state, queue_map, marked, blocked, work_queues, marked_count,
                   total_marked, iterVars, unblock_list, timeoutQueue, cur, timer,
                   ctl, envVars>>

RunWork(p, q) ==
    /\ MayPick /\ queueIters[p] # "dangling" /\ IsNext(p, q) /\ queue[q] # << >>
    /\ worker' = "call" /\ cur' = Head(queue[q])
    /\ runningCallback' = runningCallback \cup {Head(queue[q])}
    /\ current_priority' = p /\ queueIters' = [queueIters EXCEPT ![p] = q]
    /\ UNCHANGED <<state, queueVars, countVars, unblock_list, timeVars, postVars,
                   timer, ctl, envVars>>

\* remove_queue_internal(); an empty priority level is erased with its counters
RemoveQueueInternal(p, q) ==
    LET left == RemoveFirst(work_queues[p], q) IN
    /\ MayPick /\ queueIters[p] # "dangling" /\ IsNext(p, q) /\ queue[q] = << >>
    /\ queue_map' = queue_map \ {q} /\ marked' = marked \ {q}
    /\ size' = [size EXCEPT ![q] = 0]
    /\ work_queues' = [work_queues EXCEPT ![p] = left]
    /\ total_marked' = total_marked - 1
    /\ IF left = << >>
       THEN /\ marked_count' = [marked_count EXCEPT ![p] = 0]
            /\ unblocked_work_count' = [unblocked_work_count EXCEPT ![p] = 0]
            /\ queueIters' = [queueIters EXCEPT ![p] = NoQueue]
            /\ current_priority' \in Levels \ {p}
            /\ FirstFrom(current_priority', p, Levels \ {p})
       ELSE /\ marked_count' = [marked_count EXCEPT ![p] = Minus(@, 1)]
            /\ queueIters' = [queueIters EXCEPT ![p] = NextCycle(work_queues[p], q)]
            /\ current_priority' = p /\ UNCHANGED unblocked_work_count
    /\ UNCHANGED <<state, queue, blocked, total_size, unblocked_work, unblock_list,
                   timeVars, postVars, workVars, timer, ctl, envVars>>

\* get_next_queue_with_work() finds nothing and never ends, or starts from an
\* iterator into a list that clear() destroyed
WorkIsLost ==
    /\ MayPick
    /\ \/ /\ \A p \in Priorities, q \in Queues : ~IsNext(p, q)
          /\ worker' = "spin"
       \/ /\ \E p \in Priorities, q \in Queues : IsNext(p, q) /\ queueIters[p] = "dangling"
          /\ worker' = "undefined"
    /\ UNCHANGED <<state, queueVars, countVars, iterVars, unblock_list, timeVars,
                   postVars, cur, runningCallback, timer, ctl, envVars>>

\* The callback, with no lock held, makes up its mind.
Callback ==
    /\ Alive /\ worker = "call"
    /\ worker' = IF at[cur] \in MayBlock \ avail THEN "failed" ELSE "succeeded"
    /\ UNCHANGED <<state, queueVars, countVars, iterVars, unblock_list, timeVars,
                   postVars, cur, runningCallback, timer, ctl, envVars>>

NeverAdvance(q) == queueIters  \* mutant
AdvanceFrom(q) == [queueIters EXCEPT ![Priority[q]] = NextCycle(work_queues[Priority[q]], q)]

\* pop_queue_internal() after a callback that returned a value
PopQueue ==
    LET q == at[cur] IN
    /\ Lockable /\ worker = "succeeded"
    /\ worker' = "wait" /\ cur' = NoWork
    /\ queue' = [queue EXCEPT ![q] = Tail(@)]
    /\ timeoutQueue' = timeoutQueue \ {cur} /\ timedOutQueue' = timedOutQueue \ {cur}
    /\ TakenOut(cur)
    /\ queueIters' = AdvanceFrom(q)
    /\ UNCHANGED <<state, queue_map, marked, blocked, work_queues, marked_count,
                   total_marked, current_priority, unblock_list, timer, ctl, envVars>>

\* block_queue_internal() after a callback that returned std::nullopt;
\* runningCallback stays set
BlockQueue ==
    LET q == at[cur]  p == Priority[q] IN
    /\ Lockable /\ worker = "failed"
    /\ worker' = "wait" /\ cur' = NoWork
    /\ blocked' = blocked \cup {q}
    /\ unblocked_work_count' = [unblocked_work_count EXCEPT ![p] = Minus(@, Len(queue[q]))]
    /\ unblocked_work' = Minus(unblocked_work, Len(queue[q]))
    /\ IF q \in marked
       THEN /\ marked_count' = [marked_count EXCEPT ![p] = Minus(@, 1)]
            /\ total_marked' = total_marked - 1
       ELSE UNCHANGED <<marked_count, total_marked>>
    /\ queueIters' = AdvanceFrom(q)
    /\ UNCHANGED <<state, queue_map, queue, size, marked, work_queues, total_size,
                   current_priority, unblock_list, timeVars, postVars,
                   runningCallback, timer, ctl, envVars>>

--------------------------------------------------------------------------------
(* runTimeoutThread()                                                        *)

ToldAll(E) == E  \* mutant
ToldUnlessFirst(E) == {w \in E : w # Head(queue[at[w]])}  \* mutant
\* the timeout callback is not called for work whose runningCallback is set
Told(E) == E \ runningCallback

\* E is the work found expired
TimerExpires(E) ==
    /\ Lockable /\ timer = "run" /\ state = "STARTED"
    /\ E # {} /\ E \subseteq timeoutQueue \cap Timed
    /\ timeoutQueue' = timeoutQueue \ E
    /\ timedOutQueue' = timedOutQueue \cup E
    /\ notified' = notified \cup Told(E)
    /\ UNCHANGED <<state, queueVars, countVars, iterVars, unblock_list, postVars,
                   workVars, timer, ctl, envVars>>

TimerExits ==
    /\ Lockable /\ timer = "run" /\ state # "STARTED"
    /\ timer' = "exit"
    /\ UNCHANGED <<state, queueVars, countVars, iterVars, unblock_list, timeVars,
                   postVars, workVars, ctl, envVars>>

--------------------------------------------------------------------------------
(* stop() and stop_immediate()                                               *)

MayStop(c) == /\ Lockable /\ ctl[c] = "idle"
              /\ SerialStops => \A d \in Controllers : ctl[d] \in {"idle", "done"}

AfterStopNoJoin(s) == IF s \in {"PRESTART", "STARTED"} THEN "finish" ELSE "clear"  \* mutant
\* what stop() does next, by the state it found
AfterStop(s) == CASE s = "STARTED" -> "join" [] s = "PRESTART" -> "finish" [] OTHER -> "clear"

StopBegins(c) ==
    /\ MayStop(c)
    /\ state' = IF state \in {"PRESTART", "STARTED"} THEN "STOPPING" ELSE state
    /\ ctl' = [ctl EXCEPT ![c] = AfterStop(state)]
    /\ UNCHANGED <<queueVars, countVars, iterVars, unblock_list, timeVars, postVars,
                   workVars, timer, envVars>>

StopImmediateBegins(c) ==
    /\ MayStop(c)
    /\ state' = "STOPPED"
    /\ ctl' = [ctl EXCEPT ![c] = IF state = "STARTED" THEN "join" ELSE "clear"]
    /\ UNCHANGED <<queueVars, countVars, iterVars, unblock_list, timeVars, postVars,
                   workVars, timer, envVars>>

\* join_work_thread(), then join_timeout_thread()
Joins(c) ==
    /\ Alive
    /\ \/ ctl[c] = "join" /\ worker = "exit" /\ ctl' = [ctl EXCEPT ![c] = "join_timeout"]
       \/ ctl[c] = "join_timeout" /\ timer = "exit" /\ ctl' = [ctl EXCEPT ![c] = "finish"]
    /\ UNCHANGED <<state, queueVars, countVars, iterVars, unblock_list, timeVars,
                   postVars, workVars, timer, envVars>>

\* the five seconds of a join are over: std::terminate()
JoinTimesOut(c) ==
    /\ Alive
    /\ \/ ctl[c] = "join" /\ worker # "exit"
       \/ ctl[c] = "join_timeout" /\ timer # "exit"
    /\ ctl' = [ctl EXCEPT ![c] = "terminated"]
    /\ UNCHANGED <<state, queueVars, countVars, iterVars, unblock_list, timeVars,
                   postVars, workVars, timer, envVars>>

\* clear(): all work and all queues but the default one are destroyed, which is
\* undefined behaviour while the work thread runs one.  unblock_list and
\* queueIters are left as they are, and post_signaler is not notified.
Clear(c) ==
    /\ Lockable /\ ctl[c] \in {"finish", "clear"}
    /\ ctl' = [ctl EXCEPT ![c] = "done"]
    /\ state' = IF ctl[c] = "finish" THEN "STOPPED" ELSE state
    /\ queue_map' = {DefaultQueue} /\ marked' = {} /\ blocked' = {}
    /\ queue' = [q \in Queues |-> << >>] /\ size' = [q \in Queues |-> 0]
    /\ work_queues' = [p \in Priorities |-> IF p = 0 THEN <<DefaultQueue>> ELSE << >>]
    /\ unblocked_work_count' = [p \in Priorities |-> 0]
    /\ marked_count' = [p \in Priorities |-> 0]
    /\ total_marked' = 0 /\ total_size' = 0 /\ unblocked_work' = 0
    /\ current_priority' = 0
    /\ queueIters' = [p \in Priorities |->
          IF queueIters[p] = NoQueue THEN NoQueue ELSE "dangling"]
    /\ timeoutQueue' = {} /\ timedOutQueue' = {}
    /\ post' = [w \in Works |-> IF post[w] = "queued" THEN "idle" ELSE post[w]]
    /\ at' = [w \in Works |-> IF post[w] = "queued" THEN NoQueue ELSE at[w]]
    /\ worker' = IF cur = NoWork THEN worker ELSE "undefined"
    /\ notified' = {} /\ runningCallback' = {}
    /\ UNCHANGED <<unblock_list, cur, timer, envVars>>

--------------------------------------------------------------------------------
Posting(w) == PostFails(w) \/ PostWaits(w) \/ PostInserts(w)
WorkThread ==
    \/ WorkUnblocks \/ WorkExits \/ WorkIsLost \/ Callback \/ PopQueue \/ BlockQueue
    \/ \E w \in Works : RemoveTimedOut(w)
    \/ \E p \in Priorities, q \in Queues : RunWork(p, q) \/ RemoveQueueInternal(p, q)
Stopping(c) == Joins(c) \/ Clear(c)
Environment ==
    \/ \E w \in Works : PostWakes(w) \/ \E q \in Queues : PostBegin(w, q)
    \/ \E q \in Queues : CreateQueue(q) \/ RemoveQueue(q) \/ ResourceChanges(q)
    \/ \E E \in SUBSET Works : TimerExpires(E)
    \/ \E c \in Controllers : StopBegins(c) \/ StopImmediateBegins(c) \/ JoinTimesOut(c)

Next ==
    \/ Environment \/ Start \/ WorkThread \/ TimerExits
    \/ \E w \in Works : Posting(w)
    \/ \E q \in Queues : UnblockQueue(q)
    \/ \E c \in Controllers : Stopping(c)

Spec == Init /\ [][Next]_vars

(* Threads are scheduled, callbacks end, and whoever makes a resource        *)
(* available calls unblock_queue.  Nothing forces a post, a deadline, a      *)
(* resource, a stop, or a spurious wake-up.                                  *)
Fairness ==
    /\ WF_vars(WorkThread) /\ WF_vars(TimerExits) /\ WF_vars(Start)
    /\ \A w \in Works : WF_vars(Posting(w))
    /\ \A q \in Queues : WF_vars(UnblockQueue(q))
    /\ \A c \in Controllers : WF_vars(Stopping(c))

FairSpec == Spec /\ Fairness

--------------------------------------------------------------------------------
\* s lists the members of S, each once
IsListOf(s, S) == IsInjective(s) /\ ToSet(s) = S

QueuesListed == \A q \in Queues : IsListOf(queue[q], QueuedIn({q}))
LevelsListed ==
    /\ \A p \in Priorities : IsListOf(work_queues[p], queue_map \cap Level(p))
    /\ DefaultQueue \in queue_map \ marked
WorkPlaced ==
    \A w \in Works :
        /\ post[w] \in {"entering", "waiting"} => at[w] \in Queues
        /\ post[w] = "queued" => at[w] \in queue_map
TimersOfQueued ==
    /\ timedOutQueue \cup timeoutQueue \subseteq QueuedIn(Queues)
    /\ timedOutQueue \cap timeoutQueue = {}
RunningIsFirst ==
    Alive => /\ worker \in {"call", "succeeded", "failed"} <=> cur # NoWork
             /\ cur # NoWork => /\ post[cur] = "queued" /\ at[cur] \notin blocked
                                /\ cur = Head(queue[at[cur]])

\* The lists are what the flags and iterators say: each queued work is once in the
\* list of its queueIter and nowhere else, each queue once in the list of its level,
\* the work being run is the first of its queue, and expired or timed work is queued.
\* Iterators held across the unlocked callback stay valid because of this.
ListsOK == QueuesListed /\ LevelsListed /\ WorkPlaced /\ TimersOfQueued /\ RunningIsFirst

TypeOK ==
    /\ state \in HandlerStates
    /\ queue_map \subseteq Queues /\ marked \subseteq queue_map /\ blocked \subseteq queue_map
    /\ queue \in [Queues -> Seq(Works)] /\ size \in [Queues -> 0 .. SizeMod - 1]
    /\ work_queues \in [Priorities -> Seq(Queues)]
    /\ unblocked_work_count \in [Priorities -> 0 .. SizeMod - 1]
    /\ marked_count \in [Priorities -> 0 .. SizeMod - 1]
    /\ current_priority \in Priorities
    /\ queueIters \in [Priorities -> Queues \cup {NoQueue, "dangling"}]
    /\ unblock_list \subseteq Queues
    /\ timeoutQueue \subseteq Works /\ timedOutQueue \subseteq Works
    /\ total_marked \in Int /\ total_size \in 0 .. SizeMod - 1
    /\ unblocked_work \in 0 .. SizeMod - 1
    /\ post \in [Works -> {"idle", "entering", "waiting", "queued"}]
    /\ at \in [Works -> Queues \cup {NoQueue}]
    /\ runningCallback \subseteq Works /\ notified \subseteq Works
    /\ worker \in {"off", "wait", "call", "succeeded", "failed", "purge", "exit",
                   "spin", "undefined"}
    /\ cur \in Works \cup {NoWork}
    /\ timer \in {"off", "run", "exit"}
    /\ ctl \in [Controllers -> {"idle", "join", "join_timeout", "finish", "clear",
                                "done", "terminated"}]
    /\ avail \subseteq MayBlock /\ owed \subseteq MayBlock

\* Handler.h:170: unblocked_work is "the amount of work in all queues, not
\* including blocked queues", and unblocked_work_count the same for a level.
\* runWorkThread sleeps, stops and chooses by these numbers without a look at
\* the queues, so every post, pop, block, unblock and expiry must keep them.
UnblockedExact ==
    /\ unblocked_work = Cardinality(QueuedIn(Queues \ blocked))
    /\ \A p \in Priorities :
          unblocked_work_count[p] = Cardinality(QueuedIn(Level(p) \ blocked))

\* Handler.h:165: total_marked and marked_count are "the number of queues marked
\* for removal, NOT including blocked queues": the work thread searches a level
\* for a queue to remove as long as they are not 0.
MarkedExact ==
    /\ total_marked = Cardinality(marked \ blocked)
    /\ \A p \in Priorities :
          marked_count[p] = Cardinality((marked \ blocked) \cap Level(p))

\* All four counters at once: each path through the lists changes two of them.
CountersExact == UnblockedExact /\ MarkedExact

\* The sizes that post() compares with its limits are the sizes of the work that
\* is really queued, whatever mix of pop, expiry and clear took work out.
SizesExact ==
    /\ \A q \in Queues : size[q] = MapThenSumSet(LAMBDA w : Size[w], QueuedIn({q}))
    /\ total_size = MapThenSumSet(LAMBDA w : Size[w], QueuedIn(Queues))

\* get_next_queue_with_work() always ends, with a queue that exists, and no work
\* is destroyed while the work thread runs it.  Handler.h:141: current_priority
\* "may be higher than the priority of the highest priority work currently, but
\* will not be lower": the search starts where all the work is still before it.
WorkerNotLost ==
    /\ worker \notin {"spin", "undefined"}
    /\ \A p \in Levels : HasMore(p) => p <= current_priority

\* The comment of unblock_queue (Handler.cpp:324): a callback that finds its
\* resource missing, the unblock and the blocking of the queue may come in any
\* order, and the queue must not stay blocked once the resource is back: an
\* unblock is still to come.
NoLostUnblock == blocked \cap avail \subseteq owed \cup unblock_list

\* post() waits on post_signaler only while its work does not fit: each
\* removal of work wakes all the waiting posts.
NoLostWakeUp ==
    \A w \in Works : post[w] = "waiting" /\ state \in {"PRESTART", "STARTED"}
                     /\ at[w] \in queue_map => ~Fits(w)

\* A work is told of its timeout or run, not both: no callback runs after the
\* timeout callback, whatever the two threads do.
NeverBoth == cur \notin notified

\* Work taken out because it expired has been told, unless it is running at the
\* time and may still succeed: nothing accepted disappears in silence.
ExpiryIsTold == timedOutQueue \subseteq notified \cup {cur}

\* Handler.h:237: stop and stop_immediate wait for the callback being executed,
\* and further calls have no effect: no thread has cleared the handler while the
\* work thread is in it.
ClearedAfterWork ==
    (\E c \in Controllers : ctl[c] = "done") => worker \in {"off", "exit"}

\* What Handler.h promises its callers: see HandlerContract.
Contract == INSTANCE HandlerContract WITH pending <- queue, running <- cur
ContractHolds == Contract!Spec

\* "All queues are processed fairly" and blocked queues resume: if resources
\* come back for good, work that is queued leaves its queue, unless the handler
\* stops, although other queues of the level are refilled without end.
Served ==
    <>[](MayBlock \subseteq avail) =>
        \A w \in Works :
            (post[w] = "queued" /\ state = "STARTED")
                ~> (post[w] # "queued" \/ state # "STARTED")

\* stop() and stop_immediate() return, or end the process, unless unblock_queue is
\* called without end: the work thread unblocks before it looks at the state.
StopReturns ==
    <>[](owed = {}) =>
        \A c \in Controllers :
            ctl[c] # "idle" ~> \/ ctl[c] = "done"
                               \/ \E d \in Controllers : ctl[d] = "terminated"
================================================================================
