----------------------------- MODULE HandlerProofs -----------------------------
(* Theorems about Handler, for all values of its constants: types, lists and counters, *)
(* and on top of them expiry, unblocking, waiting, stopping and the contract.          *)
EXTENDS Handler, DataLemmas, SequenceTheorems, FiniteSetTheorems, TLAPS

--------------------------------------------------------------------------------
(* Sequences that list a set without repetition.                             *)

\* The empty list lists the empty set, and only it.
LEMMA ListEmpty ==
    ASSUME NEW T, NEW s \in Seq(T), NEW S, IsListOf(s, S)
    PROVE  s = << >> <=> S = {}
<1>1. s = << >> => S = {}  BY DEF IsListOf, ToSet
<1>2. s # << >> => s[1] \in S
  BY EmptySeq, LenProperties DEF IsListOf, ToSet
<1> QED BY <1>1, <1>2

\* A handler with no work starts from lists of nothing.
LEMMA ListOfNothing == IsListOf(<< >>, {})
  BY DEF IsListOf, ToSet, IsInjective

\* list::insert at the end of a list
LEMMA ListAppend ==
    ASSUME NEW T, NEW s \in Seq(T), NEW S, IsListOf(s, S), NEW x \in T, x \notin S
    PROVE  Append(s, x) \in Seq(T) /\ IsListOf(Append(s, x), S \cup {x})
<1>1. /\ Append(s, x) \in Seq(T) /\ Len(Append(s, x)) = Len(s) + 1
      /\ \A i \in 1 .. Len(s) : Append(s, x)[i] = s[i]
      /\ Append(s, x)[Len(s) + 1] = x
  BY AppendProperties
<1>2. /\ Len(s) \in Nat /\ DOMAIN s = 1 .. Len(s)
      /\ DOMAIN Append(s, x) = 1 .. Len(s) + 1
  BY <1>1, LenProperties
<1>3. \A i \in 1 .. Len(s) : s[i] \in S /\ s[i] # x
  BY <1>2 DEF IsListOf, ToSet
<1>4. IsInjective(Append(s, x))
  <2>. SUFFICES ASSUME NEW a \in 1 .. Len(s) + 1, NEW b \in 1 .. Len(s) + 1,
                       Append(s, x)[a] = Append(s, x)[b]
                PROVE  a = b
    BY <1>2 DEF IsInjective
  <2>. QED BY <1>1, <1>2, <1>3 DEF IsListOf, IsInjective
<1>5. ToSet(Append(s, x)) = S \cup {x}
  <2>1. \A y \in S : \E i \in 1 .. Len(s) + 1 : Append(s, x)[i] = y
    BY <1>1, <1>2 DEF IsListOf, ToSet
  <2>2. Len(s) + 1 \in 1 .. Len(s) + 1  BY <1>2
  <2>3. \A i \in 1 .. Len(s) + 1 : Append(s, x)[i] \in S \cup {x}
    BY <1>1, <1>2, <1>3
  <2>. QED BY <1>1, <1>2, <2>1, <2>2, <2>3 DEF ToSet
<1> QED BY <1>1, <1>4, <1>5 DEF IsListOf

\* list::pop_front
LEMMA ListTail ==
    ASSUME NEW T, NEW s \in Seq(T), NEW S, IsListOf(s, S), s # << >>
    PROVE  /\ Head(s) \in S /\ Head(s) \in T /\ Tail(s) \in Seq(T)
           /\ IsListOf(Tail(s), S \ {Head(s)})
<1>1. /\ Len(s) \in Nat \ {0} /\ DOMAIN s = 1 .. Len(s) /\ Head(s) = s[1]
      /\ Tail(s) \in Seq(T) /\ Len(Tail(s)) = Len(s) - 1
      /\ \A i \in 1 .. Len(s) - 1 : Tail(s)[i] = s[i + 1]
      /\ DOMAIN Tail(s) = 1 .. Len(s) - 1
  BY EmptySeq, LenProperties, HeadTailProperties
<1>2. IsInjective(Tail(s))
  BY <1>1 DEF IsListOf, IsInjective
<1>3. Head(s) \in S /\ Head(s) \in T
  BY <1>1, ElementOfSeq DEF IsListOf, ToSet
<1>4. ToSet(Tail(s)) = S \ {Head(s)}
  <2>1. ASSUME NEW i \in 1 .. Len(s) - 1 PROVE Tail(s)[i] \in S \ {Head(s)}
    <3>1. i + 1 \in 1 .. Len(s) /\ i + 1 # 1  BY <1>1
    <3>. QED BY <3>1, <1>1 DEF IsListOf, IsInjective, ToSet
  <2>2. ASSUME NEW y \in S \ {Head(s)}
        PROVE  \E i \in 1 .. Len(s) - 1 : Tail(s)[i] = y
    <3>1. PICK j \in 1 .. Len(s) : s[j] = y  BY <1>1 DEF IsListOf, ToSet
    <3>2. j # 1  BY <3>1, <1>1
    <3>3. j - 1 \in 1 .. Len(s) - 1 /\ Tail(s)[j - 1] = s[(j - 1) + 1] /\ (j - 1) + 1 = j
      BY <3>2, <1>1
    <3>. QED BY <3>1, <3>3
  <2>3. ToSet(Tail(s)) = {Tail(s)[i] : i \in 1 .. Len(s) - 1}  BY <1>1 DEF ToSet
  <2>. QED BY <2>1, <2>2, <2>3
<1> QED BY <1>1, <1>2, <1>3, <1>4 DEF IsListOf

\* The position of an element, and the element after it in the cycle.
LEMMA ListPosition ==
    ASSUME NEW T, NEW s \in Seq(T), NEW S, IsListOf(s, S), NEW x \in S
    PROVE  /\ Position(s, x) \in 1 .. Len(s) /\ s[Position(s, x)] = x
           /\ NextCycle(s, x) \in S
<1>0. Len(s) \in Nat  BY LenProperties
<1>1. Len(s) \in Nat /\ DOMAIN s = 1 .. Len(s)  BY LenProperties
<1>2. PICK k \in 1 .. Len(s) : s[k] = x  BY <1>1 DEF IsListOf, ToSet
<1>3. {i \in 1 .. Len(s) : s[i] = x} = {k}
  BY <1>1, <1>2 DEF IsListOf, IsInjective
<1>4. Min({k}) = k  BY <1>2 DEF Min
<1>5. Position(s, x) = k
  BY <1>3, <1>4 DEF Position, SelectInSeq
<1>6. \A i \in 1 .. Len(s) : s[i] \in S  BY <1>1 DEF IsListOf, ToSet
<1>7. 1 \in 1 .. Len(s)  BY <1>1, <1>2
<1>8. NextCycle(s, x) \in S
  <2>1. NextCycle(s, x) = IF k = Len(s) THEN s[1] ELSE s[k + 1]  BY <1>5 DEF NextCycle
  <2>2. CASE k = Len(s)
    BY <1>6, <1>7, <2>1, <2>2
  <2>3. CASE k # Len(s)
    <3>1. k + 1 \in 1 .. Len(s)  BY <1>0, <2>3
    <3>. QED BY <1>6, <2>1, <2>3, <3>1
  <2>. QED BY <2>2, <2>3
<1> QED BY <1>2, <1>5, <1>8

\* list::erase of an element
LEMMA ListRemove ==
    ASSUME NEW T, NEW s \in Seq(T), NEW S, IsListOf(s, S), NEW x \in S
    PROVE  RemoveFirst(s, x) \in Seq(T) /\ IsListOf(RemoveFirst(s, x), S \ {x})
<1> QED BY RemoveOne DEF IsListOf

\* list::size() counts the elements
LEMMA ListLength ==
    ASSUME NEW T, NEW s \in Seq(T), NEW S, IsListOf(s, S)
    PROVE  Cardinality(S) = Len(s)
<1>1. Len(s) \in Nat /\ DOMAIN s = 1 .. Len(s)  BY LenProperties
<1>2. s \in [1 .. Len(s) -> S]
  BY <1>1, LenProperties DEF IsListOf, ToSet
<1>3. s \in Bijection(1 .. Len(s), S)
  BY <1>1, <1>2 DEF IsListOf, ToSet, Bijection, Injection, Surjection
<1> QED BY <1>1, <1>3, FS_CountingElements DEF ExistsBijection

--------------------------------------------------------------------------------
(* size_t arithmetic, and the counts it is used for.                         *)

\* size_t stays in its range.
LEMMA WordType ==
    ASSUME NEW a \in 0 .. SizeMod - 1, NEW b \in 0 .. SizeMod - 1
    PROVE  Plus(a, b) \in 0 .. SizeMod - 1 /\ Minus(a, b) \in 0 .. SizeMod - 1
  BY SizeAssumption DEF Plus, Minus

\* Any number of works, and of queues, is a size_t.
LEMMA CountType ==
    /\ \A Q : /\ IsFiniteSet(QueuedIn(Q))
              /\ Cardinality(QueuedIn(Q)) \in 0 .. SizeMod - 1
    /\ \A S \in SUBSET Queues : /\ IsFiniteSet(S)
                                /\ Cardinality(S) \in 0 .. SizeMod - 1
<1>1. /\ IsFiniteSet(Works) /\ IsFiniteSet(Queues) /\ SizeMod \in Nat
      /\ Cardinality(Works) < SizeMod /\ Cardinality(Queues) < SizeMod
      /\ Cardinality(Works) \in Nat /\ Cardinality(Queues) \in Nat
  BY QueuesAssumption, SizeAssumption, FS_CardinalityType
<1>2. ASSUME NEW U, IsFiniteSet(U), Cardinality(U) \in Nat, Cardinality(U) < SizeMod,
             NEW S \in SUBSET U
      PROVE  IsFiniteSet(S) /\ Cardinality(S) \in 0 .. SizeMod - 1
  BY <1>1, <1>2, FS_Subset, FS_CardinalityType
<1>3. \A Q : QueuedIn(Q) \in SUBSET Works  BY DEF QueuedIn
<1> QED BY <1>1, <1>2, <1>3

--------------------------------------------------------------------------------
(* Type correctness.                                                         *)

\* The handler starts in a well typed state.
LEMMA TypeInit == Init => TypeOK
<1>1. 0 \in Priorities /\ DefaultQueue \in Queues /\ SizeMod \in Nat \ {0}
  BY QueuesAssumption, SizeAssumption DEF Priorities
<1>2. << >> \in Seq(Works) /\ << >> \in Seq(Queues) /\ <<DefaultQueue>> \in Seq(Queues)
  BY <1>1
<1> QED BY <1>1, <1>2 DEF Init, TypeOK, HandlerStates

\* post(), at each of its steps, keeps the types.
LEMMA TypePosting ==
    ASSUME TypeOK, ListsOK, NEW w \in Works, NEW q \in Queues,
           PostBegin(w, q) \/ PostFails(w) \/ PostWaits(w) \/ PostWakes(w) \/ PostInserts(w)
    PROVE  TypeOK'
<1>1. CASE PostBegin(w, q)
  BY <1>1 DEF PostBegin, TypeOK, queueVars, countVars, iterVars, timeVars, workVars, envVars
<1>2. CASE PostFails(w)
  BY <1>2 DEF PostFails, TypeOK, queueVars, countVars, iterVars, timeVars, workVars, envVars
<1>3. CASE PostWaits(w)
  BY <1>3 DEF PostWaits, TypeOK, queueVars, countVars, iterVars, timeVars, workVars, envVars
<1>4. CASE PostWakes(w)
  BY <1>4 DEF PostWakes, TypeOK, queueVars, countVars, iterVars, timeVars, workVars, envVars
<1>5. CASE PostInserts(w)
  <2>1. at[w] \in Queues /\ Priority[at[w]] \in Priorities /\ Size[w] \in 0 .. SizeMod - 1
        /\ 1 \in 0 .. SizeMod - 1
    <3>1. at[w] \in Queues  BY <1>5 DEF PostInserts, TypeOK
    <3>. QED BY <3>1, SizeAssumption DEF Priorities
  <2>2. queue' \in [Queues -> Seq(Works)]
    <3>1. Append(queue[at[w]], w) \in Seq(Works)  BY <2>1, AppendProperties DEF TypeOK
    <3>. QED BY <1>5, <3>1 DEF PostInserts, TypeOK
  <2>3. size' \in [Queues -> 0 .. SizeMod - 1] /\ total_size' \in 0 .. SizeMod - 1
    <3>1. /\ Plus(size[at[w]], Size[w]) \in 0 .. SizeMod - 1
          /\ Plus(total_size, Size[w]) \in 0 .. SizeMod - 1
      BY <2>1, WordType DEF TypeOK
    <3>. QED BY <1>5, <2>1, <3>1 DEF PostInserts, TypeOK
  <2>4. /\ unblocked_work_count' \in [Priorities -> 0 .. SizeMod - 1]
        /\ unblocked_work' \in 0 .. SizeMod - 1
    <3>1. /\ Plus(unblocked_work_count[Priority[at[w]]], 1) \in 0 .. SizeMod - 1
          /\ Plus(unblocked_work, 1) \in 0 .. SizeMod - 1
      BY <2>1, WordType DEF TypeOK
    <3>. QED BY <1>5, <2>1, <3>1 DEF PostInserts, TypeOK
  <2>5. current_priority' \in Priorities
    BY <1>5, <2>1 DEF PostInserts, TypeOK, RaisedTo
  <2>6. post' \in [Works -> {"idle", "entering", "waiting", "queued"}]
        /\ timeoutQueue' \subseteq Works
    BY <1>5 DEF PostInserts, TypeOK
  <2>. QED BY <1>5, <2>2, <2>3, <2>4, <2>5, <2>6
           DEF PostInserts, TypeOK, workVars, envVars
<1> QED BY <1>1, <1>2, <1>3, <1>4, <1>5

\* start() and the operations on queues keep the types.
LEMMA TypeQueues ==
    ASSUME TypeOK, NEW q \in Queues,
           \/ Start \/ CreateQueue(q) \/ RemoveQueue(q) \/ ResourceChanges(q) \/ UnblockQueue(q)
    PROVE  TypeOK'
<1>1. CASE Start
  BY <1>1 DEF Start, TypeOK, HandlerStates, queueVars, countVars, iterVars, timeVars,
              postVars, envVars
<1>2. CASE CreateQueue(q)
  <2>1. Priority[q] \in Priorities  BY DEF Priorities
  <2>2. Append(work_queues[Priority[q]], q) \in Seq(Queues)
    BY <2>1, AppendProperties DEF TypeOK
  <2>3. work_queues' \in [Priorities -> Seq(Queues)]
    BY <1>2, <2>1, <2>2 DEF CreateQueue, TypeOK
  <2>. QED BY <1>2, <2>3 DEF CreateQueue, TypeOK, countVars, iterVars, timeVars, postVars,
                             workVars, envVars
<1>3. CASE RemoveQueue(q)
  <2>1. Priority[q] \in Priorities /\ 1 \in 0 .. SizeMod - 1
    BY SizeAssumption DEF Priorities
  <2>2. marked_count' \in [Priorities -> 0 .. SizeMod - 1] /\ total_marked' \in Int
    <3>1. Plus(marked_count[Priority[q]], 1) \in 0 .. SizeMod - 1
      BY <2>1, WordType DEF TypeOK
    <3>2. /\ total_marked' \in {total_marked, total_marked + 1}
          /\ \/ marked_count' = marked_count
             \/ marked_count' = [marked_count EXCEPT ![Priority[q]] = Plus(@, 1)]
      BY <1>3 DEF RemoveQueue
    <3>3. total_marked' \in Int  BY <3>2 DEF TypeOK
    <3>. QED BY <2>1, <3>1, <3>2, <3>3 DEF TypeOK
  <2>3. current_priority' \in Priorities
    BY <1>3, <2>1 DEF RemoveQueue, TypeOK, RaisedTo
  <2>. QED BY <1>3, <2>2, <2>3 DEF RemoveQueue, Removable, TypeOK, timeVars, postVars,
                                   workVars, envVars
<1>4. CASE ResourceChanges(q)
  BY <1>4 DEF ResourceChanges, TypeOK, queueVars, countVars, iterVars, timeVars,
              postVars, workVars
<1>5. CASE UnblockQueue(q)
  BY <1>5, QueuesAssumption
  DEF UnblockQueue, TypeOK, queueVars, countVars, iterVars, timeVars, postVars, workVars
<1> QED BY <1>1, <1>2, <1>3, <1>4, <1>5

\* The queue that has a place in the list of its level has a successor there.
LEMMA SuccessorType ==
    ASSUME TypeOK, LevelsListed, NEW q \in queue_map
    PROVE  /\ Priority[q] \in Priorities
           /\ NextCycle(work_queues[Priority[q]], q) \in queue_map \cap Level(Priority[q])
<1>1. q \in Queues /\ Priority[q] \in Priorities /\ q \in Level(Priority[q])
  BY DEF TypeOK, Priorities, Level
<1>2. /\ work_queues[Priority[q]] \in Seq(Queues)
      /\ IsListOf(work_queues[Priority[q]], queue_map \cap Level(Priority[q]))
  BY <1>1 DEF TypeOK, LevelsListed
<1> QED BY <1>1, <1>2, ListPosition

\* Work that is queued is in a list, and what is left of the list is a list.
LEMMA QueuedWork ==
    ASSUME TypeOK, ListsOK, NEW w \in Works, post[w] = "queued"
    PROVE  /\ at[w] \in queue_map /\ at[w] \in Queues /\ Priority[at[w]] \in Priorities
           /\ queue[at[w]] \in Seq(Works) /\ queue[at[w]] # << >>
           /\ Tail(queue[at[w]]) \in Seq(Works)
           /\ RemoveFirst(queue[at[w]], w) \in Seq(Works)
<1>1. at[w] \in queue_map /\ at[w] \in Queues
  BY DEF TypeOK, ListsOK, WorkPlaced
<1>2. w \in QueuedIn({at[w]})  BY DEF QueuedIn
<1>3. queue[at[w]] \in Seq(Works) /\ IsListOf(queue[at[w]], QueuedIn({at[w]}))
  BY <1>1 DEF TypeOK, ListsOK, QueuesListed
<1>4. queue[at[w]] # << >>  BY <1>2, <1>3, ListEmpty
<1>5. Tail(queue[at[w]]) \in Seq(Works)  BY <1>3, <1>4, ListTail
<1>6. RemoveFirst(queue[at[w]], w) \in Seq(Works)  BY <1>2, <1>3, ListRemove
<1> QED BY <1>1, <1>3, <1>4, <1>5, <1>6 DEF Priorities

\* What pop_queue_internal and remove_work_internal share keeps the types.
LEMMA TypeTakenOut ==
    ASSUME TypeOK, ListsOK, NEW w \in Works, post[w] = "queued", TakenOut(w)
    PROVE  /\ size' \in [Queues -> 0 .. SizeMod - 1] /\ total_size' \in 0 .. SizeMod - 1
           /\ unblocked_work_count' \in [Priorities -> 0 .. SizeMod - 1]
           /\ unblocked_work' \in 0 .. SizeMod - 1
           /\ post' \in [Works -> {"idle", "entering", "waiting", "queued"}]
           /\ at' \in [Works -> Queues \cup {NoQueue}]
           /\ notified' \subseteq Works /\ runningCallback' \subseteq Works
<1>1. at[w] \in Queues /\ Priority[at[w]] \in Priorities  BY QueuedWork
<1>2. 1 \in 0 .. SizeMod - 1 /\ Size[w] \in 0 .. SizeMod - 1  BY SizeAssumption
<1>3. /\ SizeWithout(w) \in 0 .. SizeMod - 1
      /\ Minus(total_size, Size[w]) \in 0 .. SizeMod - 1
      /\ Minus(unblocked_work_count[Priority[at[w]]], 1) \in 0 .. SizeMod - 1
      /\ Minus(unblocked_work, 1) \in 0 .. SizeMod - 1
  BY <1>1, <1>2, WordType DEF TypeOK, SizeWithout
<1>4. NotifyAll(post) \in [Works -> {"idle", "entering", "waiting", "queued"}]
  BY DEF TypeOK, NotifyAll
<1>5. /\ size' = [size EXCEPT ![at[w]] = SizeWithout(w)]
      /\ total_size' = Minus(total_size, Size[w])
      /\ unblocked_work_count' =
            [unblocked_work_count EXCEPT ![Priority[at[w]]] = Minus(@, 1)]
      /\ unblocked_work' = Minus(unblocked_work, 1)
      /\ post' = [NotifyAll(post) EXCEPT ![w] = "idle"]
      /\ at' = [at EXCEPT ![w] = NoQueue]
      /\ notified' = notified \ {w} /\ runningCallback' = runningCallback \ {w}
  BY DEF TakenOut
<1>6. size' \in [Queues -> 0 .. SizeMod - 1] /\ total_size' \in 0 .. SizeMod - 1
  BY <1>3, <1>5 DEF TypeOK
<1>7. /\ unblocked_work_count' \in [Priorities -> 0 .. SizeMod - 1]
      /\ unblocked_work' \in 0 .. SizeMod - 1
  BY <1>3, <1>5 DEF TypeOK
<1>8. post' \in [Works -> {"idle", "entering", "waiting", "queued"}]
  BY <1>4, <1>5
<1> QED BY <1>5, <1>6, <1>7, <1>8 DEF TypeOK

\* The steps of the work thread that take no work out keep the types.
LEMMA TypeWorkThread ==
    ASSUME TypeOK, ListsOK, WorkUnblocks \/ WorkExits \/ WorkIsLost \/ Callback
    PROVE  TypeOK'
<1>1. CASE WorkUnblocks
  <2> DEFINE freed == unblock_list \cap blocked \cap queue_map
  <2>1. freed \subseteq Queues  BY DEF TypeOK
  <2>2. /\ blocked' = blocked \ freed
        /\ unblocked_work' = Plus(unblocked_work, Cardinality(QueuedIn(freed)))
        /\ unblocked_work_count' = [p \in Priorities |->
              Plus(unblocked_work_count[p], Cardinality(QueuedIn(freed \cap Level(p))))]
        /\ marked_count' = [p \in Priorities |->
              Plus(marked_count[p], Cardinality(freed \cap marked \cap Level(p)))]
        /\ total_marked' = total_marked + Cardinality(freed \cap marked)
        /\ current_priority' \in {current_priority} \cup {Priority[q] : q \in freed}
        /\ unblock_list' = {}
    BY <1>1 DEF WorkUnblocks
  <2>3. unblocked_work' \in 0 .. SizeMod - 1
    BY <2>2, CountType, WordType DEF TypeOK
  <2>4. unblocked_work_count' \in [Priorities -> 0 .. SizeMod - 1]
    <3>1. ASSUME NEW p \in Priorities
          PROVE  Plus(unblocked_work_count[p], Cardinality(QueuedIn(freed \cap Level(p))))
                    \in 0 .. SizeMod - 1
      BY CountType, WordType DEF TypeOK
    <3>. QED BY <2>2, <3>1
  <2>5. marked_count' \in [Priorities -> 0 .. SizeMod - 1] /\ total_marked' \in Int
    <3>1. ASSUME NEW p \in Priorities
          PROVE  Plus(marked_count[p], Cardinality(freed \cap marked \cap Level(p)))
                    \in 0 .. SizeMod - 1
      <4>1. freed \cap marked \cap Level(p) \in SUBSET Queues  BY <2>1
      <4>2. Cardinality(freed \cap marked \cap Level(p)) \in 0 .. SizeMod - 1
        BY <4>1, CountType
      <4>3. marked_count[p] \in 0 .. SizeMod - 1  BY DEF TypeOK
      <4>. QED BY <4>2, <4>3, WordType
    <3>2. freed \cap marked \in SUBSET Queues  BY <2>1
    <3>3. Cardinality(freed \cap marked) \in 0 .. SizeMod - 1  BY <3>2, CountType
    <3>4. Cardinality(freed \cap marked) \in Int  BY <3>3, SizeAssumption
    <3>5. total_marked' \in Int  BY <2>2, <3>4 DEF TypeOK
    <3>. QED BY <2>2, <3>1, <3>5
  <2>6. current_priority' \in Priorities
    BY <2>1, <2>2 DEF TypeOK, Priorities
  <2>. QED BY <1>1, <2>2, <2>3, <2>4, <2>5, <2>6
           DEF WorkUnblocks, TypeOK, timeVars, postVars, workVars, envVars
<1>2. CASE WorkExits
  BY <1>2 DEF WorkExits, TypeOK, queueVars, countVars, iterVars, timeVars, postVars, envVars
<1>3. CASE WorkIsLost
  BY <1>3 DEF WorkIsLost, TypeOK, queueVars, countVars, iterVars, timeVars, postVars, envVars
<1>4. CASE Callback
  BY <1>4 DEF Callback, TypeOK, queueVars, countVars, iterVars, timeVars, postVars, envVars
<1> QED BY <1>1, <1>2, <1>3, <1>4

\* While a callback is being run its work is the first of a queue not blocked.
LEMMA RunningWork ==
    ASSUME TypeOK, ListsOK, Alive, worker \in {"call", "succeeded", "failed"}
    PROVE  /\ cur \in Works /\ post[cur] = "queued" /\ at[cur] \in Queues
           /\ at[cur] \in queue_map \ blocked /\ cur = Head(queue[at[cur]])
<1>1. cur # NoWork  BY DEF ListsOK, RunningIsFirst
<1>2. cur \in Works /\ post[cur] = "queued"
  BY <1>1 DEF TypeOK, ListsOK, RunningIsFirst
<1> QED BY <1>1, <1>2, QueuedWork DEF ListsOK, RunningIsFirst

\* Running, removing and blocking keep the types.
LEMMA TypeRun ==
    ASSUME TypeOK, ListsOK, NEW p \in Priorities, NEW q \in Queues, NEW w,
           \/ RunWork(p, q) \/ RemoveQueueInternal(p, q) \/ RemoveTimedOut(w)
           \/ PopQueue \/ BlockQueue
    PROVE  TypeOK'
<1>1. CASE RunWork(p, q)
  <2>1. /\ queue[q] \in Seq(Works) /\ queue[q] # << >>
        /\ IsListOf(queue[q], QueuedIn({q}))
    BY <1>1 DEF RunWork, TypeOK, ListsOK, QueuesListed
  <2>2. Head(queue[q]) \in Works  BY <2>1, ListTail
  <2>. QED BY <1>1, <2>2 DEF RunWork, TypeOK, queueVars, countVars, timeVars, postVars, envVars
<1>2. CASE RemoveQueueInternal(p, q)
  <2>1. q \in queue_map /\ Priority[q] = p
    BY <1>2 DEF RemoveQueueInternal, IsNext, Eligible, Level
  <2>2. /\ work_queues[p] \in Seq(Queues) /\ q \in queue_map \cap Level(p)
        /\ IsListOf(work_queues[p], queue_map \cap Level(p))
    BY <2>1 DEF TypeOK, ListsOK, LevelsListed, Level
  <2>3. RemoveFirst(work_queues[p], q) \in Seq(Queues)  BY <2>2, ListRemove
  <2>4. NextCycle(work_queues[p], q) \in Queues
    BY <2>2, ListPosition DEF Level
  <2>5. Minus(marked_count[p], 1) \in 0 .. SizeMod - 1 /\ 0 \in 0 .. SizeMod - 1
    <3>1. 1 \in 0 .. SizeMod - 1 /\ 0 \in 0 .. SizeMod - 1  BY SizeAssumption
    <3>. QED BY <3>1, WordType DEF TypeOK
  <2>6. /\ queue_map' = queue_map \ {q} /\ marked' = marked \ {q}
        /\ size' = [size EXCEPT ![q] = 0] /\ total_marked' = total_marked - 1
        /\ work_queues' = [work_queues EXCEPT ![p] = RemoveFirst(work_queues[p], q)]
        /\ blocked' = blocked
        /\ \/ marked_count' = [marked_count EXCEPT ![p] = 0]
           \/ marked_count' = [marked_count EXCEPT ![p] = Minus(@, 1)]
        /\ \/ unblocked_work_count' = [unblocked_work_count EXCEPT ![p] = 0]
           \/ unblocked_work_count' = unblocked_work_count
        /\ \/ queueIters' = [queueIters EXCEPT ![p] = NoQueue]
           \/ queueIters' = [queueIters EXCEPT ![p] = NextCycle(work_queues[p], q)]
        /\ current_priority' \in Levels \cup {p}
    BY <1>2 DEF RemoveQueueInternal
  <2>7. q \notin blocked
    BY <1>2 DEF RemoveQueueInternal, IsNext, Eligible
  <2>8. /\ size' \in [Queues -> 0 .. SizeMod - 1] /\ total_marked' \in Int
        /\ work_queues' \in [Priorities -> Seq(Queues)]
    BY <2>3, <2>5, <2>6 DEF TypeOK
  <2>9. /\ marked_count' \in [Priorities -> 0 .. SizeMod - 1]
        /\ unblocked_work_count' \in [Priorities -> 0 .. SizeMod - 1]
    <3>1. /\ marked_count \in [Priorities -> 0 .. SizeMod - 1]
          /\ unblocked_work_count \in [Priorities -> 0 .. SizeMod - 1]
      BY DEF TypeOK
    <3>2. marked_count' \in [Priorities -> 0 .. SizeMod - 1]  BY <2>5, <2>6, <3>1
    <3>3. unblocked_work_count' \in [Priorities -> 0 .. SizeMod - 1]  BY <2>5, <2>6, <3>1
    <3>. QED BY <3>2, <3>3
  <2>10. /\ queueIters' \in [Priorities -> Queues \cup {NoQueue, "dangling"}]
         /\ current_priority' \in Priorities
    BY <2>4, <2>6 DEF TypeOK, Levels
  <2>11. queue_map' \subseteq Queues /\ marked' \subseteq queue_map' /\ blocked' \subseteq queue_map'
    BY <2>6, <2>7 DEF TypeOK
  <2>. QED BY <1>2, <2>8, <2>9, <2>10, <2>11
           DEF RemoveQueueInternal, TypeOK, timeVars, postVars, workVars, envVars
<1>3. CASE RemoveTimedOut(w)
  <2>1. w \in Works /\ post[w] = "queued"
    BY <1>3 DEF RemoveTimedOut, ListsOK, TimersOfQueued, QueuedIn
  <2>2. /\ queue' = [queue EXCEPT ![at[w]] = RemoveFirst(@, w)]
        /\ timedOutQueue' = timedOutQueue \ {w} /\ TakenOut(w)
        /\ worker' \in {"wait", "purge"}
    BY <1>3 DEF RemoveTimedOut
  <2>3. queue' \in [Queues -> Seq(Works)]
    BY <2>1, <2>2, QueuedWork DEF TypeOK
  <2>. QED BY <1>3, <2>1, <2>2, <2>3, TypeTakenOut
           DEF RemoveTimedOut, TypeOK, iterVars, envVars
<1>4. CASE PopQueue
  <2>1. cur \in Works /\ post[cur] = "queued" /\ at[cur] \in queue_map
    BY <1>4, RunningWork DEF PopQueue, Lockable
  <2>2. /\ queue' = [queue EXCEPT ![at[cur]] = Tail(@)] /\ TakenOut(cur)
        /\ timeoutQueue' = timeoutQueue \ {cur} /\ timedOutQueue' = timedOutQueue \ {cur}
        /\ worker' = "wait" /\ cur' = NoWork /\ queueIters' = AdvanceFrom(at[cur])
    BY <1>4 DEF PopQueue
  <2>3. queue' \in [Queues -> Seq(Works)]
    BY <2>1, <2>2, QueuedWork DEF TypeOK
  <2>4. queueIters' \in [Priorities -> Queues \cup {NoQueue, "dangling"}]
    <3>1. NextCycle(work_queues[Priority[at[cur]]], at[cur]) \in Queues
      BY <2>1, SuccessorType DEF ListsOK, TypeOK
    <3>. QED BY <2>2, <3>1 DEF AdvanceFrom, TypeOK
  <2>. QED BY <1>4, <2>1, <2>2, <2>3, <2>4, TypeTakenOut DEF PopQueue, TypeOK, envVars
<1>5. CASE BlockQueue
  <2>1. /\ cur \in Works /\ at[cur] \in queue_map /\ at[cur] \in Queues
        /\ Priority[at[cur]] \in Priorities
    BY <1>5, RunningWork, QueuedWork DEF BlockQueue, Lockable
  <2>2. Len(queue[at[cur]]) \in 0 .. SizeMod - 1
    <3>1. queue[at[cur]] \in Seq(Works) /\ IsListOf(queue[at[cur]], QueuedIn({at[cur]}))
      BY <2>1 DEF TypeOK, ListsOK, QueuesListed
    <3>2. Len(queue[at[cur]]) = Cardinality(QueuedIn({at[cur]}))  BY <3>1, ListLength
    <3>. QED BY <3>2, CountType
  <2>3. /\ Minus(unblocked_work_count[Priority[at[cur]]], Len(queue[at[cur]])) \in 0 .. SizeMod - 1
        /\ Minus(unblocked_work, Len(queue[at[cur]])) \in 0 .. SizeMod - 1
        /\ Minus(marked_count[Priority[at[cur]]], 1) \in 0 .. SizeMod - 1
    <3>1. 1 \in 0 .. SizeMod - 1  BY SizeAssumption
    <3>. QED BY <2>1, <2>2, <3>1, WordType DEF TypeOK
  <2>4. /\ blocked' = blocked \cup {at[cur]}
        /\ unblocked_work' = Minus(unblocked_work, Len(queue[at[cur]]))
        /\ unblocked_work_count' = [unblocked_work_count EXCEPT
              ![Priority[at[cur]]] = Minus(@, Len(queue[at[cur]]))]
        /\ \/ marked_count' = marked_count
           \/ marked_count' = [marked_count EXCEPT ![Priority[at[cur]]] = Minus(@, 1)]
        /\ total_marked' \in {total_marked, total_marked - 1}
        /\ worker' = "wait" /\ cur' = NoWork /\ queueIters' = AdvanceFrom(at[cur])
    BY <1>5 DEF BlockQueue
  <2>5. queueIters' \in [Priorities -> Queues \cup {NoQueue, "dangling"}]
    <3>1. NextCycle(work_queues[Priority[at[cur]]], at[cur]) \in Queues
      BY <2>1, SuccessorType DEF ListsOK, TypeOK
    <3>. QED BY <2>4, <3>1 DEF AdvanceFrom, TypeOK
  <2>6. /\ unblocked_work_count' \in [Priorities -> 0 .. SizeMod - 1]
        /\ marked_count' \in [Priorities -> 0 .. SizeMod - 1]
        /\ unblocked_work' \in 0 .. SizeMod - 1 /\ total_marked' \in Int
    <3>1. unblocked_work_count' \in [Priorities -> 0 .. SizeMod - 1]
      BY <2>1, <2>3, <2>4 DEF TypeOK
    <3>2. marked_count' \in [Priorities -> 0 .. SizeMod - 1]
      BY <2>1, <2>3, <2>4 DEF TypeOK
    <3>3. total_marked' \in Int  BY <2>4 DEF TypeOK
    <3>. QED BY <2>3, <2>4, <3>1, <3>2, <3>3
  <2>7. blocked' \subseteq queue_map  BY <2>1, <2>4 DEF TypeOK
  <2>. QED BY <1>5, <2>4, <2>5, <2>6, <2>7 DEF BlockQueue, TypeOK, timeVars, postVars, envVars
<1> QED BY <1>1, <1>2, <1>3, <1>4, <1>5

\* The timeout thread and the stopping threads keep the types.
LEMMA TypeStopping ==
    ASSUME TypeOK, NEW c, NEW E \in SUBSET Works,
           \/ TimerExpires(E) \/ TimerExits \/ StopBegins(c) \/ StopImmediateBegins(c)
           \/ Joins(c) \/ JoinTimesOut(c) \/ Clear(c)
    PROVE  TypeOK'
<1>1. CASE TimerExpires(E)
  BY <1>1 DEF TimerExpires, Told, TypeOK, queueVars, countVars, iterVars, postVars,
              workVars, envVars
<1>2. CASE TimerExits
  BY <1>2 DEF TimerExits, TypeOK, queueVars, countVars, iterVars, timeVars, postVars,
              workVars, envVars
<1>3. CASE StopBegins(c)
  <2>1. AfterStop(state) \in {"join", "finish", "clear"}  BY DEF AfterStop
  <2>. QED BY <1>3, <2>1 DEF StopBegins, TypeOK, HandlerStates, queueVars, countVars,
                             iterVars, timeVars, postVars, workVars, envVars
<1>4. CASE StopImmediateBegins(c)
  BY <1>4 DEF StopImmediateBegins, TypeOK, HandlerStates, queueVars, countVars, iterVars,
              timeVars, postVars, workVars, envVars
<1>5. CASE Joins(c)
  BY <1>5 DEF Joins, TypeOK, queueVars, countVars, iterVars, timeVars, postVars, workVars,
              envVars
<1>6. CASE JoinTimesOut(c)
  BY <1>6 DEF JoinTimesOut, TypeOK, queueVars, countVars, iterVars, timeVars, postVars,
              workVars, envVars
<1>7. CASE Clear(c)
  <2>1. 0 \in Priorities /\ DefaultQueue \in Queues /\ 0 \in 0 .. SizeMod - 1
    BY QueuesAssumption, SizeAssumption DEF Priorities
  <2>2. << >> \in Seq(Works) /\ << >> \in Seq(Queues) /\ <<DefaultQueue>> \in Seq(Queues)
    BY <2>1
  <2>3. /\ queue' \in [Queues -> Seq(Works)] /\ size' \in [Queues -> 0 .. SizeMod - 1]
        /\ work_queues' \in [Priorities -> Seq(Queues)]
    BY <1>7, <2>1, <2>2 DEF Clear
  <2>4. /\ post' \in [Works -> {"idle", "entering", "waiting", "queued"}]
        /\ at' \in [Works -> Queues \cup {NoQueue}]
    BY <1>7 DEF Clear, TypeOK
  <2>5. /\ unblocked_work_count' \in [Priorities -> 0 .. SizeMod - 1]
        /\ marked_count' \in [Priorities -> 0 .. SizeMod - 1]
        /\ queueIters' \in [Priorities -> Queues \cup {NoQueue, "dangling"}]
    BY <1>7, <2>1 DEF Clear, TypeOK
  <2>6. /\ ctl' \in [Controllers -> {"idle", "join", "join_timeout", "finish", "clear",
                                     "done", "terminated"}]
        /\ state' \in HandlerStates /\ worker' \in {worker, "undefined"}
    BY <1>7 DEF Clear, TypeOK, HandlerStates
  <2>. QED BY <1>7, <2>1, <2>3, <2>4, <2>5, <2>6 DEF Clear, TypeOK, envVars
<1> QED BY <1>1, <1>2, <1>3, <1>4, <1>5, <1>6, <1>7

--------------------------------------------------------------------------------
(* The lists.  A step that leaves the lists, the placed work and the running *)
(* work as they are is quiet; eight actions are not.                         *)

\* Before start() there is no work thread.
NotStarted == state = "PRESTART" => worker = "off"

Running == {"call", "succeeded", "failed"}

WorkKept ==
    /\ queue' = queue
    /\ \A w \in Works : post[w] = "queued" \/ post'[w] = "queued"
                           => post'[w] = post[w] /\ at'[w] = at[w]
    /\ \A w \in Works : post'[w] \in {"entering", "waiting"} => at'[w] \in Queues
LevelsKept ==
    /\ queue_map' = queue_map /\ work_queues' = work_queues
    /\ DefaultQueue \in marked' => DefaultQueue \in marked
TimersKept ==
    /\ timeoutQueue' \cup timedOutQueue' = timeoutQueue \cup timedOutQueue
    /\ timeoutQueue' \cap timedOutQueue' = timeoutQueue \cap timedOutQueue
RunKept ==
    /\ cur' = cur /\ blocked' \subseteq blocked
    /\ (worker' \in Running <=> worker \in Running) \/ ~Alive'
Quiet == WorkKept /\ LevelsKept /\ TimersKept /\ RunKept
LoudStep ==
    \/ PopQueue \/ BlockQueue
    \/ \E w \in Works : PostInserts(w) \/ RemoveTimedOut(w)
    \/ \E p \in Priorities, q \in Queues : RunWork(p, q) \/ RemoveQueueInternal(p, q)
    \/ \E q \in Queues : CreateQueue(q)
    \/ \E c \in Controllers : Clear(c)

\* Every step is quiet or one of the eight.
LEMMA StepShape ==
    ASSUME TypeOK, ListsOK, NotStarted, Next
    PROVE  LoudStep \/ (Alive /\ Quiet)
<1> USE DEF Quiet, WorkKept, LevelsKept, TimersKept, RunKept
<1>1. ASSUME NEW w \in Works, NEW q \in Queues, PostBegin(w, q) PROVE Alive /\ Quiet
  BY <1>1 DEF PostBegin, TypeOK, ListsOK, WorkPlaced, queueVars, timeVars, workVars
<1>2. ASSUME NEW w \in Works, PostFails(w) \/ PostWaits(w) \/ PostWakes(w)
      PROVE  Alive /\ Quiet
  <2>1. CASE PostFails(w)
    BY <2>1 DEF PostFails, Lockable, TypeOK, ListsOK, WorkPlaced, queueVars, timeVars, workVars
  <2>2. CASE PostWaits(w)
    BY <2>2 DEF PostWaits, Lockable, TypeOK, ListsOK, WorkPlaced, queueVars, timeVars, workVars
  <2>3. CASE PostWakes(w)
    BY <2>3 DEF PostWakes, TypeOK, ListsOK, WorkPlaced, queueVars, timeVars, workVars
  <2>. QED BY <1>2, <2>1, <2>2, <2>3
<1>3. CASE Start
  <2>1. worker \notin Running /\ worker' \notin Running
    BY <1>3 DEF Start, NotStarted, Running
  <2>. QED BY <1>3, <2>1 DEF Start, Lockable, TypeOK, ListsOK, WorkPlaced, queueVars, timeVars,
                             postVars
<1>4. ASSUME NEW q \in Queues, RemoveQueue(q) \/ ResourceChanges(q) \/ UnblockQueue(q)
      PROVE  Alive /\ Quiet
  <2>1. CASE RemoveQueue(q)
    BY <2>1 DEF RemoveQueue, Removable, Lockable, TypeOK, ListsOK, WorkPlaced, timeVars,
                postVars, workVars
  <2>2. CASE ResourceChanges(q)
    BY <2>2 DEF ResourceChanges, TypeOK, ListsOK, WorkPlaced, queueVars, timeVars,
                postVars, workVars
  <2>3. CASE UnblockQueue(q)
    BY <2>3 DEF UnblockQueue, Lockable, TypeOK, ListsOK, WorkPlaced, queueVars, timeVars,
                postVars, workVars
  <2>. QED BY <1>4, <2>1, <2>2, <2>3
<1>5. CASE WorkUnblocks
  BY <1>5 DEF WorkUnblocks, Lockable, TypeOK, ListsOK, WorkPlaced, timeVars, postVars, workVars
<1>6. CASE WorkExits
  BY <1>6 DEF WorkExits, Lockable, TypeOK, ListsOK, WorkPlaced, queueVars, timeVars, postVars,
              Running
<1>7. CASE WorkIsLost
  BY <1>7 DEF WorkIsLost, MayPick, MayRun, Lockable, TypeOK, ListsOK, WorkPlaced, queueVars,
              timeVars, postVars, Running
<1>8. CASE Callback
  BY <1>8 DEF Callback, TypeOK, ListsOK, WorkPlaced, queueVars, timeVars, postVars, Running
<1>9. ASSUME NEW E \in SUBSET Works, TimerExpires(E) PROVE Alive /\ Quiet
  <2>1. /\ timeoutQueue' = timeoutQueue \ E /\ timedOutQueue' = timedOutQueue \cup E
        /\ E \subseteq timeoutQueue
    BY <1>9 DEF TimerExpires
  <2>2. timeoutQueue \cap timedOutQueue = {}  BY DEF ListsOK, TimersOfQueued
  <2>3. TimersKept  BY <2>1, <2>2
  <2>. QED BY <1>9, <2>3 DEF TimerExpires, Lockable, TypeOK, ListsOK, WorkPlaced, queueVars,
                             postVars, workVars
<1>10. CASE TimerExits
  BY <1>10 DEF TimerExits, Lockable, TypeOK, ListsOK, WorkPlaced, queueVars, timeVars,
               postVars, workVars
<1>11. ASSUME NEW c \in Controllers,
              StopBegins(c) \/ StopImmediateBegins(c) \/ Joins(c) \/ JoinTimesOut(c)
       PROVE  Alive /\ Quiet
  BY <1>11 DEF StopBegins, StopImmediateBegins, Joins, JoinTimesOut, MayStop, Lockable,
               TypeOK, ListsOK, WorkPlaced, queueVars, timeVars, postVars, workVars
<1> HIDE DEF Quiet, WorkKept, LevelsKept, TimersKept, RunKept
<1>12. CASE Environment
  BY <1>12, <1>1, <1>2, <1>4, <1>9, <1>11 DEF Environment, LoudStep
<1>13. CASE WorkThread
  BY <1>13, <1>5, <1>6, <1>7, <1>8 DEF WorkThread, LoudStep
<1>14. ASSUME NEW w \in Works, Posting(w) PROVE LoudStep \/ (Alive /\ Quiet)
  BY <1>14, <1>2 DEF Posting, LoudStep
<1>15. ASSUME NEW c \in Controllers, Stopping(c) PROVE LoudStep \/ (Alive /\ Quiet)
  BY <1>15, <1>11 DEF Stopping, LoudStep
<1> QED BY <1>3, <1>4, <1>10, <1>12, <1>13, <1>14, <1>15 DEF Next

\* The set of the works placed in a queue, after a step that keeps it, adds one
\* work or takes one out.
LEMMA PlacedKept ==
    ASSUME WorkKept, NEW Q \in SUBSET Queues
    PROVE  QueuedIn(Q)' = QueuedIn(Q)
<1>1. \A w \in Works : /\ post'[w] = "queued" <=> post[w] = "queued"
                       /\ post[w] = "queued" => at'[w] = at[w]
  BY DEF WorkKept
<1> QED BY <1>1 DEF QueuedIn

LEMMA PlacedMore ==
    ASSUME TypeOK, NEW w \in Works, PostInserts(w), NEW Q \in SUBSET Queues
    PROVE  /\ w \notin QueuedIn(Q)
           /\ QueuedIn(Q)' = IF at[w] \in Q THEN QueuedIn(Q) \cup {w} ELSE QueuedIn(Q)
<1>1. post[w] = "entering" /\ post' = [post EXCEPT ![w] = "queued"] /\ at' = at
  BY DEF PostInserts
<1> QED BY <1>1 DEF QueuedIn, TypeOK

LEMMA PlacedLess ==
    ASSUME TypeOK, NEW w \in Works, TakenOut(w), NEW Q \in SUBSET Queues
    PROVE  QueuedIn(Q)' = QueuedIn(Q) \ {w}
<1>1. post' = [NotifyAll(post) EXCEPT ![w] = "idle"] /\ at' = [at EXCEPT ![w] = NoQueue]
  BY DEF TakenOut
<1>2. \A v \in Works \ {w} : /\ post'[v] = "queued" <=> post[v] = "queued"
                             /\ at'[v] = at[v]
  BY <1>1 DEF NotifyAll, TypeOK
<1>3. post'[w] = "idle"  BY <1>1 DEF NotifyAll
<1> QED BY <1>2, <1>3 DEF QueuedIn

\* A quiet step leaves the lists right.
LEMMA ListsQuiet ==
    ASSUME TypeOK, ListsOK, Alive, Quiet
    PROVE  ListsOK'
<1>1. QueuesListed'
  BY PlacedKept DEF ListsOK, QueuesListed, Quiet, WorkKept
<1>2. LevelsListed'
  BY DEF ListsOK, LevelsListed, Quiet, LevelsKept, Level
<1>3. WorkPlaced'
  BY DEF ListsOK, WorkPlaced, Quiet, WorkKept, LevelsKept
<1>4. TimersOfQueued'
  BY PlacedKept DEF ListsOK, TimersOfQueued, Quiet, TimersKept
<1>5. RunningIsFirst'
  <2>. SUFFICES ASSUME Alive'
                PROVE  RunningIsFirst'
    BY DEF RunningIsFirst
  <2>1. /\ worker \in Running <=> cur # NoWork
        /\ cur # NoWork => /\ post[cur] = "queued" /\ at[cur] \notin blocked
                           /\ cur = Head(queue[at[cur]])
    BY DEF ListsOK, RunningIsFirst, Running
  <2>2. cur' = cur /\ (worker' \in Running <=> worker \in Running) /\ blocked' \subseteq blocked
    BY DEF Quiet, RunKept
  <2>3. cur # NoWork => post'[cur] = "queued" /\ at'[cur] = at[cur] /\ queue' = queue
    BY <2>1 DEF Quiet, WorkKept, TypeOK
  <2>. QED BY <2>1, <2>2, <2>3 DEF RunningIsFirst, Running
<1> QED BY <1>1, <1>2, <1>3, <1>4, <1>5 DEF ListsOK

\* The end of post() leaves the lists right.
LEMMA ListsPostInserts ==
    ASSUME TypeOK, ListsOK, NEW w \in Works, PostInserts(w)
    PROVE  ListsOK'
<1>1. /\ Alive /\ post[w] = "entering" /\ at[w] \in queue_map
      /\ queue' = [queue EXCEPT ![at[w]] = Append(@, w)]
      /\ post' = [post EXCEPT ![w] = "queued"] /\ at' = at
      /\ timeoutQueue' = timeoutQueue \cup {w} /\ timedOutQueue' = timedOutQueue
      /\ queue_map' = queue_map /\ work_queues' = work_queues /\ marked' = marked
      /\ blocked' = blocked /\ worker' = worker /\ cur' = cur /\ ctl' = ctl
  BY DEF PostInserts, Lockable, workVars
<1>2. at[w] \in Queues  BY <1>1 DEF TypeOK
<1>3. QueuesListed'
  <2>. SUFFICES ASSUME NEW q \in Queues
                PROVE  IsListOf(queue'[q], QueuedIn({q})')
    BY DEF QueuesListed, IsListOf
  <2>1. queue[q] \in Seq(Works) /\ IsListOf(queue[q], QueuedIn({q}))
    BY DEF TypeOK, ListsOK, QueuesListed
  <2>2. /\ w \notin QueuedIn({q})
        /\ QueuedIn({q})' = IF at[w] \in {q} THEN QueuedIn({q}) \cup {w} ELSE QueuedIn({q})
    <3>1. {q} \in SUBSET Queues  OBVIOUS
    <3>. QED BY <3>1, PlacedMore
  <2>3. queue'[q] = IF at[w] = q THEN Append(queue[q], w) ELSE queue[q]
    BY <1>1 DEF TypeOK
  <2>4. IsListOf(Append(queue[q], w), QueuedIn({q}) \cup {w})  BY <2>1, <2>2, ListAppend
  <2>. QED BY <2>1, <2>2, <2>3, <2>4
<1>4. LevelsListed'
  BY <1>1 DEF ListsOK, LevelsListed, Level
<1>5. WorkPlaced'
  BY <1>1 DEF ListsOK, WorkPlaced, TypeOK
<1>6. TimersOfQueued'
  <2>1. QueuedIn(Queues)' = QueuedIn(Queues) \cup {w} /\ w \notin QueuedIn(Queues)
    BY <1>2, PlacedMore
  <2>. QED BY <1>1, <2>1 DEF ListsOK, TimersOfQueued
<1>7. RunningIsFirst'
  <2>. SUFFICES ASSUME cur # NoWork
                PROVE  post'[cur] = "queued" /\ at[cur] \notin blocked
                       /\ cur = Head(queue'[at[cur]])
    BY <1>1 DEF ListsOK, RunningIsFirst
  <2>1. cur \in Works /\ post[cur] = "queued" /\ at[cur] \notin blocked
        /\ cur = Head(queue[at[cur]])
    BY <1>1 DEF ListsOK, RunningIsFirst, TypeOK
  <2>2. at[cur] \in Queues /\ queue[at[cur]] \in Seq(Works) /\ queue[at[cur]] # << >>
    BY <2>1, QueuedWork
  <2>3. Head(Append(queue[at[cur]], w)) = Head(queue[at[cur]])
    BY <2>2, HeadTailAppend
  <2>. QED BY <1>1, <2>1, <2>2, <2>3 DEF TypeOK
<1> QED BY <1>3, <1>4, <1>5, <1>6, <1>7 DEF ListsOK

\* Taking a work out, by pop_queue_internal or remove_work_internal, leaves the
\* lists right when its own list loses it and neither thread has it any more.
LEMMA ListsTakenOut ==
    ASSUME TypeOK, ListsOK, Alive, NEW w \in Works, post[w] = "queued", TakenOut(w),
           NEW left \in Seq(Works), IsListOf(left, QueuedIn({at[w]}) \ {w}),
           queue' = [queue EXCEPT ![at[w]] = left],
           UNCHANGED <<queue_map, work_queues, marked>>,
           timeoutQueue' = timeoutQueue \ {w}, timedOutQueue' = timedOutQueue \ {w},
           cur' = NoWork, worker' \notin Running
    PROVE  ListsOK'
<1>1. at[w] \in Queues  BY QueuedWork
<1>2. \A v \in Works \ {w} : /\ post'[v] = "queued" <=> post[v] = "queued"
                             /\ post'[v] \in {"entering", "waiting"} =>
                                   post[v] \in {"entering", "waiting"}
                             /\ at'[v] = at[v]
  <2>1. post' = [NotifyAll(post) EXCEPT ![w] = "idle"] /\ at' = [at EXCEPT ![w] = NoQueue]
    BY DEF TakenOut
  <2>. QED BY <2>1 DEF NotifyAll, TypeOK
<1>3. post'[w] = "idle"  BY DEF TakenOut, NotifyAll
<1>4. QueuesListed'
  <2>. SUFFICES ASSUME NEW q \in Queues
                PROVE  IsListOf(queue'[q], QueuedIn({q})')
    BY DEF QueuesListed, IsListOf
  <2>1. IsListOf(queue[q], QueuedIn({q}))  BY DEF ListsOK, QueuesListed
  <2>2. QueuedIn({q})' = QueuedIn({q}) \ {w}
    <3>1. {q} \in SUBSET Queues  OBVIOUS
    <3>. QED BY <3>1, PlacedLess
  <2>3. queue'[q] = IF q = at[w] THEN left ELSE queue[q]  BY DEF TypeOK
  <2>4. CASE q = at[w]
    BY <2>2, <2>3, <2>4
  <2>5. CASE q # at[w]
    <3>1. w \notin QueuedIn({q})  BY <2>5 DEF QueuedIn
    <3>. QED BY <2>1, <2>2, <2>3, <2>5, <3>1
  <2>. QED BY <2>4, <2>5
<1>5. LevelsListed'
  BY DEF ListsOK, LevelsListed, Level
<1>6. WorkPlaced'
  BY <1>2, <1>3 DEF ListsOK, WorkPlaced
<1>7. TimersOfQueued'
  <2>1. QueuedIn(Queues)' = QueuedIn(Queues) \ {w}  BY PlacedLess
  <2>. QED BY <2>1 DEF ListsOK, TimersOfQueued
<1>8. RunningIsFirst'
  BY DEF RunningIsFirst, Running
<1> QED BY <1>4, <1>5, <1>6, <1>7, <1>8 DEF ListsOK

\* The work thread's own steps leave the lists right.
LEMMA ListsWorkThread ==
    ASSUME TypeOK, ListsOK, PopQueue \/ BlockQueue \/ \E w \in Works : RemoveTimedOut(w)
    PROVE  ListsOK'
<1>1. ASSUME NEW w \in Works, RemoveTimedOut(w) PROVE ListsOK'
  <2>1. /\ Alive /\ worker \in {"wait", "purge"} /\ worker' \in {"wait", "purge"}
        /\ w \in timedOutQueue /\ timedOutQueue' = timedOutQueue \ {w}
        /\ queue' = [queue EXCEPT ![at[w]] = RemoveFirst(@, w)] /\ TakenOut(w)
        /\ UNCHANGED <<queue_map, work_queues, marked, timeoutQueue, cur>>
    BY <1>1 DEF RemoveTimedOut, MayRun, Lockable
  <2>2. post[w] = "queued" /\ w \notin timeoutQueue
    BY <2>1 DEF ListsOK, TimersOfQueued, QueuedIn
  <2>3. cur = NoWork
    BY <2>1 DEF ListsOK, RunningIsFirst
  <2> DEFINE left == RemoveFirst(queue[at[w]], w)
  <2>4. left \in Seq(Works) /\ IsListOf(left, QueuedIn({at[w]}) \ {w})
    <3>1. at[w] \in Queues /\ queue[at[w]] \in Seq(Works)  BY <2>2, QueuedWork
    <3>2. IsListOf(queue[at[w]], QueuedIn({at[w]})) /\ w \in QueuedIn({at[w]})
      BY <2>2, <3>1 DEF ListsOK, QueuesListed, QueuedIn
    <3>. QED BY <3>1, <3>2, ListRemove
  <2>5. queue' = [queue EXCEPT ![at[w]] = left]  BY <2>1 DEF TypeOK
  <2>6. timeoutQueue' = timeoutQueue \ {w} /\ cur' = NoWork /\ worker' \notin Running
    BY <2>1, <2>2, <2>3 DEF Running
  <2> HIDE DEF left
  <2>. QED BY <2>1, <2>2, <2>4, <2>5, <2>6, ListsTakenOut
<1>2. CASE PopQueue
  <2>1. /\ Alive /\ worker = "succeeded" /\ worker' = "wait" /\ cur' = NoWork
        /\ queue' = [queue EXCEPT ![at[cur]] = Tail(@)]
        /\ timeoutQueue' = timeoutQueue \ {cur} /\ timedOutQueue' = timedOutQueue \ {cur}
        /\ TakenOut(cur) /\ UNCHANGED <<queue_map, work_queues, marked>>
    BY <1>2 DEF PopQueue, Lockable
  <2>2. /\ cur \in Works /\ post[cur] = "queued" /\ at[cur] \in Queues
        /\ cur = Head(queue[at[cur]])
    BY <2>1, RunningWork
  <2> DEFINE left == Tail(queue[at[cur]])
  <2>3. left \in Seq(Works) /\ IsListOf(left, QueuedIn({at[cur]}) \ {cur})
    <3>1. queue[at[cur]] \in Seq(Works) /\ queue[at[cur]] # << >>  BY <2>2, QueuedWork
    <3>2. IsListOf(queue[at[cur]], QueuedIn({at[cur]}))
      BY <2>2 DEF ListsOK, QueuesListed
    <3>. QED BY <2>2, <3>1, <3>2, ListTail
  <2>4. queue' = [queue EXCEPT ![at[cur]] = left]  BY <2>1 DEF TypeOK
  <2>5. worker' \notin Running  BY <2>1 DEF Running
  <2> HIDE DEF left
  <2>. QED BY <2>1, <2>2, <2>3, <2>4, <2>5, ListsTakenOut
<1>3. CASE BlockQueue
  <2>1. UNCHANGED <<queue, queue_map, work_queues, marked, post, at, timeoutQueue, timedOutQueue>>
        /\ worker' = "wait" /\ cur' = NoWork
    BY <1>3 DEF BlockQueue, timeVars, postVars
  <2>2. WorkKept  BY <2>1 DEF WorkKept, ListsOK, WorkPlaced
  <2>3. QueuesListed' /\ TimersOfQueued'
    BY <2>1, <2>2, PlacedKept DEF ListsOK, QueuesListed, TimersOfQueued
  <2>4. LevelsListed' /\ WorkPlaced'
    BY <2>1 DEF ListsOK, LevelsListed, WorkPlaced, Level
  <2>5. RunningIsFirst'  BY <2>1 DEF RunningIsFirst
  <2>. QED BY <2>3, <2>4, <2>5 DEF ListsOK
<1> QED BY <1>1, <1>2, <1>3

\* A level picked by get_next_queue_with_work leaves the lists right, whether work
\* is run or the queue removed.
LEMMA ListsPick ==
    ASSUME TypeOK, ListsOK, NEW p \in Priorities, NEW q \in Queues,
           RunWork(p, q) \/ RemoveQueueInternal(p, q)
    PROVE  ListsOK'
<1>1. CASE RunWork(p, q)
  <2>1. /\ q \in queue_map \ blocked /\ queue[q] # << >>
        /\ worker' = "call" /\ cur' = Head(queue[q])
        /\ UNCHANGED <<queue, queue_map, work_queues, marked, blocked, post, at,
                       timeoutQueue, timedOutQueue>>
    BY <1>1 DEF RunWork, IsNext, Eligible, queueVars, timeVars, postVars
  <2>2. Head(queue[q]) \in QueuedIn({q})
    <3>1. queue[q] \in Seq(Works) /\ IsListOf(queue[q], QueuedIn({q}))
      BY DEF TypeOK, ListsOK, QueuesListed
    <3>. QED BY <2>1, <3>1, ListTail
  <2>3. /\ cur' \in Works /\ cur' # NoWork /\ post[cur'] = "queued" /\ at[cur'] = q
    BY <2>1, <2>2, QueuesAssumption DEF QueuedIn
  <2>4. WorkKept  BY <2>1 DEF WorkKept, ListsOK, WorkPlaced
  <2>5. QueuesListed' /\ TimersOfQueued'
    BY <2>1, <2>4, PlacedKept DEF ListsOK, QueuesListed, TimersOfQueued
  <2>6. LevelsListed' /\ WorkPlaced'
    BY <2>1 DEF ListsOK, LevelsListed, WorkPlaced, Level
  <2>7. RunningIsFirst'  BY <2>1, <2>3 DEF RunningIsFirst
  <2>. QED BY <2>5, <2>6, <2>7 DEF ListsOK
<1>2. CASE RemoveQueueInternal(p, q)
  <2>1. /\ Alive /\ worker = "wait" /\ q \in queue_map \ blocked /\ q \in marked
        /\ Priority[q] = p /\ queue[q] = << >> /\ queue_map' = queue_map \ {q}
        /\ marked' = marked \ {q}
        /\ work_queues' = [work_queues EXCEPT ![p] = RemoveFirst(work_queues[p], q)]
        /\ UNCHANGED <<queue, blocked, post, at, timeoutQueue, timedOutQueue, worker, cur>>
    BY <1>2 DEF RemoveQueueInternal, MayPick, MayRun, Lockable, IsNext, Eligible, Level,
                timeVars, postVars, workVars
  <2>2. WorkKept  BY <2>1 DEF WorkKept, ListsOK, WorkPlaced
  <2>3. QueuesListed' /\ TimersOfQueued'
    BY <2>1, <2>2, PlacedKept DEF ListsOK, QueuesListed, TimersOfQueued
  <2>4. LevelsListed'
    <3>1. ASSUME NEW r \in Priorities
          PROVE  IsListOf(work_queues'[r], queue_map' \cap Level(r))
      <4>1. work_queues[r] \in Seq(Queues) /\ IsListOf(work_queues[r], queue_map \cap Level(r))
        BY DEF TypeOK, ListsOK, LevelsListed
      <4>2. CASE r = p
        <5>1. q \in queue_map \cap Level(r)  BY <2>1, <4>2 DEF Level
        <5>2. IsListOf(RemoveFirst(work_queues[r], q), (queue_map \cap Level(r)) \ {q})
          BY <4>1, <5>1, ListRemove
        <5>3. (queue_map \cap Level(r)) \ {q} = queue_map' \cap Level(r)  BY <2>1
        <5>4. work_queues'[r] = RemoveFirst(work_queues[r], q)  BY <2>1, <4>2 DEF TypeOK
        <5>. QED BY <5>2, <5>3, <5>4
      <4>3. CASE r # p
        <5>1. q \notin Level(r)  BY <2>1, <4>3 DEF Level
        <5>2. queue_map' \cap Level(r) = queue_map \cap Level(r)  BY <2>1, <5>1
        <5>3. work_queues'[r] = work_queues[r]  BY <2>1, <4>3 DEF TypeOK
        <5>. QED BY <4>1, <5>2, <5>3
      <4>. QED BY <4>2, <4>3
    <3>2. DefaultQueue \in queue_map' \ marked'
      BY <2>1 DEF ListsOK, LevelsListed
    <3>. QED BY <3>1, <3>2 DEF LevelsListed, Level
  <2>5. WorkPlaced'
    <3>1. ASSUME NEW w \in Works, post[w] = "queued" PROVE at[w] # q
      <4>1. w \in QueuedIn({at[w]}) /\ queue[at[w]] # << >>  BY <3>1, QueuedWork DEF QueuedIn
      <4>. QED BY <4>1, <2>1
    <3>. QED BY <2>1, <3>1 DEF ListsOK, WorkPlaced
  <2>6. RunningIsFirst'  BY <2>1 DEF ListsOK, RunningIsFirst
  <2>. QED BY <2>3, <2>4, <2>5, <2>6 DEF ListsOK
<1> QED BY <1>1, <1>2

\* create_queue() leaves the lists right.
LEMMA ListsCreateQueue ==
    ASSUME TypeOK, ListsOK, NEW q \in Queues, CreateQueue(q)
    PROVE  ListsOK'
<1>1. /\ Alive /\ q \notin queue_map /\ queue_map' = queue_map \cup {q}
      /\ work_queues' = [work_queues EXCEPT ![Priority[q]] = Append(@, q)]
      /\ UNCHANGED <<queue, marked, blocked, post, at, timeoutQueue, timedOutQueue, worker, cur>>
  BY DEF CreateQueue, Lockable, timeVars, postVars, workVars
<1>2. WorkKept  BY <1>1 DEF WorkKept, ListsOK, WorkPlaced
<1>3. QueuesListed' /\ TimersOfQueued'
  BY <1>1, <1>2, PlacedKept DEF ListsOK, QueuesListed, TimersOfQueued
<1>4. LevelsListed'
  <2>1. ASSUME NEW r \in Priorities
        PROVE  IsListOf(work_queues'[r], queue_map' \cap Level(r))
    <3>1. work_queues[r] \in Seq(Queues) /\ IsListOf(work_queues[r], queue_map \cap Level(r))
      BY DEF TypeOK, ListsOK, LevelsListed
    <3>2. CASE r = Priority[q]
      <4>1. IsListOf(Append(work_queues[r], q), (queue_map \cap Level(r)) \cup {q})
        BY <1>1, <3>1, ListAppend
      <4>2. (queue_map \cap Level(r)) \cup {q} = queue_map' \cap Level(r)
        BY <1>1, <3>2 DEF Level
      <4>3. work_queues'[r] = Append(work_queues[r], q)  BY <1>1, <3>2 DEF TypeOK
      <4>. QED BY <4>1, <4>2, <4>3
    <3>3. CASE r # Priority[q]
      <4>1. queue_map' \cap Level(r) = queue_map \cap Level(r)  BY <1>1, <3>3 DEF Level
      <4>2. work_queues'[r] = work_queues[r]  BY <1>1, <3>3 DEF TypeOK
      <4>. QED BY <3>1, <4>1, <4>2
    <3>. QED BY <3>2, <3>3
  <2>2. DefaultQueue \in queue_map' \ marked'  BY <1>1 DEF ListsOK, LevelsListed
  <2>. QED BY <2>1, <2>2 DEF LevelsListed, Level
<1>5. WorkPlaced'  BY <1>1 DEF ListsOK, WorkPlaced
<1>6. RunningIsFirst'  BY <1>1 DEF ListsOK, RunningIsFirst
<1> QED BY <1>3, <1>4, <1>5, <1>6 DEF ListsOK

\* A handler without work, the constructor's and clear()'s, has its lists right.
LEMMA ListsCleared ==
    ASSUME queue_map' = {DefaultQueue}, marked' = {},
           queue' = [q \in Queues |-> << >>],
           work_queues' = [p \in Priorities |-> IF p = 0 THEN <<DefaultQueue>> ELSE << >>],
           timeoutQueue' = {}, timedOutQueue' = {},
           \A w \in Works : /\ post'[w] # "queued"
                            /\ post'[w] \in {"entering", "waiting"} => at'[w] \in Queues,
           Alive' => cur' = NoWork /\ worker' \notin Running
    PROVE  ListsOK'
<1>1. \A Q \in SUBSET Queues : QueuedIn(Q)' = {}  BY DEF QueuedIn
<1>2. QueuesListed'
  <2>1. \A q \in Queues : QueuedIn({q})' = {}  BY <1>1
  <2>. QED BY <2>1, ListOfNothing DEF QueuesListed
<1>3. LevelsListed'
  <2>1. ASSUME NEW p \in Priorities
        PROVE  IsListOf(work_queues'[p], {DefaultQueue} \cap Level(p))
    <3>1. CASE p = 0
      <4>1. {DefaultQueue} \cap Level(p) = {DefaultQueue}
        BY <3>1, QueuesAssumption DEF Level
      <4>2. IsListOf(<<DefaultQueue>>, {DefaultQueue})
        BY DEF IsListOf, ToSet, IsInjective
      <4>. QED BY <3>1, <4>1, <4>2
    <3>2. CASE p # 0
      <4>1. {DefaultQueue} \cap Level(p) = {}  BY <3>2, QueuesAssumption DEF Level
      <4>. QED BY <3>2, <4>1, ListOfNothing
    <3>. QED BY <3>1, <3>2
  <2>. QED BY <2>1 DEF LevelsListed, Level
<1>4. WorkPlaced'  BY DEF WorkPlaced
<1>5. TimersOfQueued'  BY DEF TimersOfQueued
<1>6. RunningIsFirst'  BY DEF RunningIsFirst, Running
<1> QED BY <1>2, <1>3, <1>4, <1>5, <1>6 DEF ListsOK

\* clear() leaves the lists right.
LEMMA ListsClear ==
    ASSUME TypeOK, ListsOK, NEW c \in Controllers, Clear(c)
    PROVE  ListsOK'
<1>1. /\ queue_map' = {DefaultQueue} /\ marked' = {}
      /\ queue' = [q \in Queues |-> << >>]
      /\ work_queues' = [p \in Priorities |-> IF p = 0 THEN <<DefaultQueue>> ELSE << >>]
      /\ timeoutQueue' = {} /\ timedOutQueue' = {}
      /\ post' = [w \in Works |-> IF post[w] = "queued" THEN "idle" ELSE post[w]]
      /\ at' = [w \in Works |-> IF post[w] = "queued" THEN NoQueue ELSE at[w]]
      /\ worker' = IF cur = NoWork THEN worker ELSE "undefined"
      /\ cur' = cur /\ Alive
  BY DEF Clear, Lockable
<1>2. \A w \in Works : /\ post'[w] # "queued"
                       /\ post'[w] \in {"entering", "waiting"} => at'[w] \in Queues
  BY <1>1 DEF ListsOK, WorkPlaced
<1>3. Alive' => cur' = NoWork /\ worker' \notin Running
  BY <1>1 DEF Alive, ListsOK, RunningIsFirst, Running
<1> QED BY <1>1, <1>2, <1>3, ListsCleared

--------------------------------------------------------------------------------
(* The invariant.  Types need the lists (what is popped is there) and the    *)
(* lists need the types, so the two are proved together.                     *)

IInv == TypeOK /\ ListsOK /\ NotStarted

\* The constructor leaves a handler whose types and lists are right.
LEMMA IInvInit == Init => IInv
<1>. SUFFICES ASSUME Init PROVE IInv
  OBVIOUS
<1>1. TypeOK  BY TypeInit
<1>2. /\ queue_map = {DefaultQueue} /\ marked = {}
      /\ queue = [q \in Queues |-> << >>]
      /\ work_queues = [p \in Priorities |-> IF p = 0 THEN <<DefaultQueue>> ELSE << >>]
      /\ timeoutQueue = {} /\ timedOutQueue = {} /\ cur = NoWork /\ worker = "off"
      /\ \A w \in Works : post[w] = "idle"
  BY DEF Init
<1>3. \A Q \in SUBSET Queues : QueuedIn(Q) = {}  BY <1>2 DEF QueuedIn
<1>4. QueuesListed
  <2>1. \A q \in Queues : QueuedIn({q}) = {}  BY <1>3
  <2>. QED BY <1>2, <2>1, ListOfNothing DEF QueuesListed
<1>5. LevelsListed
  <2>1. ASSUME NEW p \in Priorities
        PROVE  IsListOf(work_queues[p], {DefaultQueue} \cap Level(p))
    <3>1. CASE p = 0
      <4>1. {DefaultQueue} \cap Level(p) = {DefaultQueue}
        BY <3>1, QueuesAssumption DEF Level
      <4>2. IsListOf(<<DefaultQueue>>, {DefaultQueue})
        BY DEF IsListOf, ToSet, IsInjective
      <4>. QED BY <1>2, <3>1, <4>1, <4>2
    <3>2. CASE p # 0
      <4>1. {DefaultQueue} \cap Level(p) = {}  BY <3>2, QueuesAssumption DEF Level
      <4>. QED BY <1>2, <3>2, <4>1, ListOfNothing
    <3>. QED BY <3>1, <3>2
  <2>. QED BY <1>2, <2>1 DEF LevelsListed
<1>6. WorkPlaced /\ TimersOfQueued /\ RunningIsFirst /\ NotStarted
  BY <1>2 DEF WorkPlaced, TimersOfQueued, RunningIsFirst, NotStarted
<1> QED BY <1>1, <1>4, <1>5, <1>6 DEF IInv, ListsOK

\* Every step keeps the types.
LEMMA TypeStep ==
    ASSUME TypeOK, ListsOK, Next
    PROVE  TypeOK'
<1>0. DefaultQueue \in Queues /\ 0 \in Priorities
  BY QueuesAssumption DEF Priorities
<1>1. CASE Environment
  <2>1. ASSUME NEW w \in Works, PostWakes(w) \/ \E q \in Queues : PostBegin(w, q)
        PROVE  TypeOK'
    BY <1>0, <2>1, TypePosting
  <2>2. ASSUME NEW q \in Queues, CreateQueue(q) \/ RemoveQueue(q) \/ ResourceChanges(q)
        PROVE  TypeOK'
    BY <2>2, TypeQueues
  <2>3. ASSUME NEW E \in SUBSET Works, TimerExpires(E) PROVE TypeOK'
    BY <2>3, TypeStopping
  <2>4. ASSUME NEW c \in Controllers, StopBegins(c) \/ StopImmediateBegins(c) \/ JoinTimesOut(c)
        PROVE  TypeOK'
    <3>1. {} \in SUBSET Works  OBVIOUS
    <3>. QED BY <2>4, <3>1, TypeStopping
  <2>. QED BY <1>1, <2>1, <2>2, <2>3, <2>4 DEF Environment
<1>2. CASE WorkThread
  <2>1. ASSUME NEW w \in Works, RemoveTimedOut(w) PROVE TypeOK'
    BY <1>0, <2>1, TypeRun
  <2>2. ASSUME NEW p \in Priorities, NEW q \in Queues,
               RunWork(p, q) \/ RemoveQueueInternal(p, q)
        PROVE  TypeOK'
    BY <2>2, TypeRun
  <2>3. CASE PopQueue \/ BlockQueue
    BY <1>0, <2>3, TypeRun
  <2>4. CASE WorkUnblocks \/ WorkExits \/ WorkIsLost \/ Callback
    BY <2>4, TypeWorkThread
  <2>. QED BY <1>2, <2>1, <2>2, <2>3, <2>4 DEF WorkThread
<1>3. ASSUME NEW w \in Works, Posting(w) PROVE TypeOK'
  BY <1>0, <1>3, TypePosting DEF Posting
<1>4. ASSUME NEW c \in Controllers, Stopping(c) PROVE TypeOK'
  <2>1. {} \in SUBSET Works  OBVIOUS
  <2>. QED BY <1>4, <2>1, TypeStopping DEF Stopping
<1>5. CASE Start
  BY <1>0, <1>5, TypeQueues
<1>6. CASE TimerExits
  <2>1. {} \in SUBSET Works  OBVIOUS
  <2>. QED BY <1>6, <2>1, TypeStopping
<1>7. ASSUME NEW q \in Queues, UnblockQueue(q) PROVE TypeOK'
  BY <1>7, TypeQueues
<1> QED BY <1>1, <1>2, <1>3, <1>4, <1>5, <1>6, <1>7 DEF Next

\* Every step keeps the lists.
LEMMA ListsStep ==
    ASSUME TypeOK, ListsOK, NotStarted, Next
    PROVE  ListsOK'
<1>1. CASE LoudStep
  BY <1>1, ListsWorkThread, ListsPostInserts, ListsPick, ListsCreateQueue, ListsClear
  DEF LoudStep
<1>2. CASE Alive /\ Quiet
  BY <1>2, ListsQuiet
<1> QED BY <1>1, <1>2, StepShape

\* The state never goes back to PRESTART, and only start() begins a thread.
LEMMA NotStartedStep ==
    ASSUME TypeOK, ListsOK, NotStarted, Next
    PROVE  NotStarted'
<1>. SUFFICES ASSUME state' = "PRESTART" PROVE worker' = "off"
  BY DEF NotStarted
<1>1. ASSUME state' = state, worker' = worker PROVE worker' = "off"
  BY <1>1 DEF NotStarted
<1>2. CASE Environment
  BY <1>1, <1>2 DEF Environment, PostWakes, PostBegin, CreateQueue, RemoveQueue,
     ResourceChanges, TimerExpires, StopBegins, StopImmediateBegins, JoinTimesOut, workVars
<1>3. CASE Start
  BY <1>3 DEF Start
<1>4. CASE WorkThread
  <2>1. state' = state /\ worker # "off"
    BY <1>4 DEF WorkThread, WorkUnblocks, WorkExits, WorkIsLost, Callback, PopQueue,
       BlockQueue, RemoveTimedOut, RunWork, RemoveQueueInternal, MayPick, MayRun
  <2>. QED BY <2>1 DEF NotStarted
<1>5. CASE TimerExits
  BY <1>1, <1>5 DEF TimerExits, workVars
<1>6. ASSUME NEW w \in Works, Posting(w) PROVE worker' = "off"
  BY <1>1, <1>6 DEF Posting, PostFails, PostWaits, PostInserts, workVars
<1>7. ASSUME NEW q \in Queues, UnblockQueue(q) PROVE worker' = "off"
  BY <1>1, <1>7 DEF UnblockQueue, workVars
<1>8. ASSUME NEW c \in Controllers, Stopping(c) PROVE worker' = "off"
  <2>1. CASE Joins(c)
    BY <1>1, <2>1 DEF Joins, workVars
  <2>2. CASE Clear(c)
    <3>1. state' \in {state, "STOPPED"} /\ worker' = (IF cur = NoWork THEN worker ELSE "undefined")
          /\ Alive
      BY <2>2 DEF Clear, Lockable
    <3>2. worker = "off"  BY <3>1 DEF NotStarted
    <3>3. cur = NoWork  BY <3>1, <3>2 DEF ListsOK, RunningIsFirst
    <3>. QED BY <3>1, <3>2, <3>3
  <2>. QED BY <1>8, <2>1, <2>2 DEF Stopping
<1> QED BY <1>2, <1>3, <1>4, <1>5, <1>6, <1>7, <1>8 DEF Next

\* IInv is inductive.
LEMMA IInvStep == IInv /\ [Next]_vars => IInv'
<1>. SUFFICES ASSUME IInv, [Next]_vars PROVE IInv'
  OBVIOUS
<1>1. CASE Next
  BY <1>1, TypeStep, ListsStep, NotStartedStep DEF IInv
<1>2. CASE UNCHANGED vars
  <2>1. TypeOK'
    BY <1>2 DEF IInv, TypeOK, vars, queueVars, countVars, iterVars, timeVars, postVars,
                workVars, envVars
  <2>2. ListsOK'
    BY <1>2 DEF IInv, ListsOK, QueuesListed, LevelsListed, WorkPlaced, TimersOfQueued,
                RunningIsFirst, QueuedIn, Level, Alive, IsListOf, vars, queueVars, timeVars,
                postVars, workVars
  <2>3. NotStarted'
    BY <1>2 DEF IInv, NotStarted, vars, workVars
  <2>. QED BY <2>1, <2>2, <2>3 DEF IInv
<1> QED BY <1>1, <1>2

\* Whatever threads do in whatever order, even a second stop, an expiry in a
\* blocked queue or a queue marked twice, each member of the handler keeps its
\* type, and no size_t leaves its range.
THEOREM TypeCorrect == Spec => []TypeOK
<1>1. Init => IInv  BY IInvInit
<1>2. IInv /\ [Next]_vars => IInv'  BY IInvStep
<1>3. IInv => TypeOK  BY DEF IInv
<1> QED BY <1>1, <1>2, <1>3, PTL DEF Spec

\* In every reachable state each work is in exactly the list it names, each queue
\* in the list of its level, what expired is still queued, and the work that runs
\* is the first of a queue that exists and is not blocked: the iterators kept
\* across the unlocked callback are valid.
THEOREM ListsCorrect == Spec => []ListsOK
<1>1. Init => IInv  BY IInvInit
<1>2. IInv /\ [Next]_vars => IInv'  BY IInvStep
<1>3. IInv => ListsOK  BY DEF IInv
<1> QED BY <1>1, <1>2, <1>3, PTL DEF Spec

--------------------------------------------------------------------------------
(* The counters, when callers keep the discipline below.  The code enforces    *)
(* none of it.                                                                 *)


\* Work with a deadline is never posted where callbacks may block, and no queue is
\* removed twice.
Discipline ==
    /\ \A w \in Timed : Targets[w] \cap MayBlock = {}
    /\ MarkBound = 0

--------------------------------------------------------------------------------
(* Adding to a size_t that counts a set, and subtracting from it.            *)

\* A counter of works, or of queues, goes up with its set.
LEMMA CountUp ==
    ASSUME NEW U \in {Works, Queues}, NEW S \in SUBSET U, NEW T \in SUBSET U, S \cap T = {}
    PROVE  /\ Plus(Cardinality(S), Cardinality(T)) = Cardinality(S \cup T)
           /\ Cardinality(S) + Cardinality(T) = Cardinality(S \cup T)
<1>1. IsFiniteSet(U) /\ Cardinality(U) \in Nat /\ Cardinality(U) < SizeMod /\ SizeMod \in Nat
  BY QueuesAssumption, SizeAssumption, FS_CardinalityType
<1>2. IsFiniteSet(S) /\ IsFiniteSet(T)  BY <1>1, FS_Subset
<1>3. Cardinality(S) \in Nat /\ Cardinality(T) \in Nat  BY <1>2, FS_CardinalityType
<1>4. Cardinality(S \cup T) = Cardinality(S) + Cardinality(T)
  <2>1. S \cap T = {} /\ Cardinality({}) = 0  BY FS_EmptySet
  <2>2. Cardinality(S \cup T) = Cardinality(S) + Cardinality(T) - Cardinality(S \cap T)
    BY <1>2, FS_Union
  <2>. QED BY <1>3, <2>1, <2>2
<1>5. Cardinality(S \cup T) <= Cardinality(U)
  <2>1. S \cup T \in SUBSET U  OBVIOUS
  <2>. QED BY <1>1, <2>1, FS_Subset
<1> QED BY <1>1, <1>3, <1>4, <1>5 DEF Plus

\* And it goes down with its set.
LEMMA CountDown ==
    ASSUME NEW U \in {Works, Queues}, NEW S \in SUBSET U, NEW T \in SUBSET S
    PROVE  /\ Minus(Cardinality(S), Cardinality(T)) = Cardinality(S \ T)
           /\ Cardinality(S) - Cardinality(T) = Cardinality(S \ T)
<1>1. (S \ T) \cup T = S /\ (S \ T) \cap T = {} /\ S \ T \in SUBSET U /\ T \in SUBSET U
  OBVIOUS
<1>2. Cardinality(S \ T) + Cardinality(T) = Cardinality(S)  BY <1>1, CountUp
<1>3. IsFiniteSet(U)  BY QueuesAssumption
<1>4. IsFiniteSet(S \ T) /\ IsFiniteSet(T)  BY <1>1, <1>3, FS_Subset
<1>5. Cardinality(S \ T) \in Nat /\ Cardinality(T) \in Nat  BY <1>4, FS_CardinalityType
<1> QED BY <1>2, <1>5 DEF Minus

\* The same by one.
LEMMA CountOne ==
    ASSUME NEW U \in {Works, Queues}, NEW S \in SUBSET U, NEW x \in U
    PROVE  /\ x \notin S => /\ Plus(Cardinality(S), 1) = Cardinality(S \cup {x})
                            /\ Cardinality(S) + 1 = Cardinality(S \cup {x})
           /\ x \in S => /\ Minus(Cardinality(S), 1) = Cardinality(S \ {x})
                         /\ Cardinality(S) - 1 = Cardinality(S \ {x})
<1>1. Cardinality({x}) = 1  BY FS_Singleton
<1>2. {x} \in SUBSET U  OBVIOUS
<1>3. CASE x \notin S
  <2>1. S \cap {x} = {}  BY <1>3
  <2>. QED BY <1>1, <1>2, <1>3, <2>1, CountUp
<1>4. CASE x \in S
  <2>1. {x} \in SUBSET S  BY <1>4
  <2>. QED BY <1>1, <1>4, <2>1, CountDown
<1> QED BY <1>3, <1>4

--------------------------------------------------------------------------------
(* The discipline, as an invariant: only queues whose callbacks may block are *)
(* blocked, so nothing expires in a blocked queue.                           *)

Disciplined ==
    /\ Discipline /\ blocked \subseteq MayBlock /\ timedOutQueue \subseteq Timed
    /\ Alive /\ worker = "failed" => at[cur] \in MayBlock
    /\ \A w \in Works : post[w] # "idle" => at[w] \in Targets[w]

\* Callers that keep the discipline start in it.
LEMMA DisciplinedInit == Discipline /\ Init => Disciplined
  BY DEF Init, Disciplined

\* A queue is blocked after a callback on it failed, for want of a resource.
LEMMA BlockedStep ==
    ASSUME IInv, Disciplined, Next
    PROVE  blocked' \subseteq MayBlock
<1>1. CASE BlockQueue
  BY <1>1 DEF BlockQueue, Lockable, Disciplined
<1>2. CASE blocked' \subseteq blocked
  BY <1>2 DEF Disciplined
<1>3. CASE LoudStep
  BY <1>1, <1>2, <1>3 DEF LoudStep, PopQueue, PostInserts, RemoveTimedOut, RunWork,
     RemoveQueueInternal, CreateQueue, Clear, queueVars
<1> QED BY <1>2, <1>3, StepShape DEF IInv, Quiet, RunKept

\* Only the timeout thread adds to timedOutQueue.
LEMMA TimedStep ==
    ASSUME Disciplined, Next
    PROVE  timedOutQueue' \subseteq Timed
<1>1. CASE timedOutQueue' \subseteq timedOutQueue
  BY <1>1 DEF Disciplined
<1>2. ASSUME NEW E \in SUBSET Works, TimerExpires(E) PROVE timedOutQueue' \subseteq Timed
  BY <1>2 DEF TimerExpires, Disciplined
<1>3. CASE Environment
  BY <1>1, <1>2, <1>3 DEF Environment, PostWakes, PostBegin, CreateQueue, RemoveQueue,
     ResourceChanges, StopBegins, StopImmediateBegins, JoinTimesOut, timeVars
<1>4. CASE WorkThread
  BY <1>1, <1>4 DEF WorkThread, WorkUnblocks, WorkExits, WorkIsLost, Callback, PopQueue,
     BlockQueue, RemoveTimedOut, RunWork, RemoveQueueInternal, timeVars
<1>5. CASE Start \/ TimerExits \/ \E q \in Queues : UnblockQueue(q)
  BY <1>1, <1>5 DEF Start, TimerExits, UnblockQueue, timeVars
<1>6. CASE \/ \E w \in Works : Posting(w)
           \/ \E c \in Controllers : Stopping(c)
  BY <1>1, <1>6 DEF Posting, PostFails, PostWaits, PostInserts, Stopping, Joins, Clear, timeVars
<1> QED BY <1>3, <1>4, <1>5, <1>6 DEF Next

\* A callback fails only on a queue that may block, which stays the queue of the
\* work being run.
LEMMA FailedStep ==
    ASSUME IInv, Disciplined, Next, Alive', worker' = "failed"
    PROVE  at'[cur'] \in MayBlock
<1>1. CASE Callback
  BY <1>1 DEF Callback, postVars
<1>2. CASE worker = "failed" /\ Alive /\ UNCHANGED <<cur, at>>
  BY <1>2 DEF Disciplined
<1>3. CASE LoudStep
  <2>1. CASE \E w \in Works : PostInserts(w)
    BY <1>2, <2>1 DEF PostInserts, workVars, Lockable
  <2>2. CASE \E c \in Controllers : Clear(c)
    <3>1. Alive /\ worker = "failed" /\ cur = NoWork
      BY <2>2 DEF Clear, Lockable
    <3>. QED BY <3>1 DEF IInv, ListsOK, RunningIsFirst
  <2>3. CASE \E q \in Queues : CreateQueue(q)
    BY <1>2, <2>3 DEF CreateQueue, workVars, postVars, Lockable
  <2>. QED BY <1>3, <2>1, <2>2, <2>3
           DEF LoudStep, PopQueue, BlockQueue, RemoveTimedOut, RunWork, RemoveQueueInternal,
               MayPick, MayRun, Lockable, workVars
<1>4. CASE Quiet /\ Alive /\ ~Callback
  <2>1. worker = "failed"
    <3>1. CASE Environment
      BY <1>4, <3>1 DEF Environment, PostWakes, PostBegin, CreateQueue, RemoveQueue, workVars,
         ResourceChanges, TimerExpires, StopBegins, StopImmediateBegins, JoinTimesOut
    <3>2. CASE WorkThread
      <4>1. worker \in Running /\ worker' = "failed" /\ ~Callback
        BY <1>4 DEF Quiet, RunKept, Running
      <4>2. CASE WorkUnblocks \/ WorkExits \/ WorkIsLost
        BY <4>1, <4>2 DEF WorkUnblocks, WorkExits, WorkIsLost, MayPick, MayRun, Running
      <4>3. CASE PopQueue \/ BlockQueue  BY <4>1, <4>3 DEF PopQueue, BlockQueue
      <4>4. ASSUME NEW w \in Works, RemoveTimedOut(w) PROVE FALSE
        BY <4>1, <4>4 DEF RemoveTimedOut, MayRun, Running
      <4>5. ASSUME NEW p \in Priorities, NEW q \in Queues,
                   RunWork(p, q) \/ RemoveQueueInternal(p, q)
            PROVE  FALSE
        BY <4>1, <4>5 DEF RunWork, RemoveQueueInternal, MayPick, MayRun, Running
      <4>. QED BY <3>2, <4>1, <4>2, <4>3, <4>4, <4>5 DEF WorkThread
    <3>3. CASE Start \/ TimerExits \/ \E q \in Queues : UnblockQueue(q)
      BY <1>4, <3>3 DEF Start, TimerExits, UnblockQueue, workVars
    <3>4. ASSUME NEW c \in Controllers, Clear(c) PROVE worker = "failed"
      BY <3>4 DEF Clear
    <3>5. CASE \/ \E w \in Works : Posting(w)
               \/ \E c \in Controllers : Stopping(c)
      BY <1>4, <3>4, <3>5 DEF Posting, PostFails, PostWaits, PostInserts, Stopping, Joins, workVars
    <3>. QED BY <3>1, <3>2, <3>3, <3>5 DEF Next
  <2>2. cur \in Works /\ post[cur] = "queued"
    BY <1>4, <2>1, RunningWork DEF IInv
  <2>3. cur' = cur /\ at'[cur] = at[cur]
    BY <1>4, <2>2 DEF Quiet, RunKept, WorkKept
  <2>. QED BY <1>4, <2>1, <2>3 DEF Disciplined
<1> QED BY <1>1, <1>3, <1>4, StepShape DEF IInv

\* A work is where its caller posts it for as long as it is posted.
LEMMA TargetsStep ==
    ASSUME IInv, Disciplined, Next, NEW w \in Works, post'[w] # "idle"
    PROVE  at'[w] \in Targets[w]
<1>1. CASE post[w] # "idle" /\ at'[w] = at[w]
  BY <1>1 DEF Disciplined
<1>2. ASSUME NEW v \in Works, NEW q \in Queues, PostBegin(v, q) PROVE at'[w] \in Targets[w]
  BY <1>1, <1>2 DEF PostBegin, IInv, TypeOK
<1>3. ASSUME NEW v \in Works, Posting(v) \/ PostWakes(v) PROVE at'[w] \in Targets[w]
  BY <1>1, <1>3 DEF Posting, PostFails, PostWaits, PostInserts, PostWakes, IInv, TypeOK
<1>4. ASSUME NEW v, TakenOut(v) PROVE at'[w] \in Targets[w]
  BY <1>1, <1>4 DEF TakenOut, NotifyAll, IInv, TypeOK
<1>5. ASSUME NEW c, Clear(c) PROVE at'[w] \in Targets[w]
  BY <1>1, <1>5 DEF Clear, IInv, TypeOK
<1>6. CASE UNCHANGED postVars
  BY <1>1, <1>6 DEF postVars
<1>7. CASE Environment
  BY <1>2, <1>3, <1>6, <1>7 DEF Environment, CreateQueue, RemoveQueue,
     ResourceChanges, TimerExpires, StopBegins, StopImmediateBegins, JoinTimesOut
<1>8. CASE WorkThread
  BY <1>4, <1>6, <1>8 DEF WorkThread, WorkUnblocks, WorkExits, WorkIsLost, Callback, PopQueue,
     BlockQueue, RemoveTimedOut, RunWork, RemoveQueueInternal
<1>9. CASE Start \/ TimerExits \/ \E q \in Queues : UnblockQueue(q)
  BY <1>6, <1>9 DEF Start, TimerExits, UnblockQueue
<1>10. CASE \E c \in Controllers : Stopping(c)
  BY <1>5, <1>6, <1>10 DEF Stopping, Joins
<1> QED BY <1>3, <1>7, <1>8, <1>9, <1>10 DEF Next

LEMMA DisciplinedStep ==
    ASSUME IInv, Disciplined, Next
    PROVE  Disciplined'
<1>1. Discipline'  BY DEF Disciplined, Discipline
<1> QED BY <1>1, BlockedStep, TimedStep, FailedStep, TargetsStep DEF Disciplined

\* What is taken out of a queue is taken out of one that is not blocked.
LEMMA TakenFromUnblocked ==
    ASSUME IInv, Disciplined, NEW w,
           RemoveTimedOut(w) \/ (PopQueue /\ w = cur)
    PROVE  w \in Works /\ TakenOut(w) /\ post[w] = "queued" /\ at[w] \in Queues \ blocked
<1>1. CASE RemoveTimedOut(w)
  <2>1. w \in timedOutQueue /\ TakenOut(w)  BY <1>1 DEF RemoveTimedOut
  <2>2. w \in Works /\ post[w] = "queued" /\ w \in Timed
    BY <2>1 DEF IInv, ListsOK, TimersOfQueued, QueuedIn, Disciplined
  <2>3. at[w] \in Queues  BY <2>2, QueuedWork DEF IInv
  <2>4. at[w] \notin MayBlock  BY <2>2 DEF Disciplined, Discipline
  <2>. QED BY <2>1, <2>2, <2>3, <2>4 DEF Disciplined
<1>2. CASE PopQueue /\ w = cur
  BY <1>2, RunningWork DEF PopQueue, Lockable, IInv
<1> QED BY <1>1, <1>2

--------------------------------------------------------------------------------
(* The two counters.  Most steps keep what they count and the counters; the   *)
(* eight counting steps change both.                                         *)

CountsKept == /\ UNCHANGED <<blocked, marked, countVars>>
              /\ \A w \in Works : (post'[w] = "queued" \/ post[w] = "queued")
                                      => post'[w] = post[w] /\ at'[w] = at[w]
CountingStep ==
    \/ PopQueue \/ BlockQueue \/ WorkUnblocks
    \/ \E w \in Works : PostInserts(w) \/ RemoveTimedOut(w)
    \/ \E p \in Priorities, q \in Queues : RemoveQueueInternal(p, q)
    \/ \E q \in Queues : RemoveQueue(q)
    \/ \E c \in Controllers : Clear(c)

LEMMA CountsShape ==
    ASSUME IInv, Next
    PROVE  CountingStep \/ CountsKept
<1>1. CASE UNCHANGED <<blocked, marked, countVars, postVars>>
  BY <1>1 DEF CountsKept, postVars
<1>2. ASSUME NEW w \in Works, NEW q \in Queues, PostBegin(w, q) PROVE CountsKept
  BY <1>2 DEF PostBegin, CountsKept, queueVars, IInv, TypeOK
<1>3. ASSUME NEW w \in Works, Posting(w) \/ PostWakes(w)
      PROVE  PostInserts(w) \/ CountsKept
  BY <1>3 DEF Posting, PostFails, PostWaits, PostWakes, CountsKept, queueVars, IInv, TypeOK
<1>4. CASE Environment
  BY <1>1, <1>2, <1>3, <1>4 DEF Environment, CountingStep, CreateQueue, queueVars,
     ResourceChanges, TimerExpires, StopBegins, StopImmediateBegins, JoinTimesOut
<1>5. CASE WorkThread
  BY <1>1, <1>5 DEF WorkThread, CountingStep, WorkExits, WorkIsLost, Callback, RunWork, queueVars
<1>6. CASE Start \/ TimerExits \/ \E q \in Queues : UnblockQueue(q)
  BY <1>1, <1>6 DEF Start, TimerExits, UnblockQueue, queueVars
<1>7. CASE \E c \in Controllers : Stopping(c)
  BY <1>1, <1>7 DEF Stopping, Joins, CountingStep, queueVars
<1> QED BY <1>3, <1>4, <1>5, <1>6, <1>7 DEF Next, CountingStep

\* the work that counts, of the queues of Q
Ready(Q) == QueuedIn(Q \ blocked)

\* Both parts of UnblockedExact say the same of a set of queues.
LEMMA ReadyType ==
    ASSUME NEW Q
    PROVE  Ready(Q) \in SUBSET Works /\ Works \in {Works, Queues} /\ Queues \in {Works, Queues}
  BY DEF Ready, QueuedIn

LEMMA UnblockedIsReady ==
    UnblockedExact <=> /\ unblocked_work = Cardinality(Ready(Queues))
                       /\ \A p \in Priorities :
                             unblocked_work_count[p] = Cardinality(Ready(Level(p)))
  BY DEF UnblockedExact, Ready

\* A posted work counts, in its level, if its queue is not blocked.
LEMMA UnblockedInserts ==
    ASSUME IInv, UnblockedExact, NEW w \in Works, PostInserts(w)
    PROVE  UnblockedExact'
<1>1. /\ post[w] = "entering" /\ post' = [post EXCEPT ![w] = "queued"] /\ at' = at
      /\ blocked' = blocked /\ at[w] \in Queues
      /\ at[w] \notin blocked =>
            /\ unblocked_work_count' =
                  [unblocked_work_count EXCEPT ![Priority[at[w]]] = Plus(@, 1)]
            /\ unblocked_work' = Plus(unblocked_work, 1)
      /\ at[w] \in blocked => UNCHANGED <<unblocked_work_count, unblocked_work>>
  BY DEF PostInserts, Counts, IInv, TypeOK
<1>2. ASSUME NEW Q \in SUBSET Queues
      PROVE  /\ w \notin Ready(Q)
             /\ Ready(Q)' = IF at[w] \in Q \ blocked THEN Ready(Q) \cup {w} ELSE Ready(Q)
  BY <1>1 DEF Ready, QueuedIn, IInv, TypeOK
<1>3. ASSUME NEW Q \in SUBSET Queues, at[w] \in Q \ blocked
      PROVE  Cardinality(Ready(Q)') = Plus(Cardinality(Ready(Q)), 1)
  BY <1>2, <1>3, ReadyType, CountOne
<1>4. ASSUME NEW Q \in SUBSET Queues, at[w] \notin Q \ blocked
      PROVE  Cardinality(Ready(Q)') = Cardinality(Ready(Q))
  BY <1>2, <1>4
<1>5. unblocked_work' = Cardinality(Ready(Queues)')
  <2>1. Queues \in SUBSET Queues  OBVIOUS
  <2>. QED BY <1>1, <1>3, <1>4, <2>1, UnblockedIsReady
<1>6. ASSUME NEW p \in Priorities
      PROVE  unblocked_work_count'[p] = Cardinality(Ready(Level(p))')
  <2>1. Level(p) \in SUBSET Queues /\ (at[w] \in Level(p) <=> p = Priority[at[w]])
    BY <1>1 DEF Level
  <2>2. unblocked_work_count[p] = Cardinality(Ready(Level(p)))  BY UnblockedIsReady
  <2>3. unblocked_work_count \in [Priorities -> 0 .. SizeMod - 1]  BY DEF IInv, TypeOK
  <2>4. CASE at[w] \in Level(p) \ blocked
    BY <1>1, <1>3, <2>1, <2>2, <2>3, <2>4
  <2>5. CASE at[w] \notin Level(p) \ blocked
    BY <1>1, <1>4, <2>1, <2>2, <2>3, <2>5
  <2>. QED BY <2>4, <2>5
<1> QED BY <1>5, <1>6 DEF UnblockedExact, Ready, Level

\* What goes out of a queue counted, since the queue is not blocked.
LEMMA UnblockedTakenOut ==
    ASSUME IInv, UnblockedExact, NEW w \in Works, TakenOut(w), blocked' = blocked,
           post[w] = "queued", at[w] \in Queues \ blocked
    PROVE  UnblockedExact'
<1>1. /\ unblocked_work_count' =
            [unblocked_work_count EXCEPT ![Priority[at[w]]] = Minus(@, 1)]
      /\ unblocked_work' = Minus(unblocked_work, 1)
  BY DEF TakenOut
<1>2. ASSUME NEW Q \in SUBSET Queues
      PROVE  /\ w \in Ready(Q) <=> at[w] \in Q
             /\ Ready(Q)' = Ready(Q) \ {w}
  BY DEF Ready, QueuedIn, TakenOut, NotifyAll, IInv, TypeOK
<1>3. ASSUME NEW Q \in SUBSET Queues, at[w] \in Q
      PROVE  Cardinality(Ready(Q)') = Minus(Cardinality(Ready(Q)), 1)
  BY <1>2, <1>3, ReadyType, CountOne
<1>4. ASSUME NEW Q \in SUBSET Queues, at[w] \notin Q
      PROVE  Cardinality(Ready(Q)') = Cardinality(Ready(Q))
  <2>1. Ready(Q)' = Ready(Q)  BY <1>2, <1>4
  <2>. QED BY <2>1
<1>5. unblocked_work' = Cardinality(Ready(Queues)')
  <2>1. Queues \in SUBSET Queues  OBVIOUS
  <2>. QED BY <1>1, <1>3, <2>1, UnblockedIsReady
<1>6. ASSUME NEW p \in Priorities
      PROVE  unblocked_work_count'[p] = Cardinality(Ready(Level(p))')
  <2>1. Level(p) \in SUBSET Queues /\ (at[w] \in Level(p) <=> p = Priority[at[w]])
    BY DEF Level
  <2>2. unblocked_work_count[p] = Cardinality(Ready(Level(p)))  BY UnblockedIsReady
  <2>3. unblocked_work_count \in [Priorities -> 0 .. SizeMod - 1]  BY DEF IInv, TypeOK
  <2>4. CASE at[w] \in Level(p)
    BY <1>1, <1>3, <2>1, <2>2, <2>3, <2>4
  <2>5. CASE at[w] \notin Level(p)
    BY <1>1, <1>4, <2>1, <2>2, <2>3, <2>5
  <2>. QED BY <2>4, <2>5
<1> QED BY <1>5, <1>6 DEF UnblockedExact, Ready, Level

\* A blocked queue takes all its work out of the counters.
LEMMA UnblockedBlocks ==
    ASSUME IInv, UnblockedExact, BlockQueue
    PROVE  UnblockedExact'
<1> DEFINE q == at[cur]
<1>1. q \in Queues /\ q \in queue_map \ blocked
  BY RunningWork DEF IInv, BlockQueue, Lockable
<1>2. /\ blocked' = blocked \cup {q} /\ UNCHANGED <<post, at>>
      /\ unblocked_work_count' =
            [unblocked_work_count EXCEPT ![Priority[q]] = Minus(@, Len(queue[q]))]
      /\ unblocked_work' = Minus(unblocked_work, Len(queue[q]))
  BY DEF BlockQueue, postVars
<1>3. Len(queue[q]) = Cardinality(QueuedIn({q}))
  <2>1. queue[q] \in Seq(Works) /\ IsListOf(queue[q], QueuedIn({q}))
    BY <1>1 DEF IInv, TypeOK, ListsOK, QueuesListed
  <2>. QED BY <2>1, ListLength
<1> HIDE DEF q
<1>4. ASSUME NEW Q \in SUBSET Queues
      PROVE  /\ Ready(Q)' = Ready(Q) \ QueuedIn({q} \cap Q)
             /\ QueuedIn({q} \cap Q) \in SUBSET Ready(Q)
  BY <1>1, <1>2 DEF Ready, QueuedIn
<1>5. ASSUME NEW Q \in SUBSET Queues, q \in Q
      PROVE  Cardinality(Ready(Q)') = Minus(Cardinality(Ready(Q)), Len(queue[q]))
  <2>1. {q} \cap Q = {q}  BY <1>5
  <2>. QED BY <1>3, <1>4, <2>1, ReadyType, CountDown
<1>6. ASSUME NEW Q \in SUBSET Queues, q \notin Q
      PROVE  Cardinality(Ready(Q)') = Cardinality(Ready(Q))
  <2>1. QueuedIn({q} \cap Q) = {}  BY <1>6 DEF QueuedIn
  <2>2. Ready(Q)' = Ready(Q)  BY <1>4, <2>1
  <2>. QED BY <2>2
<1>7. unblocked_work' = Cardinality(Ready(Queues)')
  <2>1. Queues \in SUBSET Queues  OBVIOUS
  <2>. QED BY <1>1, <1>2, <1>5, <2>1, UnblockedIsReady
<1>8. ASSUME NEW p \in Priorities
      PROVE  unblocked_work_count'[p] = Cardinality(Ready(Level(p))')
  <2>1. Level(p) \in SUBSET Queues /\ (q \in Level(p) <=> p = Priority[q])
    BY <1>1 DEF Level
  <2>2. unblocked_work_count[p] = Cardinality(Ready(Level(p)))  BY UnblockedIsReady
  <2>3. unblocked_work_count \in [Priorities -> 0 .. SizeMod - 1]  BY DEF IInv, TypeOK
  <2>4. CASE q \in Level(p)
    BY <1>2, <1>5, <2>1, <2>2, <2>3, <2>4
  <2>5. CASE q \notin Level(p)
    BY <1>2, <1>6, <2>1, <2>2, <2>3, <2>5
  <2>. QED BY <2>4, <2>5
<1> QED BY <1>7, <1>8 DEF UnblockedExact, Ready, Level

\* An unblocked queue brings all its work back, whatever was posted meanwhile.
LEMMA UnblockedUnblocks ==
    ASSUME IInv, UnblockedExact, WorkUnblocks
    PROVE  UnblockedExact'
<1> DEFINE freed == unblock_list \cap blocked \cap queue_map
<1>1. /\ freed \subseteq Queues /\ freed \subseteq blocked
      /\ blocked' = blocked \ freed /\ UNCHANGED <<post, at>>
      /\ unblocked_work' = Plus(unblocked_work, Cardinality(QueuedIn(freed)))
      /\ unblocked_work_count' = [p \in Priorities |->
            Plus(unblocked_work_count[p], Cardinality(QueuedIn(freed \cap Level(p))))]
  BY DEF WorkUnblocks, IInv, TypeOK, postVars
<1> HIDE DEF freed
<1>2. ASSUME NEW Q \in SUBSET Queues
      PROVE  /\ Ready(Q)' = Ready(Q) \cup QueuedIn(freed \cap Q)
             /\ Ready(Q) \cap QueuedIn(freed \cap Q) = {}
  BY <1>1 DEF Ready, QueuedIn
<1>3. ASSUME NEW Q \in SUBSET Queues
      PROVE  Cardinality(Ready(Q)') =
                Plus(Cardinality(Ready(Q)), Cardinality(QueuedIn(freed \cap Q)))
  <2>1. QueuedIn(freed \cap Q) \in SUBSET Works  BY DEF QueuedIn
  <2>. QED BY <1>2, <2>1, ReadyType, CountUp
<1>4. unblocked_work' = Cardinality(Ready(Queues)')
  <2>1. Queues \in SUBSET Queues /\ freed \cap Queues = freed  BY <1>1
  <2>2. Cardinality(Ready(Queues)') =
           Plus(Cardinality(Ready(Queues)), Cardinality(QueuedIn(freed)))
    BY <1>3, <2>1
  <2>. QED BY <1>1, <2>2, UnblockedIsReady
<1>5. ASSUME NEW p \in Priorities
      PROVE  unblocked_work_count'[p] = Cardinality(Ready(Level(p))')
  <2>1. Level(p) \in SUBSET Queues  BY DEF Level
  <2>. QED BY <1>1, <1>3, <2>1, UnblockedIsReady
<1> QED BY <1>4, <1>5 DEF UnblockedExact, Ready, Level

\* The counter of a level that is erased with its last queue was 0.
LEMMA UnblockedRemoves ==
    ASSUME IInv, UnblockedExact, NEW p \in Priorities, NEW q \in Queues,
           RemoveQueueInternal(p, q)
    PROVE  UnblockedExact'
<1> DEFINE left == RemoveFirst(work_queues[p], q)
<1>1. /\ q \in queue_map /\ q \in Level(p) /\ queue[q] = << >>
      /\ UNCHANGED <<blocked, post, at, unblocked_work>>
      /\ IF left = << >>
         THEN unblocked_work_count' = [unblocked_work_count EXCEPT ![p] = 0]
         ELSE UNCHANGED unblocked_work_count
  BY DEF RemoveQueueInternal, IsNext, Eligible, postVars
<1>2. left = << >> => Ready(Level(p)) = {}
  <2>1. IsListOf(work_queues[p], queue_map \cap Level(p)) /\ work_queues[p] \in Seq(Queues)
    BY DEF IInv, TypeOK, ListsOK, LevelsListed
  <2>2. q \in queue_map \cap Level(p)  BY <1>1
  <2>3. IsListOf(left, (queue_map \cap Level(p)) \ {q}) /\ left \in Seq(Queues)
    BY <2>1, <2>2, ListRemove
  <2>4. left = << >> => (queue_map \cap Level(p)) \ {q} = {}  BY <2>3, ListEmpty
  <2>5. QueuedIn({q}) = {}
    <3>1. IsListOf(queue[q], QueuedIn({q})) /\ queue[q] \in Seq(Works)
      BY DEF IInv, TypeOK, ListsOK, QueuesListed
    <3>. QED BY <1>1, <3>1, ListEmpty
  <2>6. \A w \in Works : post[w] = "queued" => at[w] \in queue_map
    BY DEF IInv, ListsOK, WorkPlaced
  <2>. QED BY <2>4, <2>5, <2>6 DEF Ready, QueuedIn
<1> HIDE DEF left
<1>3. \A Q \in SUBSET Queues : Ready(Q)' = Ready(Q)
  BY <1>1 DEF Ready, QueuedIn
<1>4. unblocked_work' = Cardinality(Ready(Queues)')
  <2>1. Ready(Queues)' = Ready(Queues)  BY <1>3
  <2>. QED BY <1>1, <2>1, UnblockedIsReady
<1>5. ASSUME NEW r \in Priorities
      PROVE  unblocked_work_count'[r] = Cardinality(Ready(Level(r))')
  <2>1. Level(r) \in SUBSET Queues  BY DEF Level
  <2>2. Ready(Level(r))' = Ready(Level(r))  BY <1>3, <2>1
  <2>3. unblocked_work_count \in [Priorities -> 0 .. SizeMod - 1]  BY DEF IInv, TypeOK
  <2>4. CASE left = << >> /\ r = p
    BY <1>1, <1>2, <2>2, <2>3, <2>4, FS_EmptySet
  <2>5. CASE ~(left = << >> /\ r = p)
    <3>1. unblocked_work_count'[r] = unblocked_work_count[r]  BY <1>1, <2>3, <2>5
    <3>. QED BY <2>2, <3>1, UnblockedIsReady
  <2>. QED BY <2>4, <2>5
<1> QED BY <1>4, <1>5 DEF UnblockedExact, Ready, Level

\* Every step keeps the unblocked counters.
LEMMA UnblockedStep ==
    ASSUME IInv, Disciplined, UnblockedExact, Next
    PROVE  UnblockedExact'
<1>1. CASE CountsKept
  <2>. QED BY <1>1 DEF CountsKept, countVars, UnblockedExact, QueuedIn, Level
<1>2. ASSUME NEW w \in Works, RemoveTimedOut(w) PROVE UnblockedExact'
  <2>1. blocked' = blocked  BY <1>2 DEF RemoveTimedOut
  <2>. QED BY <1>2, <2>1, TakenFromUnblocked, UnblockedTakenOut
<1>3. CASE PopQueue
  <2>1. blocked' = blocked  BY <1>3 DEF PopQueue
  <2>. QED BY <1>3, <2>1, TakenFromUnblocked, UnblockedTakenOut
<1>4. ASSUME NEW q \in Queues, RemoveQueue(q) PROVE UnblockedExact'
  BY <1>4 DEF RemoveQueue, UnblockedExact, QueuedIn, Level, postVars
<1>5. ASSUME NEW c \in Controllers, Clear(c) PROVE UnblockedExact'
  <2>1. /\ QueuedIn(Queues \ blocked)' = {}
        /\ \A p \in Priorities : QueuedIn(Level(p) \ blocked)' = {}
    BY <1>5 DEF Clear, QueuedIn, IInv, TypeOK
  <2>2. unblocked_work' = 0 /\ \A p \in Priorities : unblocked_work_count'[p] = 0
    BY <1>5 DEF Clear
  <2>. QED BY <2>1, <2>2, FS_EmptySet DEF UnblockedExact
<1> QED BY <1>1, <1>2, <1>3, <1>4, <1>5, CountsShape, UnblockedInserts, UnblockedBlocks,
        UnblockedUnblocks, UnblockedRemoves DEF CountingStep

\* the queues that count as marked, among those of Q
Removing(Q) == (marked \ blocked) \cap Q

LEMMA MarkedIsRemoving ==
    ASSUME IInv
    PROVE  /\ MarkedExact <=> /\ total_marked = Cardinality(Removing(Queues))
                              /\ \A p \in Priorities :
                                    marked_count[p] = Cardinality(Removing(Level(p)))
           /\ \A Q : Removing(Q) \in SUBSET Queues
<1>1. marked \subseteq Queues  BY DEF IInv, TypeOK
<1>2. Removing(Queues) = marked \ blocked  BY <1>1 DEF Removing
<1> QED BY <1>1, <1>2 DEF MarkedExact, Removing

\* The counters hold after a step that adds a queue to what they count, takes one
\* out, or changes nothing.
LEMMA MarkedKept ==
    ASSUME IInv, IInv', MarkedExact, marked' \ blocked' = marked \ blocked,
           UNCHANGED <<total_marked, marked_count>>
    PROVE  MarkedExact'
  BY DEF MarkedExact, Level

LEMMA MarkedUp ==
    ASSUME IInv, IInv', MarkedExact, NEW q \in Queues, q \notin marked \ blocked,
           marked' \ blocked' = (marked \ blocked) \cup {q},
           total_marked' = total_marked + 1,
           marked_count' = [marked_count EXCEPT ![Priority[q]] = Plus(@, 1)]
    PROVE  MarkedExact'
<1>1. ASSUME NEW Q \in SUBSET Queues, q \in Q
      PROVE  /\ Cardinality(Removing(Q)') = Plus(Cardinality(Removing(Q)), 1)
             /\ Cardinality(Removing(Q)') = Cardinality(Removing(Q)) + 1
  <2>1. Removing(Q)' = Removing(Q) \cup {q} /\ q \notin Removing(Q)  BY <1>1 DEF Removing
  <2>. QED BY <2>1, MarkedIsRemoving, CountOne
<1>2. ASSUME NEW Q \in SUBSET Queues, q \notin Q
      PROVE  Cardinality(Removing(Q)') = Cardinality(Removing(Q))
  <2>1. Removing(Q)' = Removing(Q)  BY <1>2 DEF Removing
  <2>. QED BY <2>1
<1>3. total_marked' = Cardinality(Removing(Queues)')
  <2>1. Queues \in SUBSET Queues  OBVIOUS
  <2>. QED BY <1>1, <2>1, MarkedIsRemoving
<1>4. ASSUME NEW p \in Priorities
      PROVE  marked_count'[p] = Cardinality(Removing(Level(p))')
  <2>1. Level(p) \in SUBSET Queues /\ (q \in Level(p) <=> p = Priority[q])  BY DEF Level
  <2>2. marked_count[p] = Cardinality(Removing(Level(p)))  BY MarkedIsRemoving
  <2>3. marked_count \in [Priorities -> 0 .. SizeMod - 1]  BY DEF IInv, TypeOK
  <2>4. CASE q \in Level(p)
    BY <1>1, <2>1, <2>2, <2>3, <2>4
  <2>5. CASE q \notin Level(p)
    BY <1>2, <2>1, <2>2, <2>3, <2>5
  <2>. QED BY <2>4, <2>5
<1>5. Removing(Queues)' = marked' \ blocked'
  BY DEF Removing, IInv, TypeOK
<1> QED BY <1>3, <1>4, <1>5 DEF MarkedExact, Removing, Level

LEMMA MarkedDown ==
    ASSUME IInv, IInv', MarkedExact, NEW q \in Queues, q \in marked \ blocked,
           marked' \ blocked' = (marked \ blocked) \ {q},
           total_marked' = total_marked - 1,
           \/ marked_count' = [marked_count EXCEPT ![Priority[q]] = Minus(@, 1)]
           \/ /\ marked_count' = [marked_count EXCEPT ![Priority[q]] = 0]
              /\ Removing(Level(Priority[q])) \subseteq {q}
    PROVE  MarkedExact'
<1>1. ASSUME NEW Q \in SUBSET Queues, q \in Q
      PROVE  /\ Cardinality(Removing(Q)') = Minus(Cardinality(Removing(Q)), 1)
             /\ Cardinality(Removing(Q)') = Cardinality(Removing(Q)) - 1
             /\ Removing(Q) \subseteq {q} => Cardinality(Removing(Q)') = 0
  <2>1. Removing(Q)' = Removing(Q) \ {q} /\ q \in Removing(Q)  BY <1>1 DEF Removing
  <2>2. Removing(Q) \subseteq {q} => Removing(Q)' = {}  BY <2>1
  <2>. QED BY <2>1, <2>2, MarkedIsRemoving, CountOne, FS_EmptySet
<1>2. ASSUME NEW Q \in SUBSET Queues, q \notin Q
      PROVE  Cardinality(Removing(Q)') = Cardinality(Removing(Q))
  <2>1. Removing(Q)' = Removing(Q)  BY <1>2 DEF Removing
  <2>. QED BY <2>1
<1>3. total_marked' = Cardinality(Removing(Queues)')
  <2>1. Queues \in SUBSET Queues  OBVIOUS
  <2>. QED BY <1>1, <2>1, MarkedIsRemoving
<1>4. ASSUME NEW p \in Priorities
      PROVE  marked_count'[p] = Cardinality(Removing(Level(p))')
  <2>1. Level(p) \in SUBSET Queues /\ (q \in Level(p) <=> p = Priority[q])  BY DEF Level
  <2>2. marked_count[p] = Cardinality(Removing(Level(p)))  BY MarkedIsRemoving
  <2>3. marked_count \in [Priorities -> 0 .. SizeMod - 1]  BY DEF IInv, TypeOK
  <2>4. CASE q \in Level(p)
    BY <1>1, <2>1, <2>2, <2>3, <2>4
  <2>5. CASE q \notin Level(p)
    BY <1>2, <2>1, <2>2, <2>3, <2>5
  <2>. QED BY <2>4, <2>5
<1>5. Removing(Queues)' = marked' \ blocked'
  BY DEF Removing, IInv, TypeOK
<1> QED BY <1>3, <1>4, <1>5 DEF MarkedExact, Removing, Level

\* remove_queue() counts the queue once, if nobody removes a queue twice.
LEMMA MarkedRemoveQueue ==
    ASSUME IInv, IInv', Disciplined, MarkedExact, NEW q \in Queues, RemoveQueue(q)
    PROVE  MarkedExact'
<1>1. /\ marked' = marked \cup {q} /\ blocked' = blocked
      /\ IF q \notin blocked
         THEN /\ marked_count' = [marked_count EXCEPT ![Priority[q]] = Plus(@, 1)]
              /\ total_marked' = total_marked + 1
         ELSE UNCHANGED <<marked_count, total_marked>>
      /\ q \in marked => total_marked < MarkBound
  BY DEF RemoveQueue, Removable, Counts
<1>2. q \notin marked
  <2>1. Cardinality(Removing(Queues)) \in 0 .. SizeMod - 1  BY MarkedIsRemoving, CountType
  <2>2. total_marked >= 0  BY <2>1, MarkedIsRemoving, SizeAssumption
  <2>3. MarkBound = 0  BY DEF Disciplined, Discipline
  <2>. QED BY <1>1, <2>2, <2>3 DEF IInv, TypeOK
<1>3. CASE q \in blocked
  <2>1. marked' \ blocked' = marked \ blocked  BY <1>1, <1>3
  <2>. QED BY <1>1, <1>3, <2>1, MarkedKept
<1>4. CASE q \notin blocked
  <2>1. marked' \ blocked' = (marked \ blocked) \cup {q}  BY <1>1, <1>4
  <2>. QED BY <1>1, <1>2, <1>4, <2>1, MarkedUp
<1> QED BY <1>3, <1>4

\* A queue marked while it was blocked counts when it is unblocked.
LEMMA MarkedUnblocks ==
    ASSUME IInv, IInv', MarkedExact, WorkUnblocks
    PROVE  MarkedExact'
<1> DEFINE freed == unblock_list \cap blocked \cap queue_map
<1>1. /\ freed \subseteq Queues /\ freed \subseteq blocked
      /\ blocked' = blocked \ freed /\ marked' = marked
      /\ total_marked' = total_marked + Cardinality(freed \cap marked)
      /\ marked_count' = [p \in Priorities |->
            Plus(marked_count[p], Cardinality(freed \cap marked \cap Level(p)))]
  BY DEF WorkUnblocks, IInv, TypeOK
<1> HIDE DEF freed
<1>2. ASSUME NEW Q \in SUBSET Queues
      PROVE  /\ Removing(Q)' = Removing(Q) \cup (freed \cap marked \cap Q)
             /\ Removing(Q) \cap (freed \cap marked \cap Q) = {}
             /\ freed \cap marked \cap Q \in SUBSET Queues
  BY <1>1 DEF Removing
<1>3. ASSUME NEW Q \in SUBSET Queues
      PROVE  /\ Cardinality(Removing(Q)') =
                   Plus(Cardinality(Removing(Q)), Cardinality(freed \cap marked \cap Q))
             /\ Cardinality(Removing(Q)') =
                   Cardinality(Removing(Q)) + Cardinality(freed \cap marked \cap Q)
  BY <1>2, MarkedIsRemoving, CountUp
<1>4. total_marked' = Cardinality(Removing(Queues)')
  <2>1. Queues \in SUBSET Queues /\ freed \cap marked \cap Queues = freed \cap marked
    BY <1>1
  <2>2. Cardinality(Removing(Queues)') =
           Cardinality(Removing(Queues)) + Cardinality(freed \cap marked)
    BY <1>3, <2>1
  <2>. QED BY <1>1, <2>2, MarkedIsRemoving
<1>5. ASSUME NEW p \in Priorities
      PROVE  marked_count'[p] = Cardinality(Removing(Level(p))')
  <2>1. Level(p) \in SUBSET Queues  BY DEF Level
  <2>. QED BY <1>1, <1>3, <2>1, MarkedIsRemoving
<1>6. Removing(Queues)' = marked' \ blocked'
  BY DEF Removing, IInv, TypeOK
<1> QED BY <1>4, <1>5, <1>6 DEF MarkedExact, Removing, Level

\* The queue the work thread removes counted; if it was the last of its level the
\* counter goes with the level.
LEMMA MarkedRemoves ==
    ASSUME IInv, IInv', MarkedExact, NEW p \in Priorities, NEW q \in Queues,
           RemoveQueueInternal(p, q)
    PROVE  MarkedExact'
<1> DEFINE left == RemoveFirst(work_queues[p], q)
<1>1. /\ q \in queue_map \ blocked /\ q \in marked /\ Priority[q] = p
      /\ marked' = marked \ {q} /\ blocked' = blocked /\ total_marked' = total_marked - 1
      /\ IF left = << >> THEN marked_count' = [marked_count EXCEPT ![p] = 0]
                         ELSE marked_count' = [marked_count EXCEPT ![p] = Minus(@, 1)]
  BY DEF RemoveQueueInternal, IsNext, Eligible, Level
<1>2. left = << >> => Removing(Level(p)) \subseteq {q}
  <2>1. IsListOf(work_queues[p], queue_map \cap Level(p)) /\ work_queues[p] \in Seq(Queues)
    BY DEF IInv, TypeOK, ListsOK, LevelsListed
  <2>2. q \in queue_map \cap Level(p)  BY <1>1 DEF Level
  <2>3. IsListOf(left, (queue_map \cap Level(p)) \ {q}) /\ left \in Seq(Queues)
    BY <2>1, <2>2, ListRemove
  <2>4. left = << >> => (queue_map \cap Level(p)) \ {q} = {}  BY <2>3, ListEmpty
  <2>5. marked \subseteq queue_map  BY DEF IInv, TypeOK
  <2>. QED BY <2>4, <2>5 DEF Removing
<1> HIDE DEF left
<1>3. marked' \ blocked' = (marked \ blocked) \ {q}  BY <1>1
<1> QED BY <1>1, <1>2, <1>3, MarkedDown

\* A marked queue does not count while it is blocked.
LEMMA MarkedBlocks ==
    ASSUME IInv, IInv', MarkedExact, BlockQueue
    PROVE  MarkedExact'
<1> DEFINE q == at[cur]
<1>1. q \in Queues /\ q \notin blocked
  BY RunningWork DEF IInv, BlockQueue, Lockable
<1>2. /\ blocked' = blocked \cup {q} /\ marked' = marked
      /\ IF q \in marked
         THEN /\ marked_count' = [marked_count EXCEPT ![Priority[q]] = Minus(@, 1)]
              /\ total_marked' = total_marked - 1
         ELSE UNCHANGED <<marked_count, total_marked>>
  BY DEF BlockQueue
<1> HIDE DEF q
<1>3. CASE q \in marked
  <2>1. marked' \ blocked' = (marked \ blocked) \ {q}  BY <1>2
  <2>. QED BY <1>1, <1>2, <1>3, <2>1, MarkedDown
<1>4. CASE q \notin marked
  <2>1. marked' \ blocked' = marked \ blocked  BY <1>2, <1>4
  <2>. QED BY <1>2, <1>4, <2>1, MarkedKept
<1> QED BY <1>3, <1>4

\* Every step keeps the counters of marked queues.
LEMMA MarkedStep ==
    ASSUME IInv, IInv', Disciplined, MarkedExact, Next
    PROVE  MarkedExact'
<1>1. CASE UNCHANGED <<marked, blocked, total_marked, marked_count>>
  BY <1>1 DEF MarkedExact, Level
<1>2. CASE CountsKept
  BY <1>1, <1>2 DEF CountsKept, countVars
<1>3. ASSUME NEW w \in Works, PostInserts(w) \/ RemoveTimedOut(w) PROVE MarkedExact'
  BY <1>1, <1>3 DEF PostInserts, RemoveTimedOut
<1>4. CASE PopQueue
  BY <1>1, <1>4 DEF PopQueue
<1>5. ASSUME NEW c \in Controllers, Clear(c) PROVE MarkedExact'
  BY <1>5, FS_EmptySet DEF Clear, MarkedExact, Level
<1> QED BY <1>2, <1>3, <1>4, <1>5, CountsShape, MarkedRemoveQueue, MarkedUnblocks,
        MarkedRemoves, MarkedBlocks DEF CountingStep

--------------------------------------------------------------------------------
(* The counters depend on the lists, on the discipline and on themselves.     *)

CInv == IInv /\ Disciplined /\ UnblockedExact /\ MarkedExact

LEMMA CInvInit == Discipline /\ Init => CInv
<1>. SUFFICES ASSUME Discipline, Init PROVE CInv
  OBVIOUS
<1>1. \A Q : QueuedIn(Q) = {}  BY DEF Init, QueuedIn
<1>2. UnblockedExact  BY <1>1, FS_EmptySet DEF Init, UnblockedExact
<1>3. MarkedExact  BY FS_EmptySet DEF Init, MarkedExact
<1> QED BY <1>2, <1>3, IInvInit, DisciplinedInit DEF CInv

LEMMA CInvStep == CInv /\ [Next]_vars => CInv'
<1>. SUFFICES ASSUME CInv, [Next]_vars PROVE CInv'
  OBVIOUS
<1>1. IInv'  BY IInvStep DEF CInv
<1>2. CASE Next
  BY <1>1, <1>2, DisciplinedStep, UnblockedStep, MarkedStep DEF CInv
<1>3. CASE UNCHANGED vars
  <2>1. Disciplined'
    BY <1>3 DEF CInv, Disciplined, Discipline, Alive, vars, queueVars, timeVars, postVars,
                workVars
  <2>2. UnblockedExact' /\ MarkedExact'
    BY <1>3 DEF CInv, UnblockedExact, MarkedExact, QueuedIn, Level, vars, queueVars,
                countVars, postVars
  <2>. QED BY <1>1, <2>1, <2>2 DEF CInv
<1> QED BY <1>2, <1>3

\* However posts, callbacks, blocked, marked and unblocked queues, expiries and
\* stops follow each other, unblocked_work and unblocked_work_count are the number
\* of works in queues that are not blocked, and total_marked and marked_count the
\* number of queues marked and not blocked, if no work with a deadline is posted
\* where callbacks block and no queue is removed twice.
THEOREM CountersCorrect == Discipline /\ Spec => []CountersExact
<1>1. Discipline /\ Init => CInv  BY CInvInit
<1>2. CInv /\ [Next]_vars => CInv'  BY CInvStep
<1>3. CInv => CountersExact  BY DEF CInv, CountersExact
<1> QED BY <1>1, <1>2, <1>3, PTL DEF Spec

--------------------------------------------------------------------------------
(* Told or run.  Work that was told is still in timedOutQueue, which the work *)
(* thread empties before it runs anything, and work that runs is flagged.     *)

ToldIsOut ==
    /\ notified \subseteq timedOutQueue
    /\ Alive /\ cur # NoWork => cur \in runningCallback
    /\ NeverBoth

LEMMA ToldIsOutStep ==
    ASSUME IInv, ToldIsOut, Next
    PROVE  ToldIsOut'
<1>0. NoWork \notin Works  BY QueuesAssumption
<1>1. CASE UNCHANGED <<notified, timedOutQueue, cur, runningCallback>> /\ Alive
  BY <1>1 DEF ToldIsOut, NeverBoth
<1>2. ASSUME NEW w, RemoveTimedOut(w) PROVE ToldIsOut'
  <2>1. cur = NoWork /\ cur' = cur
    BY <1>2 DEF RemoveTimedOut, MayRun, Lockable, IInv, ListsOK, RunningIsFirst
  <2>2. notified' = notified \ {w} /\ timedOutQueue' = timedOutQueue \ {w}
    BY <1>2 DEF RemoveTimedOut, TakenOut
  <2>. QED BY <2>1, <2>2 DEF ToldIsOut, NeverBoth
<1>3. ASSUME NEW p, NEW q \in Queues, RunWork(p, q) PROVE ToldIsOut'
  <2>1. timedOutQueue = {} /\ UNCHANGED <<notified, timedOutQueue>>
        /\ cur' \in runningCallback'
    BY <1>3 DEF RunWork, MayPick, timeVars
  <2>. QED BY <2>1 DEF ToldIsOut, NeverBoth
<1>4. CASE PopQueue
  <2>1. cur' = NoWork /\ notified' = notified \ {cur} /\ timedOutQueue' = timedOutQueue \ {cur}
    BY <1>4 DEF PopQueue, TakenOut
  <2>. QED BY <2>1, <1>0 DEF ToldIsOut, NeverBoth, IInv, TypeOK
<1>5. CASE BlockQueue
  <2>1. cur' = NoWork /\ UNCHANGED <<notified, timedOutQueue>>
    BY <1>5 DEF BlockQueue, timeVars
  <2>. QED BY <2>1, <1>0 DEF ToldIsOut, NeverBoth, IInv, TypeOK
<1>6. ASSUME NEW E, TimerExpires(E) PROVE ToldIsOut'
  <2>1. /\ timedOutQueue' = timedOutQueue \cup E /\ notified' = notified \cup (E \ runningCallback)
        /\ E \subseteq timeoutQueue /\ Alive
        /\ UNCHANGED <<cur, runningCallback>>
    BY <1>6 DEF TimerExpires, Told, Lockable, workVars
  <2>2. E \subseteq Works  BY <2>1 DEF IInv, TypeOK
  <2>3. cur \in runningCallback \/ cur = NoWork  BY <2>1 DEF ToldIsOut
  <2>4. cur \notin notified'  BY <2>1, <2>2, <2>3, <1>0 DEF ToldIsOut, NeverBoth
  <2>. QED BY <2>1, <2>3, <2>4 DEF ToldIsOut, NeverBoth
<1>7. ASSUME NEW c, Clear(c) PROVE ToldIsOut'
  <2>1. notified' = {} /\ cur' = cur /\ Alive
        /\ worker' = (IF cur = NoWork THEN worker ELSE "undefined")
    BY <1>7 DEF Clear, Lockable
  <2>2. Alive' => cur = NoWork  BY <2>1 DEF Alive
  <2>. QED BY <2>1, <2>2 DEF ToldIsOut, NeverBoth
<1>8. CASE Environment
  BY <1>1, <1>6, <1>8 DEF Environment, PostWakes, PostBegin, CreateQueue, RemoveQueue,
     ResourceChanges, StopBegins, StopImmediateBegins, JoinTimesOut, MayStop, Lockable,
     timeVars, workVars
<1>9. CASE WorkThread
  <2>1. CASE WorkUnblocks \/ WorkExits \/ WorkIsLost
    BY <1>1, <2>1 DEF WorkUnblocks, WorkExits, WorkIsLost, MayPick, MayRun, Lockable, timeVars,
       workVars
  <2>2. CASE Callback  BY <1>1, <2>2 DEF Callback, timeVars
  <2>3. ASSUME NEW p \in Priorities, NEW q \in Queues, RemoveQueueInternal(p, q)
        PROVE  ToldIsOut'
    BY <1>1, <2>3 DEF RemoveQueueInternal, MayPick, MayRun, Lockable, timeVars, workVars
  <2>. QED BY <1>2, <1>3, <1>4, <1>5, <1>9, <2>1, <2>2, <2>3 DEF WorkThread
<1>10. CASE Start \/ TimerExits \/ \E q \in Queues : UnblockQueue(q)
  BY <1>1, <1>10 DEF Start, TimerExits, UnblockQueue, Lockable, timeVars, workVars
<1>11. CASE \/ \E w \in Works : Posting(w)
            \/ \E c \in Controllers : Stopping(c)
  BY <1>1, <1>7, <1>11 DEF Posting, PostFails, PostWaits, PostInserts, Stopping, Joins, Lockable,
     timeVars, workVars
<1> QED BY <1>8, <1>9, <1>10, <1>11 DEF Next

\* Whatever the work thread and the timeout thread do, no callback runs after the
\* timeout callback of its work was called.
THEOREM NeverBothCorrect == Spec => []NeverBoth
<1>1. Init => IInv /\ ToldIsOut
  <2>1. Init => ToldIsOut
    BY QueuesAssumption DEF Init, ToldIsOut, NeverBoth
  <2>. QED BY <2>1, IInvInit
<1>2. IInv /\ ToldIsOut /\ [Next]_vars => (IInv /\ ToldIsOut)'
  <2>1. ToldIsOut /\ UNCHANGED vars => ToldIsOut'
    BY DEF ToldIsOut, NeverBoth, Alive, vars, timeVars, workVars
  <2>. QED BY <2>1, IInvStep, ToldIsOutStep
<1>3. ToldIsOut => NeverBoth  BY DEF ToldIsOut
<1> QED BY <1>1, <1>2, <1>3, PTL DEF Spec

--------------------------------------------------------------------------------
(* Nothing expires in silence.  The flag runningCallback outlives its callback *)
(* only for work that blocked its queue, which has no deadline.               *)

FlaggedRuns ==
    /\ \A w \in runningCallback \cap Timed : w = cur
    /\ ExpiryIsTold

LEMMA FlaggedRunsStep ==
    ASSUME IInv, Disciplined, FlaggedRuns, Next
    PROVE  FlaggedRuns'
<1>0. NoWork \notin Works /\ runningCallback \subseteq Works
  BY QueuesAssumption DEF IInv, TypeOK
<1>1. CASE UNCHANGED <<notified, timedOutQueue, cur, runningCallback>>
  BY <1>1 DEF FlaggedRuns, ExpiryIsTold
<1>2. ASSUME NEW w, RemoveTimedOut(w) PROVE FlaggedRuns'
  <2>1. cur' = cur /\ cur = NoWork
    BY <1>2 DEF RemoveTimedOut, MayRun, Lockable, IInv, ListsOK, RunningIsFirst
  <2>2. /\ notified' = notified \ {w} /\ timedOutQueue' = timedOutQueue \ {w}
        /\ runningCallback' = runningCallback \ {w}
    BY <1>2 DEF RemoveTimedOut, TakenOut
  <2>3. ExpiryIsTold'  BY <2>1, <2>2 DEF FlaggedRuns, ExpiryIsTold
  <2>. QED BY <2>1, <2>2, <2>3 DEF FlaggedRuns
<1>3. ASSUME NEW p, NEW q, RunWork(p, q) PROVE FlaggedRuns'
  <2>1. /\ timedOutQueue = {} /\ UNCHANGED timedOutQueue /\ cur = NoWork
        /\ cur' = Head(queue[q]) /\ runningCallback' = runningCallback \cup {Head(queue[q])}
    BY <1>3 DEF RunWork, MayPick, MayRun, Lockable, timeVars, IInv, ListsOK, RunningIsFirst
  <2>. QED BY <1>0, <2>1 DEF FlaggedRuns, ExpiryIsTold
<1>4. CASE PopQueue
  <2>1. /\ cur' = NoWork /\ notified' = notified \ {cur}
        /\ timedOutQueue' = timedOutQueue \ {cur}
        /\ runningCallback' = runningCallback \ {cur}
    BY <1>4 DEF PopQueue, TakenOut
  <2>. QED BY <2>1 DEF FlaggedRuns, ExpiryIsTold
<1>5. CASE BlockQueue
  <2>1. cur' = NoWork /\ UNCHANGED <<notified, timedOutQueue, runningCallback>>
        /\ Alive /\ worker = "failed"
    BY <1>5 DEF BlockQueue, Lockable, timeVars
  <2>2. cur \in Works /\ post[cur] = "queued"  BY <2>1, RunningWork DEF IInv
  <2>3. at[cur] \in MayBlock /\ at[cur] \in Targets[cur]  BY <2>1, <2>2 DEF Disciplined
  <2>4. cur \notin Timed  BY <2>3 DEF Disciplined, Discipline
  <2>5. timedOutQueue \subseteq Timed  BY DEF Disciplined
  <2>. QED BY <2>1, <2>4, <2>5 DEF FlaggedRuns, ExpiryIsTold
<1>6. ASSUME NEW E, TimerExpires(E) PROVE FlaggedRuns'
  <2>1. /\ timedOutQueue' = timedOutQueue \cup E /\ notified' = notified \cup (E \ runningCallback)
        /\ E \subseteq Timed /\ UNCHANGED <<cur, runningCallback>>
    BY <1>6 DEF TimerExpires, Told, workVars
  <2>. QED BY <2>1 DEF FlaggedRuns, ExpiryIsTold
<1>7. ASSUME NEW c, Clear(c) PROVE FlaggedRuns'
  BY <1>7 DEF Clear, FlaggedRuns, ExpiryIsTold
<1>8. CASE Environment
  BY <1>1, <1>6, <1>8 DEF Environment, PostWakes, PostBegin, CreateQueue, RemoveQueue,
     ResourceChanges, StopBegins, StopImmediateBegins, JoinTimesOut, timeVars, workVars
<1>9. CASE WorkThread
  <2>1. WorkUnblocks \/ WorkExits \/ WorkIsLost \/ Callback => FlaggedRuns'
    BY <1>1 DEF WorkUnblocks, WorkExits, WorkIsLost, Callback, timeVars, workVars
  <2>2. \A p, q : RemoveQueueInternal(p, q) => FlaggedRuns'
    BY <1>1 DEF RemoveQueueInternal, timeVars, workVars
  <2>. QED BY <1>2, <1>3, <1>4, <1>5, <1>9, <2>1, <2>2 DEF WorkThread
<1>10. CASE Start \/ TimerExits \/ \E q \in Queues : UnblockQueue(q)
  BY <1>1, <1>10 DEF Start, TimerExits, UnblockQueue, timeVars, workVars
<1>11. CASE \/ \E w \in Works : Posting(w)
            \/ \E c \in Controllers : Stopping(c)
  BY <1>1, <1>7, <1>11 DEF Posting, PostFails, PostWaits, PostInserts, Stopping, Joins,
     timeVars, workVars
<1> QED BY <1>8, <1>9, <1>10, <1>11 DEF Next

\* Work taken out because its deadline passed was told of it, or is the work being
\* run, if no work with a deadline is posted where callbacks block.
THEOREM ExpiryIsToldCorrect == Discipline /\ Spec => []ExpiryIsTold
<1>1. Discipline /\ Init => CInv /\ FlaggedRuns
  <2>1. Init => FlaggedRuns  BY DEF Init, FlaggedRuns, ExpiryIsTold
  <2>. QED BY <2>1, CInvInit
<1>2. CInv /\ FlaggedRuns /\ [Next]_vars => (CInv /\ FlaggedRuns)'
  <2>1. FlaggedRuns /\ UNCHANGED vars => FlaggedRuns'
    BY DEF FlaggedRuns, ExpiryIsTold, vars, timeVars, workVars
  <2>. QED BY <2>1, CInvStep, FlaggedRunsStep DEF CInv
<1>3. FlaggedRuns => ExpiryIsTold  BY DEF FlaggedRuns
<1> QED BY <1>1, <1>2, <1>3, PTL DEF Spec

--------------------------------------------------------------------------------
(* Unblocking.  Between the callback that fails and the blocking of its queue *)
(* the unblock may be owed or listed already, and is not served.             *)

UnblockComes ==
    /\ NoLostUnblock
    /\ Alive /\ worker = "failed" /\ at[cur] \in avail => at[cur] \in owed \cup unblock_list

\* What a blocked queue, or one about to be, waits for stays in sight.
LEMMA UnblockComesStep ==
    ASSUME IInv, UnblockComes, Next
    PROVE  UnblockComes'
<1>1. CASE UNCHANGED <<avail, owed, unblock_list, blocked>>
  <2>1. NoLostUnblock'  BY <1>1 DEF UnblockComes, NoLostUnblock
  <2>2. ASSUME Alive', worker' = "failed", at'[cur'] \in avail'
        PROVE  at'[cur'] \in owed' \cup unblock_list'
    <3>1. CASE Alive /\ worker = "failed" /\ UNCHANGED <<at, cur>>
      BY <1>1, <2>2, <3>1 DEF UnblockComes
    <3>2. CASE Callback
      BY <1>1, <2>2, <3>2 DEF Callback, postVars
    <3>3. CASE Environment
      <4>1. ASSUME NEW w \in Works, NEW q \in Queues, PostBegin(w, q)
            PROVE  worker = "failed" /\ Alive /\ at'[cur'] = at[cur]
        <5>1. worker = "failed" /\ Alive /\ cur' = cur /\ post[w] = "idle"
              /\ at' = [at EXCEPT ![w] = q]
          BY <2>2, <4>1 DEF PostBegin, workVars
        <5>2. cur \in Works /\ cur # w  BY <5>1, RunningWork DEF IInv
        <5>. QED BY <5>1, <5>2 DEF IInv, TypeOK
      <4>. QED BY <1>1, <2>2, <3>1, <3>3, <4>1 DEF UnblockComes, Environment, PostWakes,
           CreateQueue, RemoveQueue, ResourceChanges, TimerExpires, StopBegins,
           StopImmediateBegins, JoinTimesOut, MayStop, Lockable, workVars, postVars
    <3>4. CASE WorkThread
      BY <2>2, <3>2, <3>4 DEF WorkThread, WorkUnblocks, WorkExits, WorkIsLost, PopQueue,
         BlockQueue, RemoveTimedOut, RunWork, RemoveQueueInternal, MayPick, MayRun, Lockable,
         workVars
    <3>5. CASE Start \/ TimerExits \/ \E q \in Queues : UnblockQueue(q)
      BY <2>2, <3>1, <3>5 DEF Start, TimerExits, UnblockQueue, Lockable, workVars, postVars
    <3>6. ASSUME NEW w \in Works, Posting(w)
          PROVE  worker = "failed" /\ Alive /\ at'[cur'] = at[cur]
      <4>1. worker = "failed" /\ Alive /\ cur' = cur /\ post[w] = "entering"
            /\ (at' = at \/ at' = [at EXCEPT ![w] = NoQueue])
        BY <2>2, <3>6 DEF Posting, PostFails, PostWaits, PostInserts, Lockable, workVars
      <4>2. cur \in Works /\ cur # w  BY <4>1, RunningWork DEF IInv
      <4>. QED BY <4>1, <4>2 DEF IInv, TypeOK
    <3>7. ASSUME NEW c \in Controllers, Clear(c) PROVE FALSE
      <4>1. Alive /\ worker = "failed" /\ cur = NoWork
        BY <2>2, <3>7 DEF Clear, Lockable
      <4>. QED BY <4>1 DEF IInv, ListsOK, RunningIsFirst
    <3>8. ASSUME NEW c \in Controllers, Stopping(c)
          PROVE  Alive /\ worker = "failed" /\ UNCHANGED <<at, cur>>
      BY <2>2, <3>7, <3>8 DEF Stopping, Joins, workVars, postVars
    <3>. QED BY <1>1, <2>2, <3>1, <3>3, <3>4, <3>5, <3>6, <3>8 DEF Next, UnblockComes
  <2>. QED BY <2>1, <2>2 DEF UnblockComes
<1>2. ASSUME NEW q \in Queues, ResourceChanges(q) PROVE UnblockComes'
  BY <1>2 DEF ResourceChanges, UnblockComes, NoLostUnblock, queueVars, postVars, workVars
<1>3. ASSUME NEW q \in Queues, UnblockQueue(q) PROVE UnblockComes'
  BY <1>3 DEF UnblockQueue, Lockable, UnblockComes, NoLostUnblock, queueVars, postVars, workVars
<1>4. CASE WorkUnblocks
  <2>1. /\ blocked' = blocked \ (unblock_list \cap blocked \cap queue_map)
        /\ UNCHANGED <<avail, owed, worker>> /\ worker = "wait"
    BY <1>4 DEF WorkUnblocks, envVars, workVars
  <2>2. blocked \subseteq queue_map  BY DEF IInv, TypeOK
  <2>. QED BY <2>1, <2>2 DEF UnblockComes, NoLostUnblock
<1>5. CASE BlockQueue
  <2>1. /\ blocked' = blocked \cup {at[cur]} /\ worker' = "wait"
        /\ UNCHANGED <<avail, owed, unblock_list>> /\ worker = "failed" /\ Alive
    BY <1>5 DEF BlockQueue, Lockable, envVars
  <2>. QED BY <2>1 DEF UnblockComes, NoLostUnblock
<1>6. ASSUME NEW c \in Controllers, Clear(c) PROVE UnblockComes'
  <2>1. blocked' = {} /\ Alive /\ worker' = (IF cur = NoWork THEN worker ELSE "undefined")
    BY <1>6 DEF Clear, Lockable
  <2>2. worker' # "failed"
    BY <2>1 DEF IInv, ListsOK, RunningIsFirst
  <2>. QED BY <2>1, <2>2 DEF UnblockComes, NoLostUnblock
<1>7. CASE Environment
  BY <1>1, <1>2, <1>7 DEF Environment, PostBegin, PostWakes, CreateQueue, RemoveQueue,
     TimerExpires, StopBegins, StopImmediateBegins, JoinTimesOut, queueVars, envVars
<1>8. CASE WorkThread
  <2>1. CASE WorkExits \/ WorkIsLost \/ Callback \/ PopQueue
    BY <1>1, <2>1 DEF WorkExits, WorkIsLost, Callback, PopQueue, queueVars, envVars
  <2>2. ASSUME NEW w \in Works, RemoveTimedOut(w) PROVE UnblockComes'
    BY <1>1, <2>2 DEF RemoveTimedOut, envVars
  <2>3. ASSUME NEW p \in Priorities, NEW q \in Queues,
               RunWork(p, q) \/ RemoveQueueInternal(p, q)
        PROVE  UnblockComes'
    BY <1>1, <2>3 DEF RunWork, RemoveQueueInternal, queueVars, envVars
  <2>. QED BY <1>4, <1>5, <1>8, <2>1, <2>2, <2>3 DEF WorkThread
<1>9. CASE Start \/ TimerExits \/ \E w \in Works : Posting(w)
  BY <1>1, <1>9 DEF Start, TimerExits, Posting, PostFails, PostWaits, PostInserts, queueVars,
     envVars
<1>10. CASE \E c \in Controllers : Stopping(c)
  BY <1>1, <1>6, <1>10 DEF Stopping, Joins, queueVars, envVars
<1> QED BY <1>3, <1>7, <1>8, <1>9, <1>10 DEF Next

\* In any order of a callback that fails, the return of what it missed, the call of
\* unblock_queue and the blocking of the queue, a blocked queue whose resource is
\* back has an unblock to come.
THEOREM NoLostUnblockCorrect == Spec => []NoLostUnblock
<1>1. Init => IInv /\ UnblockComes
  <2>1. Init => UnblockComes  BY DEF Init, UnblockComes, NoLostUnblock
  <2>. QED BY <2>1, IInvInit
<1>2. IInv /\ UnblockComes /\ [Next]_vars => (IInv /\ UnblockComes)'
  <2>1. UnblockComes /\ UNCHANGED vars => UnblockComes'
    BY DEF UnblockComes, NoLostUnblock, Alive, vars, queueVars, postVars, workVars, envVars
  <2>. QED BY <2>1, IInvStep, UnblockComesStep
<1>3. UnblockComes => NoLostUnblock  BY DEF UnblockComes
<1> QED BY <1>1, <1>2, <1>3, PTL DEF Spec

--------------------------------------------------------------------------------
(* Stopping.  If stops come one at a time, whoever clears the handler joined  *)
(* the work thread, or came after somebody who had, or there was none.        *)

Joined(c) == ctl[c] \in {"join_timeout", "finish", "clear", "done"}

StopsInTurn ==
    /\ \A c \in Controllers : Joined(c) => worker \in {"off", "exit"}
    /\ (\A c \in Controllers : ctl[c] = "idle") <=> state \in {"PRESTART", "STARTED"}

\* A stop that begins alone finds the handler running, never started, or left by
\* the work thread.
LEMMA StopAlone ==
    ASSUME IInv, StopsInTurn, SerialStops, NEW c \in Controllers, MayStop(c)
    PROVE  state = "STARTED" \/ worker \in {"off", "exit"}
<1>1. CASE state = "PRESTART"
  BY <1>1 DEF IInv, NotStarted
<1>2. CASE state \in {"STOPPING", "STOPPED"}
  <2>1. PICK d \in Controllers : ctl[d] # "idle"  BY <1>2 DEF StopsInTurn
  <2>2. ctl[d] = "done"  BY <2>1 DEF MayStop
  <2>. QED BY <2>2 DEF StopsInTurn, Joined
<1> QED BY <1>1, <1>2 DEF IInv, TypeOK, HandlerStates

LEMMA StopsInTurnStep ==
    ASSUME IInv, StopsInTurn, SerialStops, Next
    PROVE  StopsInTurn'
<1>1. CASE UNCHANGED <<ctl, state>> /\ (worker \in {"off", "exit"} => worker' = worker)
  BY <1>1 DEF StopsInTurn, Joined
<1>2. CASE Start
  BY <1>2 DEF Start, StopsInTurn, Joined
<1>3. CASE WorkThread
  <2>1. CASE WorkUnblocks \/ WorkExits \/ WorkIsLost \/ Callback
    BY <1>1, <2>1 DEF WorkUnblocks, WorkExits, WorkIsLost, Callback, MayPick, MayRun, workVars
  <2>2. CASE PopQueue \/ BlockQueue  BY <1>1, <2>2 DEF PopQueue, BlockQueue
  <2>3. ASSUME NEW w \in Works, RemoveTimedOut(w) PROVE StopsInTurn'
    BY <1>1, <2>3 DEF RemoveTimedOut, MayRun
  <2>4. ASSUME NEW p \in Priorities, NEW q \in Queues, RunWork(p, q) PROVE StopsInTurn'
    BY <1>1, <2>4 DEF RunWork, MayPick, MayRun
  <2>5. ASSUME NEW p \in Priorities, NEW q \in Queues, RemoveQueueInternal(p, q)
        PROVE  StopsInTurn'
    BY <1>1, <2>5 DEF RemoveQueueInternal, workVars
  <2>. QED BY <1>3, <2>1, <2>2, <2>3, <2>4, <2>5 DEF WorkThread
<1>4. ASSUME NEW c \in Controllers, StopBegins(c) PROVE StopsInTurn'
  <2>1. /\ MayStop(c) /\ worker' = worker
        /\ state' = IF state \in {"PRESTART", "STARTED"} THEN "STOPPING" ELSE state
        /\ ctl' = [ctl EXCEPT ![c] = AfterStop(state)]
    BY <1>4 DEF StopBegins, workVars
  <2>2. ctl'[c] = AfterStop(state) /\ \A d \in Controllers \ {c} : ctl'[d] = ctl[d]
    BY <2>1 DEF IInv, TypeOK
  <2>3. AfterStop(state) # "idle" /\ (state = "STARTED" => AfterStop(state) = "join")
    BY DEF AfterStop
  <2>4. state' \notin {"PRESTART", "STARTED"}  BY <2>1
  <2>. QED BY <2>1, <2>2, <2>3, <2>4, StopAlone DEF StopsInTurn, Joined
<1>5. ASSUME NEW c \in Controllers, StopImmediateBegins(c) PROVE StopsInTurn'
  <2>1. /\ MayStop(c) /\ worker' = worker /\ state' = "STOPPED"
        /\ ctl' = [ctl EXCEPT ![c] = IF state = "STARTED" THEN "join" ELSE "clear"]
    BY <1>5 DEF StopImmediateBegins, workVars
  <2>2. /\ ctl'[c] = (IF state = "STARTED" THEN "join" ELSE "clear")
        /\ \A d \in Controllers \ {c} : ctl'[d] = ctl[d]
    BY <2>1 DEF IInv, TypeOK
  <2>. QED BY <2>1, <2>2, StopAlone DEF StopsInTurn, Joined
<1>6. ASSUME NEW c \in Controllers, Joins(c) \/ JoinTimesOut(c) PROVE StopsInTurn'
  <2>1. UNCHANGED <<state, worker>>  BY <1>6 DEF Joins, JoinTimesOut, workVars
  <2>2. /\ \/ ctl[c] = "join" /\ worker = "exit" /\ ctl'[c] = "join_timeout"
           \/ ctl[c] = "join_timeout" /\ ctl'[c] = "finish"
           \/ ctl[c] \in {"join", "join_timeout"} /\ ctl'[c] = "terminated"
        /\ \A d \in Controllers \ {c} : ctl'[d] = ctl[d]
    BY <1>6 DEF Joins, JoinTimesOut, IInv, TypeOK
  <2>. QED BY <2>1, <2>2 DEF StopsInTurn, Joined
<1>7. ASSUME NEW c \in Controllers, Clear(c) PROVE StopsInTurn'
  <2>1. /\ ctl[c] \in {"finish", "clear"} /\ ctl' = [ctl EXCEPT ![c] = "done"]
        /\ state' = (IF ctl[c] = "finish" THEN "STOPPED" ELSE state)
        /\ worker' = (IF cur = NoWork THEN worker ELSE "undefined") /\ Alive
    BY <1>7 DEF Clear, Lockable
  <2>2. worker \in {"off", "exit"}  BY <2>1 DEF StopsInTurn, Joined
  <2>3. cur = NoWork  BY <2>1, <2>2 DEF IInv, ListsOK, RunningIsFirst
  <2>4. ctl'[c] = "done" /\ \A d \in Controllers \ {c} : ctl'[d] = ctl[d]
    BY <2>1 DEF IInv, TypeOK
  <2>. QED BY <2>1, <2>2, <2>3, <2>4 DEF StopsInTurn, Joined
<1>8. CASE Environment
  BY <1>1, <1>4, <1>5, <1>6, <1>8 DEF Environment, PostBegin, PostWakes, CreateQueue,
     RemoveQueue, ResourceChanges, TimerExpires, workVars
<1>9. CASE \/ TimerExits \/ \E w \in Works : Posting(w)
           \/ \E q \in Queues : UnblockQueue(q)
  BY <1>1, <1>9 DEF TimerExits, Posting, PostFails, PostWaits, PostInserts, UnblockQueue,
     workVars
<1>10. CASE \E c \in Controllers : Stopping(c)
  BY <1>6, <1>7, <1>10 DEF Stopping
<1> QED BY <1>2, <1>3, <1>8, <1>9, <1>10 DEF Next

\* If stops come one at a time, stop() and stop_immediate() clear the lists only
\* when the callback that was running is over and the work thread has left them.
THEOREM ClearedCorrect == SerialStops /\ Spec => []ClearedAfterWork
<1>1. SerialStops /\ Init => IInv /\ StopsInTurn /\ SerialStops
  <2>1. Init => StopsInTurn  BY DEF Init, StopsInTurn, Joined
  <2>. QED BY <2>1, IInvInit
<1>2. IInv /\ StopsInTurn /\ SerialStops /\ [Next]_vars => (IInv /\ StopsInTurn /\ SerialStops)'
  <2>1. StopsInTurn /\ UNCHANGED vars => StopsInTurn'
    BY DEF StopsInTurn, Joined, vars, workVars
  <2>. QED BY <2>1, IInvStep, StopsInTurnStep
<1>3. StopsInTurn => ClearedAfterWork  BY DEF StopsInTurn, Joined, ClearedAfterWork
<1> QED BY <1>1, <1>2, <1>3, PTL DEF Spec

--------------------------------------------------------------------------------
(* The search of get_next_queue_with_work.  The counters of a level tell      *)
(* whether it has a queue to choose; current_priority is never below one; and *)
(* an iterator kept for a level points into its list until clear().          *)

SearchedFirst == \A q \in Queues : Eligible(q) => Priority[q] <= current_priority
ItersValid ==
    \A p \in Priorities :
        queueIters[p] \in (queue_map \cap Level(p)) \cup {NoQueue, "dangling"}
DanglingOnlyCleared ==
    (\E p \in Priorities : queueIters[p] = "dangling") => \E c \in Controllers : ctl[c] = "done"

\* A queue holds work exactly when work is queued there, and only an existing one.
LEMMA QueueHolds ==
    ASSUME IInv, NEW q \in Queues
    PROVE  /\ queue[q] # << >> <=> QueuedIn({q}) # {}
           /\ queue[q] # << >> => q \in queue_map
<1>1. queue[q] \in Seq(Works) /\ IsListOf(queue[q], QueuedIn({q}))
  BY DEF IInv, TypeOK, ListsOK, QueuesListed
<1>2. queue[q] # << >> <=> QueuedIn({q}) # {}  BY <1>1, ListEmpty
<1>3. QueuedIn({q}) # {} => q \in queue_map
  BY DEF QueuedIn, IInv, ListsOK, WorkPlaced
<1> QED BY <1>2, <1>3

\* The queues of Q that can be chosen are those with work or marked, not blocked.
LEMMA EligibleCounted ==
    ASSUME IInv, NEW Q \in SUBSET Queues
    PROVE  (\E q \in Q : Eligible(q)) <=> Ready(Q) # {} \/ Removing(Q) # {}
<1>1. marked \subseteq queue_map  BY DEF IInv, TypeOK
<1>2. ASSUME NEW q \in Q, Eligible(q) PROVE Ready(Q) # {} \/ Removing(Q) # {}
  <2>1. CASE q \in marked  BY <1>2, <2>1 DEF Eligible, Removing
  <2>2. CASE queue[q] # << >>
    <3>1. QueuedIn({q}) # {}  BY <2>2, QueueHolds
    <3>. QED BY <1>2, <3>1 DEF Eligible, Ready, QueuedIn
  <2>. QED BY <1>2, <2>1, <2>2 DEF Eligible
<1>3. ASSUME NEW w \in Ready(Q) PROVE \E q \in Q : Eligible(q)
  <2>1. w \in Works /\ at[w] \in Q \ blocked /\ w \in QueuedIn({at[w]})
    BY <1>3 DEF Ready, QueuedIn
  <2>2. queue[at[w]] # << >> /\ at[w] \in queue_map  BY <2>1, QueueHolds
  <2>. QED BY <2>1, <2>2 DEF Eligible
<1>4. ASSUME NEW q \in Removing(Q) PROVE \E r \in Q : Eligible(r)
  BY <1>1, <1>4 DEF Eligible, Removing
<1> QED BY <1>2, <1>3, <1>4

\* The counters of a level, and the totals, are 0 only when there is nothing to choose.
LEMMA CountersTell ==
    ASSUME CInv
    PROVE  /\ \A p \in Priorities : HasMore(p) <=> \E q \in Level(p) : Eligible(q)
           /\ unblocked_work > 0 \/ total_marked > 0 => \E q \in Queues : Eligible(q)
<1>1. ASSUME NEW Q \in SUBSET Queues
      PROVE  /\ Cardinality(Ready(Q)) = 0 <=> Ready(Q) = {}
             /\ Cardinality(Removing(Q)) = 0 <=> Removing(Q) = {}
  <2>1. IsFiniteSet(Ready(Q))  BY CountType DEF Ready
  <2>2. IsFiniteSet(Removing(Q))  BY CountType, MarkedIsRemoving DEF CInv
  <2>. QED BY <2>1, <2>2, FS_EmptySet
<1>2. ASSUME NEW p \in Priorities
      PROVE  HasMore(p) <=> \E q \in Level(p) : Eligible(q)
  <2>1. Level(p) \in SUBSET Queues  BY DEF Level
  <2>2. /\ unblocked_work_count[p] = Cardinality(Ready(Level(p)))
        /\ marked_count[p] = Cardinality(Removing(Level(p)))
    BY UnblockedIsReady, MarkedIsRemoving DEF CInv
  <2>. QED BY <1>1, <2>1, <2>2, EligibleCounted DEF HasMore, CInv
<1>3. unblocked_work > 0 \/ total_marked > 0 => \E q \in Queues : Eligible(q)
  <2>1. Queues \in SUBSET Queues  OBVIOUS
  <2>2. /\ unblocked_work = Cardinality(Ready(Queues))
        /\ total_marked = Cardinality(Removing(Queues))
    BY UnblockedIsReady, MarkedIsRemoving DEF CInv
  <2>3. ~(0 > 0)  OBVIOUS
  <2>. QED BY <1>1, <2>1, <2>2, <2>3, EligibleCounted DEF CInv
<1> QED BY <1>2, <1>3

\* A queue is in the list of its level, which is therefore searched.
LEMMA EligibleLevel ==
    ASSUME IInv, NEW q \in Queues, Eligible(q)
    PROVE  Priority[q] \in Priorities /\ Priority[q] \in Levels /\ q \in Level(Priority[q])
<1>1. Priority[q] \in Priorities /\ q \in Level(Priority[q])  BY DEF Priorities, Level
<1>2. /\ work_queues[Priority[q]] \in Seq(Queues)
      /\ IsListOf(work_queues[Priority[q]], queue_map \cap Level(Priority[q]))
  BY <1>1 DEF IInv, TypeOK, ListsOK, LevelsListed
<1>3. q \in queue_map \cap Level(Priority[q])  BY <1>1 DEF Eligible
<1>4. work_queues[Priority[q]] # << >>  BY <1>2, <1>3, ListEmpty
<1> QED BY <1>1, <1>4 DEF Levels

\* What the search finds has the highest priority there is.
LEMMA FoundIsHighest ==
    ASSUME CInv, SearchedFirst, NEW p \in Priorities, NEW q \in Queues, IsNext(p, q)
    PROVE  \A r \in Queues : Eligible(r) => Priority[r] <= p
<1>1. Priorities \subseteq Int  BY QueuesAssumption DEF Priorities
<1> DEFINE S == {r \in Levels : HasMore(r)}
<1>2. p \in S /\ (\/ p <= current_priority /\ \A r \in S : r <= current_priority => r <= p
                  \/ (\A r \in S : r > current_priority) /\ (\A r \in S : r <= p))
  BY DEF IsNext, FirstFrom
<1>3. ASSUME NEW r \in Queues, Eligible(r)
      PROVE  Priority[r] \in S /\ Priority[r] <= current_priority
  <2>1. /\ Priority[r] \in Priorities /\ Priority[r] \in Levels /\ r \in Level(Priority[r])
        /\ HasMore(Priority[r])
    BY <1>3, EligibleLevel, CountersTell DEF CInv
  <2>. QED BY <1>3, <2>1 DEF SearchedFirst
<1> HIDE DEF S
<1> QED BY <1>2, <1>3

\* A position in a list is a number, 0 for what is not in the list.
LEMMA PositionType ==
    ASSUME NEW T, NEW s \in Seq(T), NEW x
    PROVE  Position(s, x) \in Nat
<1> DEFINE I == {i \in 1 .. Len(s) : s[i] = x}
<1>1. I \subseteq Nat  BY LenProperties
<1>2. Position(s, x) = IF I # {} THEN Min(I) ELSE 0  BY DEF Position, SelectInSeq
<1>3. I # {} => Min(I) \in Nat
  <2> HIDE DEF I
  <2>1. I # {} => \E n \in I : \A m \in I : n <= m  BY <1>1, LeastNat
  <2>. QED BY <1>1, <2>1 DEF Min
<1> HIDE DEF I
<1> QED BY <1>2, <1>3

\* If there is a queue to choose, the search finds one.
LEMMA SearchFinds ==
    ASSUME CInv, SearchedFirst, \E q \in Queues : Eligible(q)
    PROVE  \E p \in Priorities, q \in Queues : IsNext(p, q)
<1> DEFINE S == {r \in Levels : HasMore(r)}
<1>1. Priorities \subseteq Int /\ IsFiniteSet(Priorities)
  <2>1. Priority \in Surjection(Queues, Priorities)
    BY QueuesAssumption DEF Priorities, Surjection
  <2>2. IsFiniteSet(Queues) /\ Priority \in [Queues -> Int]  BY QueuesAssumption
  <2>. QED BY <2>1, <2>2, FS_Surjection DEF Priorities
<1>2. \A q \in Queues : Eligible(q) => Priority[q] \in S
  BY EligibleLevel, CountersTell DEF CInv
<1>3. S # {} /\ S \subseteq Int /\ IsFiniteSet(S)
  <2>1. S \in SUBSET Priorities  BY DEF Levels
  <2>. QED BY <1>1, <1>2, <2>1, FS_Subset
<1>4. \A r \in S : r \in Priorities /\ HasMore(r)  BY DEF Levels
<1>5. PICK p \in S : \A r \in S : r <= p
  <2> HIDE DEF S
  <2>. QED BY <1>3, GreatestInt
<1>6. p \in Priorities /\ \E q \in Level(p) : Eligible(q)
  BY <1>4, CountersTell
<1>7. \A r \in S : r <= current_priority
  <2>1. ASSUME NEW r \in S PROVE r <= current_priority
    <3>1. PICK q \in Level(r) : Eligible(q)  BY <1>4, CountersTell
    <3>. QED BY <3>1 DEF Level, SearchedFirst
  <2>. QED BY <2>1
<1>8. FirstFrom(p, current_priority, S)
  <2> HIDE DEF S
  <2>. QED BY <1>5, <1>7 DEF FirstFrom
<1> DEFINE turn(q) == Turn(work_queues[p], IterOf(p), q)
           C == {q \in Level(p) : Eligible(q)}
           T == {turn(q) : q \in C}
<1>9. T \subseteq Nat /\ T # {}
  <2>1. work_queues[p] # << >> /\ work_queues[p] \in Seq(Queues)
    BY <1>5 DEF Levels, CInv, IInv, TypeOK
  <2>2. Len(work_queues[p]) \in Nat /\ Len(work_queues[p]) > 0
    BY <2>1, LenProperties, EmptySeq
  <2>3. \A x : Position(work_queues[p], x) \in Nat  BY <2>1, PositionType
  <2>4. \A q : turn(q) \in Nat
    <3>1. \A a, b \in Nat, n \in Nat : n > 0 => (a - b) % n \in Nat  OBVIOUS
    <3>. QED BY <2>2, <2>3, <3>1 DEF Turn
  <2> HIDE DEF turn
  <2>. QED BY <1>6, <2>4
<1>10. PICK n \in T : \A m \in T : n <= m
  <2> HIDE DEF T
  <2>. QED BY <1>9, LeastNat
<1>11. PICK q \in C : n = turn(q)  OBVIOUS
<1>12. q \in Queues /\ q \in Level(p) /\ Eligible(q)  BY DEF Level
<1>13. \A r \in Level(p) : Eligible(r) => turn(q) <= turn(r)  BY <1>10, <1>11
<1>14. IsNext(p, q)  BY <1>8, <1>12, <1>13 DEF IsNext
<1> QED BY <1>6, <1>12, <1>14

\* current_priority goes up with what can be chosen, and down only to what was found.
LEMMA SearchedFirstStep ==
    ASSUME CInv, CInv', SearchedFirst, Next
    PROVE  SearchedFirst'
<1>0. /\ current_priority \in Int /\ current_priority' \in Int /\ Priorities \subseteq Int
      /\ \A q \in Queues : Priority[q] \in Int
  <2>1. \A q \in Queues : Priority[q] \in Int  BY QueuesAssumption
  <2>2. Priorities \subseteq Int  BY <2>1 DEF Priorities
  <2>3. current_priority \in Priorities /\ current_priority' \in Priorities
    <3>1. TypeOK /\ TypeOK'  BY DEF CInv, IInv
    <3>2. Priorities' = Priorities  BY DEF Priorities
    <3>. QED BY <3>1, <3>2 DEF TypeOK
  <2>. QED BY <2>1, <2>2, <2>3
<1>1. ASSUME \A q \in Queues : Eligible(q)' => Eligible(q), current_priority' >= current_priority
      PROVE  SearchedFirst'
  <2>1. ASSUME NEW q \in Queues, Eligible(q)' PROVE Priority[q] <= current_priority'
    <3>1. Priority[q] <= current_priority  BY <1>1, <2>1 DEF SearchedFirst
    <3>. QED BY <1>0, <1>1, <3>1
  <2>. QED BY <2>1 DEF SearchedFirst
<1>2. CASE UNCHANGED <<queue_map, marked, blocked, queue, current_priority>>
  <2>1. \A q \in Queues : Eligible(q)' => Eligible(q)  BY <1>2 DEF Eligible
  <2>. QED BY <1>0, <1>1, <1>2, <2>1
<1>3. ASSUME NEW w \in Works, PostInserts(w) PROVE SearchedFirst'
  <2>1. /\ at[w] \in Queues /\ queue' = [queue EXCEPT ![at[w]] = Append(@, w)]
        /\ UNCHANGED <<queue_map, marked, blocked>> /\ current_priority' = RaisedTo(Priority[at[w]])
    BY <1>3 DEF PostInserts, CInv, IInv, TypeOK
  <2>2. \A q \in Queues : Eligible(q)' => Eligible(q) \/ q = at[w]
    BY <2>1 DEF Eligible, CInv, IInv, TypeOK
  <2>3. current_priority' >= current_priority /\ current_priority' >= Priority[at[w]]
    BY <1>0, <2>1 DEF RaisedTo
  <2>. QED BY <1>0, <2>2, <2>3 DEF SearchedFirst
<1>4. ASSUME NEW q \in Queues, RemoveQueue(q) PROVE SearchedFirst'
  <2>1. /\ marked' = marked \cup {q} /\ UNCHANGED <<queue_map, blocked, queue>>
        /\ q \notin blocked => current_priority' = RaisedTo(Priority[q])
        /\ q \in blocked => current_priority' = current_priority
    BY <1>4 DEF RemoveQueue, Counts
  <2>2. \A r \in Queues : Eligible(r)' => Eligible(r) \/ (r = q /\ q \notin blocked)
    BY <2>1 DEF Eligible
  <2>3. /\ current_priority' >= current_priority
        /\ q \notin blocked => current_priority' >= Priority[q]
    BY <1>0, <2>1 DEF RaisedTo
  <2>. QED BY <1>0, <2>2, <2>3 DEF SearchedFirst
<1>5. CASE WorkUnblocks
  <2> DEFINE freed == unblock_list \cap blocked \cap queue_map
  <2>1. /\ blocked' = blocked \ freed /\ UNCHANGED <<queue_map, queue, marked>>
        /\ current_priority' >= current_priority
        /\ \A q \in freed : current_priority' >= Priority[q]
    BY <1>5 DEF WorkUnblocks
  <2>2. \A q \in Queues : Eligible(q)' => Eligible(q) \/ q \in freed
    BY <2>1 DEF Eligible
  <2> HIDE DEF freed
  <2>. QED BY <1>0, <2>1, <2>2 DEF SearchedFirst
<1>6. ASSUME NEW p \in Priorities, NEW q \in Queues, RunWork(p, q) PROVE SearchedFirst'
  <2>1. IsNext(p, q) /\ current_priority' = p /\ UNCHANGED <<queue_map, marked, blocked, queue>>
    BY <1>6 DEF RunWork, queueVars
  <2>2. \A r \in Queues : Eligible(r)' => Eligible(r)  BY <2>1 DEF Eligible
  <2>. QED BY <2>1, <2>2, FoundIsHighest DEF SearchedFirst
<1>7. ASSUME NEW p \in Priorities, NEW q \in Queues, RemoveQueueInternal(p, q)
      PROVE  SearchedFirst'
  <2>1. /\ IsNext(p, q) /\ queue_map' = queue_map \ {q} /\ marked' = marked \ {q}
        /\ UNCHANGED <<blocked, queue>>
        /\ \/ current_priority' = p
           \/ /\ RemoveFirst(work_queues[p], q) = << >>
              /\ FirstFrom(current_priority', p, Levels \ {p})
    BY <1>7 DEF RemoveQueueInternal
  <2>2. \A r \in Queues : Eligible(r)' => Eligible(r) /\ r # q  BY <2>1 DEF Eligible
  <2>3. CASE current_priority' = p
    BY <2>1, <2>2, <2>3, FoundIsHighest DEF SearchedFirst
  <2>4. CASE /\ RemoveFirst(work_queues[p], q) = << >>
             /\ FirstFrom(current_priority', p, Levels \ {p})
    <3>1. queue_map \cap Level(p) \subseteq {q}
      <4>1. work_queues[p] \in Seq(Queues) /\ IsListOf(work_queues[p], queue_map \cap Level(p))
        BY DEF CInv, IInv, TypeOK, ListsOK, LevelsListed
      <4>2. q \in queue_map \cap Level(p)  BY <2>1 DEF IsNext, Eligible
      <4>3. /\ RemoveFirst(work_queues[p], q) \in Seq(Queues)
            /\ IsListOf(RemoveFirst(work_queues[p], q), (queue_map \cap Level(p)) \ {q})
        BY <4>1, <4>2, ListRemove
      <4>4. (queue_map \cap Level(p)) \ {q} = {}  BY <2>4, <4>3, ListEmpty
      <4>. QED BY <4>4
    <3>2. ASSUME NEW r \in Queues, Eligible(r)' PROVE Priority[r] <= current_priority'
      <4>1. Eligible(r) /\ r # q /\ r \in queue_map  BY <2>2, <3>2 DEF Eligible
      <4>2. Priority[r] \in Levels /\ r \in Level(Priority[r]) /\ Priority[r] <= p
        BY <2>1, <4>1, EligibleLevel, FoundIsHighest DEF CInv
      <4>3. Priority[r] \in Levels \ {p}  BY <3>1, <4>1, <4>2
      <4>4. ~(Priority[r] > p)  BY <1>0, <4>2
      <4>. QED BY <2>4, <4>2, <4>3, <4>4 DEF FirstFrom
    <3>. QED BY <3>2 DEF SearchedFirst
  <2>. QED BY <2>1, <2>3, <2>4
<1>8. ASSUME NEW q \in Queues, CreateQueue(q) PROVE SearchedFirst'
  <2>1. /\ q \notin queue_map /\ queue_map' = queue_map \cup {q}
        /\ UNCHANGED <<marked, blocked, queue, current_priority>>
    BY <1>8 DEF CreateQueue, iterVars
  <2>2. q \notin marked /\ queue[q] = << >>
    BY <2>1, QueueHolds DEF CInv, IInv, TypeOK
  <2>3. \A r \in Queues : Eligible(r)' => Eligible(r)  BY <2>1, <2>2 DEF Eligible
  <2>. QED BY <1>0, <1>1, <2>1, <2>3
<1>9. ASSUME NEW w \in Works, RemoveTimedOut(w) \/ (PopQueue /\ w = cur) PROVE SearchedFirst'
  <2>1. /\ post[w] = "queued" /\ at[w] \in Queues /\ UNCHANGED <<queue_map, marked, blocked>>
        /\ current_priority' = current_priority
        /\ \A q \in Queues : q # at[w] => queue'[q] = queue[q]
    <3>1. post[w] = "queued" /\ at[w] \in Queues
      BY <1>9, TakenFromUnblocked DEF CInv
    <3>2. queue' = [queue EXCEPT ![at[w]] = RemoveFirst(@, w)] \/ queue' = [queue EXCEPT ![at[w]] = Tail(@)]
      BY <1>9 DEF RemoveTimedOut, PopQueue
    <3>3. UNCHANGED <<queue_map, marked, blocked, current_priority>>
      BY <1>9 DEF RemoveTimedOut, PopQueue, iterVars
    <3>4. DOMAIN queue = Queues  BY DEF CInv, IInv, TypeOK
    <3>. QED BY <3>1, <3>2, <3>3, <3>4
  <2>2. queue[at[w]] # << >>  BY <2>1, QueuedWork DEF CInv, IInv
  <2>3. \A q \in Queues : Eligible(q)' => Eligible(q)  BY <2>1, <2>2 DEF Eligible
  <2>. QED BY <1>0, <1>1, <2>1, <2>3
<1>10. CASE PopQueue
  <2>1. cur \in Works  BY <1>10, RunningWork DEF PopQueue, Lockable, CInv, IInv
  <2>. QED BY <1>9, <1>10, <2>1
<1>11. CASE BlockQueue
  <2>1. /\ blocked' = blocked \cup {at[cur]}
        /\ UNCHANGED <<queue_map, marked, queue, current_priority>>
    BY <1>11 DEF BlockQueue
  <2>2. \A q \in Queues : Eligible(q)' => Eligible(q)  BY <2>1 DEF Eligible
  <2>. QED BY <1>0, <1>1, <2>1, <2>2
<1>12. ASSUME NEW c \in Controllers, Clear(c) PROVE SearchedFirst'
  BY <1>12 DEF Clear, SearchedFirst, Eligible
<1>13. CASE Environment
  BY <1>2, <1>4, <1>8, <1>13 DEF Environment, PostWakes, PostBegin, ResourceChanges,
     TimerExpires, StopBegins, StopImmediateBegins, JoinTimesOut, queueVars, iterVars
<1>14. CASE WorkThread
  <2>1. CASE WorkExits \/ WorkIsLost \/ Callback
    BY <1>2, <2>1 DEF WorkExits, WorkIsLost, Callback, queueVars, iterVars
  <2>. QED BY <1>5, <1>6, <1>7, <1>9, <1>10, <1>11, <1>14, <2>1 DEF WorkThread
<1>15. CASE Start \/ TimerExits \/ \E q \in Queues : UnblockQueue(q)
  BY <1>2, <1>15 DEF Start, TimerExits, UnblockQueue, queueVars, iterVars
<1>16. CASE \/ \E w \in Works : Posting(w)
            \/ \E c \in Controllers : Stopping(c)
  BY <1>2, <1>3, <1>12, <1>16 DEF Posting, PostFails, PostWaits, Stopping, Joins, queueVars,
     iterVars
<1> QED BY <1>13, <1>14, <1>15, <1>16 DEF Next

\* An iterator is moved on before its queue leaves the list.
LEMMA IterMoves ==
    ASSUME IInv, ItersValid, NEW p \in Priorities, NEW q \in queue_map \cap Level(p),
           queueIters' = [queueIters EXCEPT ![p] = q], queue_map' = queue_map
    PROVE  ItersValid'
<1>1. ASSUME NEW r \in Priorities
      PROVE  queueIters'[r] \in (queue_map \cap Level(r)) \cup {NoQueue, "dangling"}
  <2>1. queueIters'[r] = IF r = p THEN q ELSE queueIters[r]  BY DEF IInv, TypeOK
  <2>. QED BY <2>1 DEF ItersValid
<1> QED BY <1>1 DEF ItersValid, Level

LEMMA ItersValidStep ==
    ASSUME IInv, IInv', ItersValid, Next
    PROVE  ItersValid'
<1>1. CASE queue_map \subseteq queue_map' /\ queueIters' = queueIters
  BY <1>1 DEF ItersValid, Level
<1>2. ASSUME NEW p \in Priorities, NEW q \in Queues, RunWork(p, q) PROVE ItersValid'
  <2>1. q \in queue_map \cap Level(p) /\ queue_map' = queue_map
        /\ queueIters' = [queueIters EXCEPT ![p] = q]
    BY <1>2 DEF RunWork, IsNext, Eligible, queueVars
  <2>. QED BY <2>1, IterMoves
<1>3. ASSUME NEW q \in queue_map, queueIters' = AdvanceFrom(q), queue_map' = queue_map
      PROVE  ItersValid'
  <2>1. NextCycle(work_queues[Priority[q]], q) \in queue_map \cap Level(Priority[q])
    BY SuccessorType DEF IInv, ListsOK
  <2>2. Priority[q] \in Priorities  BY DEF IInv, TypeOK, Priorities
  <2>. QED BY <1>3, <2>1, <2>2, IterMoves DEF AdvanceFrom
<1>4. CASE PopQueue \/ BlockQueue
  <2>1. at[cur] \in queue_map
    BY <1>4, RunningWork DEF PopQueue, BlockQueue, Lockable, IInv
  <2>. QED BY <1>3, <1>4, <2>1 DEF PopQueue, BlockQueue
<1>5. ASSUME NEW p \in Priorities, NEW q \in Queues, RemoveQueueInternal(p, q)
      PROVE  ItersValid'
  <2> DEFINE left == RemoveFirst(work_queues[p], q)
             next == NextCycle(work_queues[p], q)
  <2>1. /\ q \in queue_map \cap Level(p) /\ queue_map' = queue_map \ {q}
        /\ queueIters' = [queueIters EXCEPT ![p] = IF left = << >> THEN NoQueue ELSE next]
    BY <1>5 DEF RemoveQueueInternal, IsNext, Eligible
  <2>2. work_queues[p] \in Seq(Queues) /\ IsListOf(work_queues[p], queue_map \cap Level(p))
    BY DEF IInv, TypeOK, ListsOK, LevelsListed
  <2>3. left # << >> => next \in (queue_map \cap Level(p)) \ {q}
    <3>1. /\ left \in Seq(Queues) /\ IsListOf(left, (queue_map \cap Level(p)) \ {q})
          /\ next \in queue_map \cap Level(p)
      BY <2>1, <2>2, ListRemove, ListPosition
    <3>2. left # << >> => (queue_map \cap Level(p)) \ {q} # {}
      <4> HIDE DEF left
      <4>. QED BY <3>1, ListEmpty
    <3>3. ASSUME NEW r \in (queue_map \cap Level(p)) \ {q} PROVE next # q
      <4>1. /\ Position(work_queues[p], q) \in 1 .. Len(work_queues[p])
            /\ work_queues[p][Position(work_queues[p], q)] = q
            /\ Position(work_queues[p], r) \in 1 .. Len(work_queues[p])
            /\ work_queues[p][Position(work_queues[p], r)] = r
        BY <2>1, <2>2, ListPosition
      <4>2. /\ Len(work_queues[p]) \in Nat /\ DOMAIN work_queues[p] = 1 .. Len(work_queues[p])
            /\ IsInjective(work_queues[p])
        BY <2>2, LenProperties DEF IsListOf
      <4>. QED BY <3>3, <4>1, <4>2 DEF NextCycle, IsInjective
    <3>. QED BY <3>1, <3>2, <3>3
  <2>4. ASSUME NEW r \in Priorities, r # p
        PROVE  queueIters'[r] = queueIters[r] /\ q \notin Level(r)
    BY <2>1, <2>4 DEF Level, IInv, TypeOK
  <2>5. queueIters'[p] = IF left = << >> THEN NoQueue ELSE next
    BY <2>1 DEF IInv, TypeOK
  <2> HIDE DEF left, next
  <2>6. ASSUME NEW r \in Priorities
        PROVE  queueIters'[r] \in (queue_map' \cap Level(r)) \cup {NoQueue, "dangling"}
    BY <2>1, <2>3, <2>4, <2>5 DEF ItersValid
  <2>. QED BY <2>6 DEF ItersValid, Level
<1>6. ASSUME NEW c \in Controllers, Clear(c) PROVE ItersValid'
  BY <1>6 DEF Clear, ItersValid
<1>7. CASE Environment
  BY <1>1, <1>7 DEF Environment, PostWakes, PostBegin, CreateQueue, RemoveQueue, ResourceChanges,
     TimerExpires, StopBegins, StopImmediateBegins, JoinTimesOut, queueVars, iterVars
<1>8. CASE WorkThread
  <2>1. CASE WorkUnblocks \/ WorkExits \/ WorkIsLost \/ Callback
    BY <1>1, <2>1 DEF WorkUnblocks, WorkExits, WorkIsLost, Callback, queueVars, iterVars
  <2>2. ASSUME NEW w \in Works, RemoveTimedOut(w) PROVE ItersValid'
    BY <1>1, <2>2 DEF RemoveTimedOut, iterVars
  <2>. QED BY <1>2, <1>4, <1>5, <1>8, <2>1, <2>2 DEF WorkThread
<1>9. CASE Start \/ TimerExits \/ \E q \in Queues : UnblockQueue(q)
  BY <1>1, <1>9 DEF Start, TimerExits, UnblockQueue, queueVars, iterVars
<1>10. CASE \/ \E w \in Works : Posting(w)
            \/ \E c \in Controllers : Stopping(c)
  BY <1>1, <1>6, <1>10 DEF Posting, PostFails, PostWaits, PostInserts, Stopping, Joins,
     queueVars, iterVars
<1> QED BY <1>7, <1>8, <1>9, <1>10 DEF Next

\* Only clear() leaves an iterator behind, and who cleared stays done.
LEMMA DanglingStep ==
    ASSUME IInv, IInv', ItersValid, DanglingOnlyCleared, Next
    PROVE  DanglingOnlyCleared'
<1>1. CASE /\ \A p \in Priorities : queueIters'[p] = "dangling" => queueIters[p] = "dangling"
           /\ \A c \in Controllers : ctl[c] = "done" => ctl'[c] = "done"
  BY <1>1 DEF DanglingOnlyCleared
<1>2. CASE UNCHANGED <<queueIters, ctl>>
  BY <1>1, <1>2
<1>3. ASSUME ctl' = ctl, NEW p \in Priorities, NEW i \in Queues \cup {NoQueue},
             queueIters' = [queueIters EXCEPT ![p] = i]
      PROVE  DanglingOnlyCleared'
  <2>1. i # "dangling"  BY QueuesAssumption
  <2>2. \A r \in Priorities : queueIters'[r] = IF r = p THEN i ELSE queueIters[r]
    BY <1>3 DEF IInv, TypeOK
  <2>. QED BY <1>1, <1>3, <2>1, <2>2
<1>4. ASSUME NEW p \in Priorities, NEW q \in Queues, RunWork(p, q) PROVE DanglingOnlyCleared'
  BY <1>3, <1>4 DEF RunWork
<1>5. ASSUME NEW p \in Priorities, NEW q \in Queues, RemoveQueueInternal(p, q)
      PROVE  DanglingOnlyCleared'
  <2>1. q \in queue_map /\ Priority[q] = p /\ ctl' = ctl
    BY <1>5 DEF RemoveQueueInternal, IsNext, Eligible, Level
  <2>2. NextCycle(work_queues[p], q) \in Queues
    BY <2>1, SuccessorType DEF IInv, ListsOK, Level
  <2>3. \/ queueIters' = [queueIters EXCEPT ![p] = NoQueue]
        \/ queueIters' = [queueIters EXCEPT ![p] = NextCycle(work_queues[p], q)]
    BY <1>5 DEF RemoveQueueInternal
  <2>. QED BY <1>3, <2>1, <2>2, <2>3
<1>6. CASE PopQueue \/ BlockQueue
  <2>1. at[cur] \in queue_map /\ ctl' = ctl /\ queueIters' = AdvanceFrom(at[cur])
    BY <1>6, RunningWork DEF PopQueue, BlockQueue, Lockable, IInv
  <2>2. /\ Priority[at[cur]] \in Priorities
        /\ NextCycle(work_queues[Priority[at[cur]]], at[cur]) \in Queues
    BY <2>1, SuccessorType DEF IInv, ListsOK, Level
  <2>. QED BY <1>3, <2>1, <2>2 DEF AdvanceFrom
<1>7. ASSUME NEW c \in Controllers, Clear(c) PROVE DanglingOnlyCleared'
  <2>1. ctl'[c] = "done"  BY <1>7 DEF Clear, IInv, TypeOK
  <2>. QED BY <2>1 DEF DanglingOnlyCleared
<1>8. ASSUME NEW c \in Controllers,
             StopBegins(c) \/ StopImmediateBegins(c) \/ Joins(c) \/ JoinTimesOut(c)
      PROVE  DanglingOnlyCleared'
  <2>1. queueIters' = queueIters /\ ctl[c] # "done"
    BY <1>8 DEF StopBegins, StopImmediateBegins, MayStop, Joins, JoinTimesOut, iterVars
  <2>2. PICK s : ctl' = [ctl EXCEPT ![c] = s]
    BY <1>8 DEF StopBegins, StopImmediateBegins, Joins, JoinTimesOut
  <2>3. \A d \in Controllers \ {c} : ctl'[d] = ctl[d]  BY <2>2 DEF IInv, TypeOK
  <2>. QED BY <1>1, <2>1, <2>3
<1>9. CASE Environment
  BY <1>2, <1>8, <1>9 DEF Environment, PostWakes, PostBegin, CreateQueue, RemoveQueue,
     ResourceChanges, TimerExpires, iterVars
<1>10. CASE WorkThread
  <2>1. CASE WorkUnblocks \/ WorkExits \/ WorkIsLost \/ Callback
    BY <1>2, <2>1 DEF WorkUnblocks, WorkExits, WorkIsLost, Callback, iterVars
  <2>2. ASSUME NEW w \in Works, RemoveTimedOut(w) PROVE DanglingOnlyCleared'
    BY <1>2, <2>2 DEF RemoveTimedOut, iterVars
  <2>. QED BY <1>4, <1>5, <1>6, <1>10, <2>1, <2>2 DEF WorkThread
<1>11. CASE Start \/ TimerExits \/ \E q \in Queues : UnblockQueue(q)
  BY <1>2, <1>11 DEF Start, TimerExits, UnblockQueue, iterVars
<1>12. CASE \/ \E w \in Works : Posting(w)
            \/ \E c \in Controllers : Stopping(c)
  BY <1>2, <1>7, <1>8, <1>12 DEF Posting, PostFails, PostWaits, PostInserts, Stopping, iterVars
<1> QED BY <1>9, <1>10, <1>11, <1>12 DEF Next

\* The work thread finds work whenever its counters say there is some, through an
\* iterator that is valid, and is not in a callback when the lists are cleared.
SearchInv == /\ SearchedFirst /\ ItersValid /\ DanglingOnlyCleared
             /\ worker \notin {"spin", "undefined"}

LEMMA SearchEnds ==
    ASSUME CInv, StopsInTurn, SearchInv, MayPick
    PROVE  /\ \E p \in Priorities, q \in Queues : IsNext(p, q)
           /\ \A p \in Priorities : queueIters[p] # "dangling"
<1>1. Alive /\ worker = "wait" /\ ~MustStop
      /\ (state # "STARTED" \/ total_marked > 0 \/ unblocked_work > 0)
  BY DEF MayPick, MayRun, Lockable
<1>2. total_marked > 0 \/ unblocked_work > 0
  <2>1. state # "PRESTART"  BY <1>1 DEF CInv, IInv, NotStarted
  <2>2. state = "STARTED" \/ unblocked_work # 0
    BY <1>1, <2>1 DEF MustStop, CInv, IInv, TypeOK, HandlerStates
  <2>. QED BY <1>1, <2>2, SizeAssumption DEF CInv, IInv, TypeOK
<1>3. \E q \in Queues : Eligible(q)  BY <1>2, CountersTell
<1>4. \A c \in Controllers : ctl[c] # "done"
  BY <1>1 DEF StopsInTurn, Joined
<1> QED BY <1>3, <1>4, SearchFinds DEF SearchInv, DanglingOnlyCleared

LEMMA WorkerFineStep ==
    ASSUME CInv, StopsInTurn, SearchInv, Next
    PROVE  worker' \notin {"spin", "undefined"}
<1>1. CASE worker' \in {worker, "wait", "exit", "call", "failed", "succeeded", "purge"}
  BY <1>1 DEF SearchInv
<1>2. ~WorkIsLost
  BY SearchEnds DEF WorkIsLost
<1>3. ASSUME NEW c \in Controllers, Clear(c) PROVE worker' = worker
  <2>1. /\ ctl[c] \in {"finish", "clear"} /\ Alive
        /\ worker' = IF cur = NoWork THEN worker ELSE "undefined"
    BY <1>3 DEF Clear, Lockable
  <2>2. worker \in {"off", "exit"}  BY <2>1 DEF StopsInTurn, Joined
  <2>3. cur = NoWork  BY <2>1, <2>2 DEF CInv, IInv, ListsOK, RunningIsFirst
  <2>. QED BY <2>1, <2>3
<1>4. CASE Environment
  BY <1>1, <1>4 DEF Environment, PostWakes, PostBegin, CreateQueue, RemoveQueue, ResourceChanges,
     TimerExpires, StopBegins, StopImmediateBegins, JoinTimesOut, workVars
<1>5. CASE WorkThread
  BY <1>1, <1>2, <1>5 DEF WorkThread, WorkUnblocks, WorkExits, Callback, PopQueue, BlockQueue,
     RemoveTimedOut, RunWork, RemoveQueueInternal, workVars
<1>6. CASE Start \/ TimerExits \/ \E q \in Queues : UnblockQueue(q)
  BY <1>1, <1>6 DEF Start, TimerExits, UnblockQueue, workVars
<1>7. CASE \/ \E w \in Works : Posting(w)
           \/ \E c \in Controllers : Stopping(c)
  BY <1>1, <1>3, <1>7 DEF Posting, PostFails, PostWaits, PostInserts, Stopping, Joins, workVars
<1> QED BY <1>4, <1>5, <1>6, <1>7 DEF Next

\* All that the search depends on: counters, stops in turn, and itself.
SInv == CInv /\ StopsInTurn /\ SerialStops /\ SearchInv

LEMMA SInvInit == Discipline /\ SerialStops /\ Init => SInv
<1>. SUFFICES ASSUME Discipline, SerialStops, Init PROVE SInv
  OBVIOUS
<1>1. CInv  BY CInvInit
<1>2. StopsInTurn  BY DEF Init, StopsInTurn, Joined
<1>3. SearchedFirst
  <2>1. \A q \in Queues : ~Eligible(q)  BY DEF Init, Eligible
  <2>. QED BY <2>1 DEF SearchedFirst
<1>4. ItersValid /\ DanglingOnlyCleared /\ worker \notin {"spin", "undefined"}
  BY QueuesAssumption DEF Init, ItersValid, DanglingOnlyCleared
<1> QED BY <1>1, <1>2, <1>3, <1>4 DEF SInv, SearchInv

LEMMA SInvStep == SInv /\ [Next]_vars => SInv'
<1>. SUFFICES ASSUME SInv, [Next]_vars PROVE SInv'
  OBVIOUS
<1>1. CInv'  BY CInvStep DEF SInv
<1>2. CASE Next
  <2>1. StopsInTurn'  BY <1>2, StopsInTurnStep DEF SInv, CInv
  <2>2. SearchedFirst'  BY <1>1, <1>2, SearchedFirstStep DEF SInv, SearchInv
  <2>3. ItersValid' /\ DanglingOnlyCleared'
    BY <1>1, <1>2, ItersValidStep, DanglingStep DEF SInv, SearchInv, CInv
  <2>4. worker' \notin {"spin", "undefined"}  BY <1>2, WorkerFineStep DEF SInv
  <2>. QED BY <1>1, <2>1, <2>2, <2>3, <2>4 DEF SInv, SearchInv
<1>3. CASE UNCHANGED vars
  <2>1. StopsInTurn'
    BY <1>3 DEF SInv, StopsInTurn, Joined, vars, workVars
  <2>2. SearchInv'
    BY <1>3 DEF SInv, SearchInv, SearchedFirst, Eligible, ItersValid, DanglingOnlyCleared, Level,
                vars, queueVars, iterVars, workVars
  <2>. QED BY <1>1, <2>1, <2>2 DEF SInv
<1> QED BY <1>2, <1>3

\* Among posts, callbacks, expiries, blocked, unblocked and removed queues,
\* get_next_queue_with_work always ends with a queue that exists, from an iterator
\* that is valid, and no work of a level is above current_priority, if callers keep
\* the discipline and stop one at a time.
THEOREM WorkerNotLostCorrect == Discipline /\ SerialStops /\ Spec => []WorkerNotLost
<1>1. Discipline /\ SerialStops /\ Init => SInv  BY SInvInit
<1>2. SInv /\ [Next]_vars => SInv'  BY SInvStep
<1>3. SInv => WorkerNotLost
  <2>. SUFFICES ASSUME SInv, NEW p \in Levels, HasMore(p) PROVE p <= current_priority
    BY DEF WorkerNotLost, SInv, SearchInv
  <2>1. p \in Priorities  BY DEF Levels
  <2>2. PICK q \in Level(p) : Eligible(q)  BY <2>1, CountersTell DEF SInv
  <2>. QED BY <2>2 DEF Level, SInv, SearchInv, SearchedFirst
<1> QED BY <1>1, <1>2, <1>3, PTL DEF Spec

--------------------------------------------------------------------------------
(* The contract of HandlerContract, step by step: pending is queue, running   *)
(* is cur.  All other steps leave the three variables alone.                 *)

Stutter == UNCHANGED <<queue, cur, blocked>>

LEMMA ContractAccept ==
    ASSUME SInv, NEW w \in Works, PostInserts(w)
    PROVE  Contract!Accept(w, at[w]) /\ at[w] \in Queues
<1>1. /\ at[w] \in Queues /\ post[w] = "entering" /\ UNCHANGED <<cur, blocked>>
      /\ queue' = [queue EXCEPT ![at[w]] = Append(@, w)]
  BY DEF PostInserts, workVars, SInv, CInv, IInv, TypeOK
<1>2. \A q \in Queues : w \notin Contract!Range(queue[q])
  <2>1. ASSUME NEW q \in Queues PROVE w \notin Contract!Range(queue[q])
    <3>1. ToSet(queue[q]) = QueuedIn({q}) /\ queue[q] \in Seq(Works)
      BY DEF SInv, CInv, IInv, TypeOK, ListsOK, QueuesListed, IsListOf
    <3>2. Contract!Range(queue[q]) = ToSet(queue[q])  BY DEF Contract!Range, ToSet
    <3>. QED BY <1>1, <3>1, <3>2 DEF QueuedIn
  <2>. QED BY <2>1
<1> QED BY <1>1, <1>2 DEF Contract!Accept, Contract!Holds

LEMMA ContractBegin ==
    ASSUME SInv, NEW p \in Priorities, NEW q \in Queues, RunWork(p, q)
    PROVE  Contract!Begin(q)
<1>1. /\ IsNext(p, q) /\ queue[q] # << >> /\ cur' = Head(queue[q])
      /\ UNCHANGED <<queue, blocked>> /\ Alive /\ worker = "wait"
  BY DEF RunWork, MayPick, MayRun, Lockable, queueVars
<1>2. cur = NoWork  BY <1>1 DEF SInv, CInv, IInv, ListsOK, RunningIsFirst
<1>3. q \notin blocked /\ Priority[q] = p  BY <1>1 DEF IsNext, Eligible, Level
<1>4. ASSUME NEW r \in Queues \ blocked, queue[r] # << >> PROVE Priority[r] <= Priority[q]
  <2>1. Eligible(r)  BY <1>4, QueueHolds DEF Eligible, SInv, CInv
  <2>. QED BY <1>1, <1>3, <2>1, FoundIsHighest DEF SInv, SearchInv
<1> QED BY <1>1, <1>2, <1>3, <1>4 DEF Contract!Begin

LEMMA ContractEnds ==
    ASSUME SInv
    PROVE  /\ PopQueue => Contract!Complete(at[cur]) /\ at[cur] \in Queues
           /\ BlockQueue => Contract!Block(at[cur]) /\ at[cur] \in Queues
<1>1. ASSUME PopQueue \/ BlockQueue
      PROVE  /\ at[cur] \in Queues /\ cur # NoWork /\ cur = Head(queue[at[cur]])
             /\ queue[at[cur]] # << >>
  <2>1. /\ cur \in Works /\ post[cur] = "queued" /\ at[cur] \in Queues
        /\ cur = Head(queue[at[cur]])
    BY <1>1, RunningWork DEF PopQueue, BlockQueue, Lockable, SInv, CInv, IInv
  <2>. QED BY <2>1, QueuedWork, QueuesAssumption DEF SInv, CInv, IInv
<1>2. PopQueue => Contract!Complete(at[cur])
  BY <1>1 DEF PopQueue, Contract!Complete
<1>3. BlockQueue => Contract!Block(at[cur])
  BY <1>1 DEF BlockQueue, Contract!Block
<1> QED BY <1>1, <1>2, <1>3

LEMMA ContractExpire ==
    ASSUME SInv, NEW w \in Works, RemoveTimedOut(w)
    PROVE  Contract!Expire(w, at[w]) /\ at[w] \in Queues
<1>1. /\ post[w] = "queued" /\ at[w] \in Queues
  BY TakenFromUnblocked DEF SInv, CInv
<1>2. /\ queue' = [queue EXCEPT ![at[w]] = RemoveFirst(@, w)] /\ UNCHANGED <<cur, blocked>>
      /\ Alive /\ worker \in {"wait", "purge"}
  BY DEF RemoveTimedOut, MayRun, Lockable
<1>3. cur = NoWork  BY <1>2 DEF SInv, CInv, IInv, ListsOK, RunningIsFirst
<1>4. w \in Contract!Range(queue[at[w]])
  <2>1. ToSet(queue[at[w]]) = QueuedIn({at[w]})
    BY <1>1 DEF SInv, CInv, IInv, ListsOK, QueuesListed, IsListOf
  <2>2. Contract!Range(queue[at[w]]) = ToSet(queue[at[w]])  BY DEF Contract!Range, ToSet
  <2>. QED BY <1>1, <2>1, <2>2 DEF QueuedIn
<1>5. Contract!RemoveFirst(queue[at[w]], w) = RemoveFirst(queue[at[w]], w)
  BY DEF RemoveFirst, Contract!RemoveFirst, SelectInSeq, Contract!SelectInSeq, RemoveAt,
         Contract!RemoveAt, Min, Contract!Min
<1> QED BY <1>1, <1>2, <1>3, <1>4, <1>5, QueuesAssumption DEF Contract!Expire, Contract!Holds

LEMMA ContractDrop ==
    ASSUME SInv, NEW c \in Controllers, Clear(c)
    PROVE  Contract!DropAll
<1>1. /\ ctl[c] \in {"finish", "clear"} /\ Alive /\ cur' = cur /\ blocked' = {}
      /\ queue' = [q \in Queues |-> << >>]
  BY DEF Clear, Lockable
<1>2. worker \in {"off", "exit"}  BY <1>1 DEF SInv, StopsInTurn, Joined
<1>3. cur = NoWork  BY <1>1, <1>2 DEF SInv, CInv, IInv, ListsOK, RunningIsFirst
<1> QED BY <1>1, <1>3 DEF Contract!DropAll

\* Every step of the handler is one of the contract, or none.
LEMMA ContractStep == SInv /\ [Next]_vars => [Contract!Next]_(Contract!vars)
<1>. SUFFICES ASSUME SInv, [Next]_vars PROVE Contract!Next \/ Stutter
  BY DEF Stutter, Contract!vars
<1>1. ASSUME NEW w \in Works, PostInserts(w) \/ RemoveTimedOut(w) PROVE Contract!Next
  BY <1>1, ContractAccept, ContractExpire DEF Contract!Next
<1>2. ASSUME NEW p \in Priorities, NEW q \in Queues, RunWork(p, q) PROVE Contract!Next
  BY <1>2, ContractBegin DEF Contract!Next
<1>3. CASE PopQueue \/ BlockQueue
  BY <1>3, ContractEnds DEF Contract!Next
<1>4. CASE WorkUnblocks
  <2> DEFINE freed == unblock_list \cap blocked \cap queue_map
  <2>1. blocked' = blocked \ freed /\ UNCHANGED <<queue, cur>> /\ freed \in SUBSET Queues
    BY <1>4 DEF WorkUnblocks, workVars, SInv, CInv, IInv, TypeOK
  <2> HIDE DEF freed
  <2>2. Contract!Unblock(freed)  BY <2>1 DEF Contract!Unblock
  <2>. QED BY <2>1, <2>2 DEF Contract!Next
<1>5. ASSUME NEW c \in Controllers, Clear(c) PROVE Contract!Next
  BY <1>5, ContractDrop DEF Contract!Next
<1>6. CASE Environment
  BY <1>6 DEF Environment, PostWakes, PostBegin, CreateQueue, RemoveQueue, ResourceChanges,
     TimerExpires, StopBegins, StopImmediateBegins, JoinTimesOut, queueVars, workVars, Stutter
<1>7. CASE WorkThread
  <2>1. CASE WorkExits \/ WorkIsLost \/ Callback
    BY <2>1 DEF WorkExits, WorkIsLost, Callback, queueVars, Stutter
  <2>2. ASSUME NEW p \in Priorities, NEW q \in Queues, RemoveQueueInternal(p, q) PROVE Stutter
    BY <2>2 DEF RemoveQueueInternal, workVars, Stutter
  <2>. QED BY <1>1, <1>2, <1>3, <1>4, <1>7, <2>1, <2>2 DEF WorkThread
<1>8. CASE Start \/ TimerExits \/ \E q \in Queues : UnblockQueue(q)
  BY <1>8 DEF Start, TimerExits, UnblockQueue, queueVars, workVars, Stutter
<1>9. CASE \/ \E w \in Works : Posting(w)
           \/ \E c \in Controllers : Stopping(c)
  BY <1>1, <1>5, <1>9 DEF Posting, PostFails, PostWaits, Stopping, Joins, queueVars, workVars,
     Stutter
<1>10. CASE UNCHANGED vars
  BY <1>10 DEF vars, queueVars, workVars, Stutter
<1> QED BY <1>6, <1>7, <1>8, <1>9, <1>10 DEF Next

\* The handler keeps what Handler.h promises: queues are first in, first out; the work
\* that runs is the first of a queue not blocked, with no work before it of higher
\* priority; each accepted work is taken out once, after its callback, because it
\* expired while it did not run, or when the handler is cleared and nothing runs.
THEOREM ContractHoldsCorrect == Discipline /\ SerialStops /\ Spec => ContractHolds
<1>1. Discipline /\ SerialStops /\ Init => SInv  BY SInvInit
<1>2. SInv /\ [Next]_vars => SInv'  BY SInvStep
<1>3. Init => Contract!Init  BY DEF Init, Contract!Init
<1>4. SInv /\ [Next]_vars => [Contract!Next]_(Contract!vars)  BY ContractStep
<1> QED BY <1>1, <1>2, <1>3, <1>4, PTL DEF Spec, ContractHolds, Contract!Spec

--------------------------------------------------------------------------------
(* Sizes.  They are the sums of what is queued, and size_t never wraps,       *)
(* because what is posted fits: no discipline of the callers is needed.      *)

Bytes(Q) == SumOver(Size, QueuedIn(Q))

SizesInv ==
    /\ \A q \in Queues : size[q] = Bytes({q}) /\ size[q] <= MaxQueueSize
    /\ total_size = Bytes(Queues) /\ total_size <= MaxTotalSize
    /\ \A w \in Works : post[w] # "idle" => Size[w] <= MaxQueueSize /\ Size[w] <= MaxTotalSize

\* Any works have a sum.
LEMMA WorksSum ==
    /\ IsFiniteSet(Works) /\ \A w \in Works : Size[w] \in Nat
    /\ \A S \in SUBSET Works : IsFiniteSet(S) /\ \A w \in S : Size[w] \in Nat
    /\ \A Q : QueuedIn(Q) \in SUBSET Works /\ Bytes(Q) \in Nat
<1>1. IsFiniteSet(Works) /\ \A w \in Works : Size[w] \in Nat
  BY QueuesAssumption, SizeAssumption
<1>2. \A S \in SUBSET Works : IsFiniteSet(S) /\ \A w \in S : Size[w] \in Nat
  BY <1>1, FS_Subset
<1>3. \A Q : QueuedIn(Q) \in SUBSET Works  BY DEF QueuedIn
<1>4. ASSUME NEW Q PROVE Bytes(Q) \in Nat
  BY <1>2, <1>3, SumUnfold DEF Bytes
<1> QED BY <1>1, <1>2, <1>3, <1>4

\* SizesExact says the same with the operator of the community modules.
LEMMA SizesAreSums == SizesInv => SizesExact
<1>1. ASSUME NEW Q PROVE MapThenSumSet(LAMBDA w : Size[w], QueuedIn(Q)) = Bytes(Q)
  <2>1. IsFiniteSet(QueuedIn(Q)) /\ \A w \in QueuedIn(Q) : Size[w] \in Nat  BY WorksSum
  <2>. QED BY <2>1, SumIsMap DEF Bytes
<1> QED BY <1>1 DEF SizesInv, SizesExact

\* Bytes of a set of queues, after a work is posted and after one is taken out.
LEMMA BytesMore ==
    ASSUME TypeOK, NEW w \in Works, PostInserts(w), NEW Q \in SUBSET Queues
    PROVE  Bytes(Q)' = IF at[w] \in Q THEN Bytes(Q) + Size[w] ELSE Bytes(Q)
<1>1. /\ w \notin QueuedIn(Q)
      /\ QueuedIn(Q)' = IF at[w] \in Q THEN QueuedIn(Q) \cup {w} ELSE QueuedIn(Q)
  BY PlacedMore
<1>2. SumOver(Size, QueuedIn(Q) \cup {w}) = SumOver(Size, QueuedIn(Q)) + Size[w]
  BY <1>1, WorksSum, SumAdd
<1> QED BY <1>1, <1>2 DEF Bytes

LEMMA BytesLess ==
    ASSUME TypeOK, NEW w \in Works, post[w] = "queued", TakenOut(w), NEW Q \in SUBSET Queues
    PROVE  /\ Size[w] \in Nat /\ Bytes(Q) \in Nat /\ Bytes(Q)' \in Nat
           /\ at[w] \in Q => Bytes(Q) = Bytes(Q)' + Size[w]
           /\ at[w] \notin Q => Bytes(Q)' = Bytes(Q)
<1>1. QueuedIn(Q)' = QueuedIn(Q) \ {w}  BY PlacedLess
<1>2. w \in QueuedIn(Q) <=> at[w] \in Q  BY DEF QueuedIn
<1>3. Bytes(Q)' = SumOver(Size, QueuedIn(Q) \ {w})  BY <1>1 DEF Bytes
<1>4. QueuedIn(Q) \ {w} \in SUBSET Works  BY WorksSum
<1>5. Size[w] \in Nat /\ Bytes(Q) \in Nat /\ Bytes(Q)' \in Nat
  BY <1>3, <1>4, WorksSum, SumUnfold
<1>6. CASE at[w] \in Q
  <2>1. w \in QueuedIn(Q) /\ IsFiniteSet(QueuedIn(Q))
        /\ \A v \in QueuedIn(Q) : Size[v] \in Nat
    BY <1>2, <1>6, WorksSum
  <2>2. SumOver(Size, QueuedIn(Q)) = SumOver(Size, QueuedIn(Q) \ {w}) + Size[w]
    BY <2>1, SumTake
  <2>. QED BY <1>3, <1>5, <1>6, <2>2 DEF Bytes
<1>7. CASE at[w] \notin Q
  <2>1. QueuedIn(Q) \ {w} = QueuedIn(Q)  BY <1>2, <1>7
  <2>. QED BY <1>3, <1>5, <1>7, <2>1 DEF Bytes
<1> QED BY <1>5, <1>6, <1>7

\* What is being posted fits in an empty queue.
LEMMA PostedFits ==
    ASSUME IInv, SizesInv, Next, NEW w \in Works, post'[w] # "idle"
    PROVE  Size[w] <= MaxQueueSize /\ Size[w] <= MaxTotalSize
<1>1. CASE post[w] # "idle"  BY <1>1 DEF SizesInv
<1>2. ASSUME NEW v \in Works, NEW q \in Queues, PostBegin(v, q)
      PROVE  v = w \/ post[w] # "idle"
  BY <1>2 DEF PostBegin, IInv, TypeOK
<1>3. ASSUME NEW v \in Works, PostWakes(v) \/ Posting(v) PROVE post[w] # "idle"
  BY <1>3 DEF PostWakes, Posting, PostFails, PostWaits, PostInserts, IInv, TypeOK
<1>4. ASSUME NEW v \in Works, TakenOut(v) PROVE post[w] # "idle"
  BY <1>4 DEF TakenOut, NotifyAll, IInv, TypeOK
<1>5. CASE UNCHANGED post  BY <1>1, <1>5
<1>6. CASE Environment
  <2>1. ASSUME NEW v \in Works, NEW q \in Queues, PostBegin(v, q)
        PROVE  Size[w] <= MaxQueueSize /\ Size[w] <= MaxTotalSize
    BY <1>1, <1>2, <2>1 DEF PostBegin
  <2>. QED BY <1>1, <1>3, <1>5, <1>6, <2>1 DEF Environment, CreateQueue, RemoveQueue,
       ResourceChanges, TimerExpires, StopBegins, StopImmediateBegins, JoinTimesOut, postVars
<1>7. CASE WorkThread
  <2>1. CASE WorkUnblocks \/ WorkExits \/ WorkIsLost \/ Callback \/ BlockQueue
    BY <1>5, <2>1 DEF WorkUnblocks, WorkExits, WorkIsLost, Callback, BlockQueue, postVars
  <2>2. CASE PopQueue
    BY <1>1, <1>4, <2>2, RunningWork DEF PopQueue, Lockable, IInv
  <2>3. ASSUME NEW v \in Works, RemoveTimedOut(v) PROVE post[w] # "idle"
    BY <1>4, <2>3 DEF RemoveTimedOut
  <2>4. ASSUME NEW p \in Priorities, NEW q \in Queues, RunWork(p, q) \/ RemoveQueueInternal(p, q)
        PROVE  UNCHANGED post
    BY <2>4 DEF RunWork, RemoveQueueInternal, postVars
  <2>. QED BY <1>1, <1>5, <1>7, <2>1, <2>2, <2>3, <2>4 DEF WorkThread
<1>8. CASE Start \/ TimerExits \/ \E q \in Queues : UnblockQueue(q)
  BY <1>5, <1>8 DEF Start, TimerExits, UnblockQueue, postVars
<1>9. CASE \E c \in Controllers : Stopping(c)
  BY <1>1, <1>5, <1>9 DEF Stopping, Joins, Clear, postVars
<1> QED BY <1>1, <1>3, <1>6, <1>7, <1>8, <1>9 DEF Next

SizesNow ==
    /\ \A q \in Queues : size[q] = Bytes({q}) /\ size[q] <= MaxQueueSize
    /\ total_size = Bytes(Queues) /\ total_size <= MaxTotalSize

LEMMA SizesInserts ==
    ASSUME IInv, SizesInv, NEW w \in Works, PostInserts(w)
    PROVE  SizesNow'
<1>1. /\ at[w] \in Queues /\ post[w] = "entering" /\ Fits(w)
      /\ size' = [size EXCEPT ![at[w]] = Plus(@, Size[w])]
      /\ total_size' = Plus(total_size, Size[w])
  BY DEF PostInserts, IInv, TypeOK
<1>2. /\ Size[w] <= MaxQueueSize /\ Size[w] <= MaxTotalSize /\ Size[w] \in Nat
      /\ total_size \in Nat /\ total_size <= MaxTotalSize
      /\ \A q \in Queues : size[q] \in Nat /\ size[q] <= MaxQueueSize
      /\ \A q \in Queues : size[q] = Bytes({q})
      /\ total_size = Bytes(Queues)
  BY <1>1, WorksSum DEF SizesInv
<1>3. /\ Plus(total_size, Size[w]) = total_size + Size[w]
      /\ \A q \in Queues : Plus(size[q], Size[w]) = size[q] + Size[w]
  BY <1>2, SizeAssumption DEF Plus
<1>4. total_size' = Bytes(Queues)' /\ total_size' <= MaxTotalSize
  <2>1. Bytes(Queues)' = Bytes(Queues) + Size[w]
    <3>1. Queues \in SUBSET Queues  OBVIOUS
    <3>. QED BY <1>1, <3>1, BytesMore DEF IInv
  <2>. QED BY <1>1, <1>2, <1>3, <2>1 DEF Fits
<1>5. ASSUME NEW q \in Queues PROVE size'[q] = Bytes({q})' /\ size'[q] <= MaxQueueSize
  <2>1. Bytes({q})' = IF at[w] = q THEN Bytes({q}) + Size[w] ELSE Bytes({q})
    <3>1. {q} \in SUBSET Queues /\ (at[w] \in {q} <=> at[w] = q)  OBVIOUS
    <3>. QED BY <3>1, BytesMore DEF IInv
  <2>2. size'[q] = IF at[w] = q THEN Plus(size[q], Size[w]) ELSE size[q]
    BY <1>1 DEF IInv, TypeOK
  <2>. QED BY <1>1, <1>2, <1>3, <2>1, <2>2 DEF Fits
<1> QED BY <1>4, <1>5 DEF SizesNow

LEMMA SizesTakenOut ==
    ASSUME IInv, SizesInv, NEW w \in Works, post[w] = "queued", TakenOut(w)
    PROVE  SizesNow'
<1>1. /\ at[w] \in Queues
      /\ size' = [size EXCEPT ![at[w]] = Minus(size[at[w]], Size[w])]
      /\ total_size' = Minus(total_size, Size[w])
  BY QueuedWork DEF TakenOut, SizeWithout, IInv
<1>2. /\ MaxQueueSize \in Nat /\ MaxTotalSize \in Nat
      /\ total_size = Bytes(Queues) /\ total_size <= MaxTotalSize
      /\ \A q \in Queues : size[q] = Bytes({q}) /\ size[q] <= MaxQueueSize
  BY SizeAssumption DEF SizesInv
<1>3. total_size' = Bytes(Queues)' /\ total_size' <= MaxTotalSize
  <2>1. /\ Size[w] \in Nat /\ Bytes(Queues)' \in Nat
        /\ Bytes(Queues) = Bytes(Queues)' + Size[w]
    <3>1. Queues \in SUBSET Queues  OBVIOUS
    <3>. QED BY <1>1, <3>1, BytesLess DEF IInv
  <2>. QED BY <1>1, <1>2, <2>1 DEF Minus
<1>4. ASSUME NEW q \in Queues PROVE size'[q] = Bytes({q})' /\ size'[q] <= MaxQueueSize
  <2>1. /\ Size[w] \in Nat /\ Bytes({q})' \in Nat
        /\ at[w] = q => Bytes({q}) = Bytes({q})' + Size[w]
        /\ at[w] # q => Bytes({q})' = Bytes({q})
    <3>1. {q} \in SUBSET Queues /\ (at[w] \in {q} <=> at[w] = q)  OBVIOUS
    <3>. QED BY <3>1, BytesLess DEF IInv
  <2>2. size'[q] = IF at[w] = q THEN Minus(size[q], Size[w]) ELSE size[q]
    BY <1>1 DEF IInv, TypeOK
  <2>. QED BY <1>1, <1>2, <2>1, <2>2 DEF Minus
<1> QED BY <1>3, <1>4 DEF SizesNow

\* Emptied or unused queues have no size.
LEMMA SizeOfNothing ==
    ASSUME NEW Q, QueuedIn(Q) = {}
    PROVE  Bytes(Q) = 0
<1>1. IsFiniteSet({}) /\ \A w \in {} : Size[w] \in Nat  BY FS_EmptySet
<1>2. SumOver(Size, {}) = 0  BY <1>1, SumUnfold
<1> QED BY <1>2 DEF Bytes

\* Four kinds of step change what is queued or its sizes.
SizesKept == /\ UNCHANGED <<size, total_size>>
             /\ \A w \in Works : (post'[w] = "queued" \/ post[w] = "queued")
                                     => post'[w] = post[w] /\ at'[w] = at[w]
LEMMA SizesShape ==
    ASSUME IInv, Next
    PROVE  \/ SizesKept \/ PopQueue
           \/ \E w \in Works : PostInserts(w) \/ RemoveTimedOut(w)
           \/ \E p \in Priorities, q \in Queues : RemoveQueueInternal(p, q)
           \/ \E c \in Controllers : Clear(c)
<1>1. CASE UNCHANGED <<size, total_size, postVars>>
  BY <1>1 DEF SizesKept, postVars
<1>2. ASSUME NEW w \in Works, NEW q \in Queues, PostBegin(w, q) PROVE SizesKept
  BY <1>2 DEF PostBegin, SizesKept, queueVars, countVars, IInv, TypeOK
<1>3. ASSUME NEW w \in Works, Posting(w) \/ PostWakes(w)
      PROVE  PostInserts(w) \/ SizesKept
  BY <1>3 DEF Posting, PostFails, PostWaits, PostWakes, SizesKept, queueVars, countVars,
     IInv, TypeOK
<1>4. CASE Environment
  BY <1>1, <1>2, <1>3, <1>4 DEF Environment, CreateQueue, RemoveQueue, ResourceChanges,
     TimerExpires, StopBegins, StopImmediateBegins, JoinTimesOut, queueVars, countVars
<1>5. CASE WorkThread
  BY <1>1, <1>5 DEF WorkThread, WorkUnblocks, WorkExits, WorkIsLost, Callback, BlockQueue,
     RunWork, queueVars, countVars
<1>6. CASE Start \/ TimerExits \/ \E q \in Queues : UnblockQueue(q)
  BY <1>1, <1>6 DEF Start, TimerExits, UnblockQueue, queueVars, countVars
<1>7. CASE \E c \in Controllers : Stopping(c)
  BY <1>1, <1>7 DEF Stopping, Joins, queueVars, countVars
<1> QED BY <1>3, <1>4, <1>5, <1>6, <1>7 DEF Next

\* remove_queue_internal() finds the size of the empty queue 0 already.
LEMMA SizeOfEmpty ==
    ASSUME IInv, SizesInv, NEW p \in Priorities, NEW q \in Queues, RemoveQueueInternal(p, q)
    PROVE  UNCHANGED <<size, total_size, post, at>>
<1>1. queue[q] = << >> /\ size' = [size EXCEPT ![q] = 0]
      /\ UNCHANGED <<total_size, post, at>>
  BY DEF RemoveQueueInternal, postVars
<1>2. QueuedIn({q}) = {}  BY <1>1, QueueHolds
<1>3. size[q] = 0  BY <1>2, SizeOfNothing DEF SizesInv
<1>4. size' = size  BY <1>1, <1>3 DEF IInv, TypeOK
<1> QED BY <1>1, <1>4

LEMMA SizesInvStep ==
    ASSUME IInv, SizesInv, [Next]_vars
    PROVE  SizesInv'
<1>1. CASE UNCHANGED vars
  BY <1>1 DEF SizesInv, Bytes, QueuedIn, vars, queueVars, countVars, postVars
<1>2. CASE Next
  <2>1. ASSUME SizesKept PROVE SizesNow'
    <3>1. \A Q : QueuedIn(Q)' = QueuedIn(Q)  BY <2>1 DEF SizesKept, QueuedIn
    <3>2. \A Q : Bytes(Q)' = Bytes(Q)  BY <3>1 DEF Bytes
    <3>3. UNCHANGED <<size, total_size>>  BY <2>1 DEF SizesKept
    <3>. QED BY <3>2, <3>3 DEF SizesInv, SizesNow
  <2>2. ASSUME NEW w \in Works, PostInserts(w) PROVE SizesNow'
    BY <2>2, SizesInserts
  <2>3. ASSUME NEW w \in Works, RemoveTimedOut(w) PROVE SizesNow'
    <3>1. post[w] = "queued" /\ TakenOut(w)
      BY <2>3 DEF RemoveTimedOut, IInv, ListsOK, TimersOfQueued, QueuedIn
    <3>. QED BY <3>1, SizesTakenOut
  <2>4. ASSUME PopQueue PROVE SizesNow'
    <3>1. cur \in Works /\ post[cur] = "queued" /\ TakenOut(cur)
      BY <2>4, RunningWork DEF PopQueue, Lockable, IInv
    <3>. QED BY <3>1, SizesTakenOut
  <2>5. ASSUME NEW p \in Priorities, NEW q \in Queues, RemoveQueueInternal(p, q)
        PROVE  SizesNow'
    <3>1. UNCHANGED <<size, total_size, post, at>>  BY <2>5, SizeOfEmpty
    <3>2. \A Q : Bytes(Q)' = Bytes(Q)  BY <3>1 DEF Bytes, QueuedIn
    <3>. QED BY <3>1, <3>2 DEF SizesInv, SizesNow
  <2>6. ASSUME NEW c \in Controllers, Clear(c) PROVE SizesNow'
    <3>1. /\ \A w \in Works : post'[w] # "queued"
          /\ total_size' = 0 /\ \A q \in Queues : size'[q] = 0
      BY <2>6 DEF Clear, IInv, TypeOK
    <3>2. \A Q : QueuedIn(Q)' = {}  BY <3>1 DEF QueuedIn
    <3>3. \A Q : Bytes(Q)' = SumOver(Size, {})  BY <3>2 DEF Bytes
    <3>4. SumOver(Size, {}) = 0
      BY FS_EmptySet, SumUnfold
    <3>. QED BY <3>1, <3>3, <3>4, SizeAssumption DEF SizesNow
  <2>7. SizesNow'
    BY <1>2, <2>1, <2>2, <2>3, <2>4, <2>5, <2>6, SizesShape DEF SizesInv, SizesNow
  <2>8. \A w \in Works : post'[w] # "idle" => Size[w] <= MaxQueueSize /\ Size[w] <= MaxTotalSize
    BY <1>2, PostedFits
  <2>. QED BY <2>7, <2>8 DEF SizesInv, SizesNow
<1> QED BY <1>1, <1>2

\* A handler that is constructed holds nothing.
LEMMA SizesInvInit == Init => SizesInv
<1>. SUFFICES ASSUME Init PROVE SizesInv
  OBVIOUS
<1>1. /\ \A w \in Works : post[w] = "idle"
      /\ total_size = 0 /\ \A q \in Queues : size[q] = 0
  BY DEF Init
<1>2. \A Q : QueuedIn(Q) = {}  BY <1>1 DEF QueuedIn
<1>3. \A Q : Bytes(Q) = 0  BY <1>2, SizeOfNothing
<1> QED BY <1>1, <1>3, SizeAssumption DEF SizesInv

\* The sizes that post() compares with its limits are the sums of the sizes of what
\* is queued, for all callers and limits: size_t never wraps, neither up in a post
\* that fits nor down in a pop or an expiry.
THEOREM SizesCorrect == Spec => []SizesExact
<1>1. Init => IInv /\ SizesInv  BY IInvInit, SizesInvInit
<1>2. (IInv /\ SizesInv) /\ [Next]_vars => (IInv /\ SizesInv)'  BY IInvStep, SizesInvStep
<1>3. IInv /\ SizesInv => SizesExact  BY SizesAreSums
<1> QED BY <1>1, <1>2, <1>3, PTL DEF Spec

--------------------------------------------------------------------------------
(* Waiting posts.  A post waits only for room, sizes go down only where all   *)
(* the waiting posts are woken, and clear() comes after the state changed.    *)

Active == state \in {"PRESTART", "STARTED"}
WaitInv ==
    /\ Active => \A c \in Controllers : ctl[c] = "idle"
    /\ Active => \A w \in Works : post[w] = "waiting" => ~Fits(w)

\* Nothing restarts a handler, and no stop is forgotten.
LEMMA ActiveBack ==
    ASSUME IInv, WaitInv, Next, Active'
    PROVE  Active /\ UNCHANGED ctl
<1> USE DEF Active
<1>1. CASE UNCHANGED <<state, ctl>>  BY <1>1
<1>2. ASSUME NEW c \in Controllers, StopBegins(c) \/ StopImmediateBegins(c) PROVE FALSE
  BY <1>2 DEF StopBegins, StopImmediateBegins
<1>3. ASSUME NEW c \in Controllers, Joins(c) \/ JoinTimesOut(c) \/ Clear(c) PROVE FALSE
  <2>1. ctl[c] # "idle" /\ state' \in {state, "STOPPED"}
    BY <1>3 DEF Joins, JoinTimesOut, Clear
  <2>. QED BY <2>1 DEF WaitInv
<1>4. CASE Start
  BY <1>4 DEF Start
<1>5. CASE Environment
  BY <1>1, <1>2, <1>3, <1>5 DEF Environment, PostWakes, PostBegin, CreateQueue, RemoveQueue,
     ResourceChanges, TimerExpires
<1>6. CASE WorkThread
  <2>1. WorkUnblocks \/ WorkExits \/ WorkIsLost \/ Callback \/ PopQueue \/ BlockQueue
        => UNCHANGED <<state, ctl>>
    BY DEF WorkUnblocks, WorkExits, WorkIsLost, Callback, PopQueue, BlockQueue
  <2>2. \A w : RemoveTimedOut(w) => UNCHANGED <<state, ctl>>  BY DEF RemoveTimedOut
  <2>3. \A p, q : RunWork(p, q) \/ RemoveQueueInternal(p, q) => UNCHANGED <<state, ctl>>
    BY DEF RunWork, RemoveQueueInternal
  <2>. QED BY <1>1, <1>6, <2>1, <2>2, <2>3 DEF WorkThread
<1>7. CASE TimerExits \/ \E q \in Queues : UnblockQueue(q)
  BY <1>1, <1>7 DEF TimerExits, UnblockQueue
<1>8. CASE \E w \in Works : Posting(w)
  BY <1>1, <1>8 DEF Posting, PostFails, PostWaits, PostInserts
<1>9. CASE \E c \in Controllers : Stopping(c)
  BY <1>3, <1>9 DEF Stopping
<1> QED BY <1>4, <1>5, <1>6, <1>7, <1>8, <1>9 DEF Next

\* A step that makes no room and lets nobody else wait.
NoRoomMade == /\ UNCHANGED <<size, total_size>>
              /\ \A w \in Works : post'[w] = "waiting" => post[w] = "waiting" /\ at'[w] = at[w]
LEMMA WaitShape ==
    ASSUME IInv, SizesInv, Next
    PROVE  \/ NoRoomMade
           \/ \E w \in Works : PostInserts(w) \/ PostWaits(w) \/ TakenOut(w)
           \/ \E c \in Controllers : Clear(c)
<1>1. CASE UNCHANGED <<size, total_size, postVars>>
  BY <1>1 DEF NoRoomMade, postVars
<1>2. ASSUME NEW w \in Works, NEW q \in Queues, PostBegin(w, q) PROVE NoRoomMade
  BY <1>2 DEF PostBegin, NoRoomMade, queueVars, countVars, IInv, TypeOK
<1>3. ASSUME NEW w \in Works, PostWakes(w) \/ PostFails(w) PROVE NoRoomMade
  BY <1>3 DEF PostWakes, PostFails, NoRoomMade, queueVars, countVars, IInv, TypeOK
<1>4. CASE Environment
  BY <1>1, <1>2, <1>3, <1>4 DEF Environment, CreateQueue, RemoveQueue, ResourceChanges,
     TimerExpires, StopBegins, StopImmediateBegins, JoinTimesOut, queueVars, countVars
<1>5. CASE WorkThread
  <2>1. CASE PopQueue
    <3>1. cur \in Works /\ TakenOut(cur)
      BY <2>1, RunningWork DEF PopQueue, Lockable, IInv
    <3>. QED BY <3>1
  <2>2. ASSUME NEW p \in Priorities, NEW q \in Queues, RemoveQueueInternal(p, q)
        PROVE  NoRoomMade
    BY <2>2, SizeOfEmpty DEF NoRoomMade
  <2>. QED BY <1>1, <1>5, <2>1, <2>2 DEF WorkThread, WorkUnblocks, WorkExits, WorkIsLost,
       Callback, BlockQueue, RemoveTimedOut, RunWork, queueVars, countVars
<1>6. CASE Start \/ TimerExits \/ \E q \in Queues : UnblockQueue(q)
  BY <1>1, <1>6 DEF Start, TimerExits, UnblockQueue, queueVars, countVars
<1>7. CASE \E w \in Works : Posting(w)
  BY <1>3, <1>7 DEF Posting
<1>8. CASE \E c \in Controllers : Stopping(c)
  BY <1>1, <1>8 DEF Stopping, Joins, queueVars, countVars
<1> QED BY <1>4, <1>5, <1>6, <1>7, <1>8 DEF Next

\* What does not fit does not fit after more work is posted.
LEMMA StillTooLarge ==
    ASSUME IInv, SizesInv, NEW v \in Works, PostInserts(v),
           NEW w \in Works, post'[w] = "waiting", ~Fits(w)
    PROVE  ~Fits(w)'
<1>1. /\ at' = at /\ post[w] = "waiting" /\ at[w] \in Queues
      /\ size' = [size EXCEPT ![at[v]] = Plus(@, Size[v])]
      /\ total_size' = Plus(total_size, Size[v]) /\ Fits(v)
  BY DEF PostInserts, IInv, TypeOK, ListsOK, WorkPlaced
<1>2. /\ post[v] # "idle" /\ at[v] \in Queues
  BY DEF PostInserts, IInv, TypeOK
<1>3. /\ \A x \in {v, w} : /\ Size[x] <= MaxQueueSize /\ Size[x] <= MaxTotalSize
                           /\ Size[x] \in Nat
      /\ total_size \in Nat /\ total_size <= MaxTotalSize
      /\ \A q \in Queues : size[q] \in Nat /\ size[q] <= MaxQueueSize
  BY <1>1, <1>2, WorksSum DEF SizesInv
<1>4. /\ \A x \in {v, w} : Plus(total_size, Size[x]) = total_size + Size[x]
      /\ \A q \in Queues : \A x \in {v, w} : Plus(size[q], Size[x]) = size[q] + Size[x]
  BY <1>3, SizeAssumption DEF Plus
<1>5. total_size' >= total_size /\ total_size' <= MaxTotalSize /\ total_size' \in Nat
  BY <1>1, <1>3, <1>4 DEF Fits
<1>6. size'[at[w]] >= size[at[w]] /\ size'[at[w]] <= MaxQueueSize /\ size'[at[w]] \in Nat
  <2>1. size'[at[w]] = IF at[v] = at[w] THEN Plus(size[at[w]], Size[v]) ELSE size[at[w]]
    BY <1>1 DEF IInv, TypeOK
  <2>. QED BY <1>1, <1>2, <1>3, <1>4, <2>1 DEF Fits
<1>7. /\ Plus(total_size', Size[w]) = total_size' + Size[w]
      /\ Plus(size'[at[w]], Size[w]) = size'[at[w]] + Size[w]
  BY <1>3, <1>5, <1>6, SizeAssumption DEF Plus
<1>8. size[at[w]] + Size[w] > MaxQueueSize \/ total_size + Size[w] > MaxTotalSize
  BY <1>1, <1>3, <1>4, SizeAssumption DEF Fits
<1> QED BY <1>1, <1>3, <1>5, <1>6, <1>7, <1>8, SizeAssumption DEF Fits

LEMMA WaitInvStep ==
    ASSUME IInv, SizesInv, WaitInv, [Next]_vars
    PROVE  WaitInv'
<1>1. CASE UNCHANGED vars
  BY <1>1 DEF WaitInv, Active, Fits, vars, queueVars, countVars, postVars
<1>2. ASSUME Next, Active' PROVE Active /\ UNCHANGED ctl
  BY <1>2, ActiveBack
<1>3. ASSUME Next, Active', NEW w \in Works, post'[w] = "waiting" PROVE ~Fits(w)'
  <2>1. post[w] = "waiting" => ~Fits(w)  BY <1>2, <1>3 DEF WaitInv
  <2>2. CASE NoRoomMade
    BY <1>3, <2>1, <2>2 DEF NoRoomMade, Fits
  <2>3. ASSUME NEW v \in Works, PostInserts(v) PROVE ~Fits(w)'
    <3>1. post[w] = "waiting"  BY <1>3, <2>3 DEF PostInserts, IInv, TypeOK
    <3>. QED BY <1>3, <2>1, <2>3, <3>1, StillTooLarge
  <2>4. ASSUME NEW v \in Works, PostWaits(v) PROVE ~Fits(w)'
    <3>1. v = w \/ post[w] = "waiting"  BY <1>3, <2>4 DEF PostWaits, IInv, TypeOK
    <3>2. ~Fits(w) /\ UNCHANGED <<size, total_size, at>>
      BY <2>1, <2>4, <3>1 DEF PostWaits, queueVars, countVars
    <3>. QED BY <3>2 DEF Fits
  <2>5. ASSUME NEW v \in Works, TakenOut(v) PROVE FALSE
    BY <1>3, <2>5 DEF TakenOut, NotifyAll, IInv, TypeOK
  <2>6. ASSUME NEW c \in Controllers, Clear(c) PROVE FALSE
    <3>1. ctl[c] # "idle"  BY <2>6 DEF Clear
    <3>. QED BY <1>2, <1>3, <3>1 DEF WaitInv
  <2>. QED BY <1>3, <2>2, <2>3, <2>4, <2>5, <2>6, WaitShape
<1>4. ASSUME Next, Active' PROVE \A c \in Controllers : ctl'[c] = "idle"
  BY <1>2, <1>4 DEF WaitInv
<1> QED BY <1>1, <1>3, <1>4 DEF WaitInv

\* While the handler is not stopping, a thread in post() waits only when its work
\* really does not fit: every removal of work wakes it, whatever queue it waits for.
THEOREM NoLostWakeUpCorrect == Spec => []NoLostWakeUp
<1>1. Init => IInv /\ SizesInv /\ WaitInv
  <2>1. Init => WaitInv  BY DEF Init, WaitInv
  <2>. QED BY <2>1, IInvInit, SizesInvInit
<1>2. (IInv /\ SizesInv /\ WaitInv) /\ [Next]_vars => (IInv /\ SizesInv /\ WaitInv)'
  BY IInvStep, SizesInvStep, WaitInvStep
<1>3. WaitInv => NoLostWakeUp  BY DEF WaitInv, Active, NoLostWakeUp
<1> QED BY <1>1, <1>2, <1>3, PTL DEF Spec
================================================================================
