------------------------------- MODULE Packages -------------------------------
(***************************************************************************)
(* How a decomposed channel turns packages into actions and back:          *)
(* ComponentActionManager, ComponentPackageManager and, at the other end   *)
(* of a link, ComponentReceivePackageManager, in the mode ComponentManager *)
(* runs them in, FRAGMENT_SINGLE_PRODUCER.                                 *)
(*                                                                         *)
(* The user model says at what times the transport may act.  A package is  *)
(* cut into fragments, each planned into an action of its link; shortly    *)
(* before its time an action is encoded, at its time the transport does    *)
(* it, and later reports the fate of each fragment.  Planning starts again *)
(* whenever the timeline changes or a package fails.  The managers hold    *)
(* raw pointers into each other's structures: most of what can go wrong is *)
(* a plan one of them no longer knows of.                                  *)
(*                                                                         *)
(* Every action is one critical section of ComponentManagerInternal's      *)
(* dataMutex, or a step of the transport, of an encoder or of the wire.    *)
(* Time is counted in whole units.  A call reads the clock just after the  *)
(* instant `now', and each further reading of a call a little later.       *)
(***************************************************************************)
EXTENDS Integers, FiniteSets, SequencesExt

CONSTANTS
    AllLinks,        \* the links, in the order of ComponentLinkManager::getLinks
    LateLinks,       \* links created while the channel is in use
    MortalLinks,     \* links that may be destroyed
    Scheduled,       \* actions getTimeline may return; actions are numbers
    Reactive,        \* actions the user model adds on a send
    Time,            \* [Scheduled -> time]
    Target,          \* the link an action is for: a link, Wildcard or NoLink
    Wildcard,        \* "*": the action may carry any link's packages
    NoLink, NoAction,
    Packages, Size,  \* packages and their lengths in bytes
    Route,           \* the link of the connection a package is sent on
    MaxBytes,        \* SpecificEncodingProperties::maxBytes, the same for all
    MaxEncodingTime, \* ComponentActionManager::maxEncodingTime
    MaxTime,         \* bound of the clock
    MaxFetches,      \* bound: timeline updates after setup's
    MaxFaults,       \* bound: things the wire does wrong
    MaxFailures,     \* bound: encodings and actions that fail
    Punctual,        \* the action thread encodes before the clock moves on
    Spaced,          \* actions are at least MaxEncodingTime apart
    InTurn,          \* the user model reacts to a send only when what is queued
                     \* on the link goes out before the action it adds
    Careful          \* the orders the code relies on and does not enforce

FRAGMENT_SINGLE_PRODUCER_OVERHEAD == 5
FRAGMENT_LEN_SIZE == 4

Links == ToSet(AllLinks)
Actions == Scheduled \union Reactive
Never == MaxTime + MaxEncodingTime + 1      \* infinity
Times == 0 .. Never
Handles == Nat \ {0}

ASSUME PackagesAssumption ==
    /\ Actions \subseteq Nat /\ Scheduled \intersect Reactive = {}
    /\ IsFiniteSet(Actions) /\ IsFiniteSet(Packages) /\ AllLinks \in Seq(Links)
    /\ LateLinks \union MortalLinks \subseteq Links /\ Cardinality(Links) = Len(AllLinks)
    /\ {Wildcard, NoLink} \intersect Links = {} /\ NoAction \notin Actions
    /\ Time \in [Scheduled -> 1 .. MaxTime]
    /\ Target \in [Actions -> Links \union {Wildcard, NoLink}]
    /\ Size \in [Packages -> Nat \ {0}] /\ Route \in [Packages -> Links]
    /\ {MaxBytes, MaxEncodingTime, MaxTime} \subseteq Nat \ {0}
    /\ {MaxFetches, MaxFaults, MaxFailures} \subseteq Nat
    /\ {Punctual, Spaced, InTurn, Careful} \subseteq BOOLEAN

VARIABLES
    now,
    linkStatus,     \* a link is not created yet, created or destroyed
    info,           \* ActionInfo of each action of `actions'
    nextEncodeTime, lastEncodeTime,
    actionQueue,    \* per link: Link::actionQueue
    packageQueue,   \* per link: Link::packageQueue
    fragmentCount,  \* per link: Link::fragmentCount
    parts,          \* per package: PackageInfo::packageFragments
    encoder,        \* pendingEncodings, with the content at the encoder
    held,           \* content the transport was given, per action
    reports,        \* onPackageStatusChanged calls posted by the transport
    blocked,        \* links whose connections the SDK holds back
    told,           \* per package: statuses the SDK was told
    wire,           \* per link: content on its way
    last, pending,  \* per link: ProducerQueue of the receiving end
    delivered,      \* packages handed up there, as lists of pieces
    spent           \* how many of each bounded event took place

actionVars == <<info, nextEncodeTime, lastEncodeTime, actionQueue>>
packageVars == <<packageQueue, fragmentCount, parts, encoder, blocked, told>>
receiveVars == <<last, pending, delivered>>
vars == <<now, linkStatus, actionVars, packageVars, held, reports, wire, receiveVars, spent>>

(***************************************************************************)
(* Types.  A pointer to a fragment is its handle with what never changes   *)
(* in it; the fragment itself also has a state and points to its action.   *)
(***************************************************************************)
EncodingStates == {"UNENCODED", "ENCODING", "ENQUEUED"}
FragmentStates == {"UNENCODED", "ENCODING", "ENQUEUED", "DONE", "SENT", "FAILED"}
Pointers == [h : Handles, pkg : Packages, off : Nat, len : Nat]
ActionInfo == [time : Times, link : Links \union {NoLink}, enc : EncodingStates,
               fragments : Seq(Pointers)]
Fragments == [h : Handles, off : Nat, len : Nat, state : FragmentStates,
              action : Actions \union {NoAction}]
Pieces == [pkg : Packages, off : Nat, len : Nat]
Contents == [link : Links \union {NoLink}, id : Nat, continueLast : BOOLEAN,
             continueNext : BOOLEAN, data : Seq(Pieces)]
Statuses == {"PACKAGE_SENT", "PACKAGE_FAILED_GENERIC"}
Bounded == {"fetches", "faults", "failures"}

TypeOK ==
    /\ now \in 0 .. MaxTime /\ {nextEncodeTime, lastEncodeTime} \subseteq Times
    /\ linkStatus \in [Links -> {"NONE", "LINK_CREATED", "LINK_DESTROYED"}]
    /\ DOMAIN info \subseteq Actions /\ info \in [DOMAIN info -> ActionInfo]
    /\ actionQueue \in [Links -> Seq(Actions)]
    /\ packageQueue \in [Links -> Seq(Packages)]
    /\ fragmentCount \in [Links -> Nat]
    /\ parts \in [Packages -> Seq(Fragments)]
    /\ \A c \in {encoder, held} :
           DOMAIN c \subseteq Actions /\ c \in [DOMAIN c -> Contents]
    /\ reports \in Seq(Handles \X Statuses)
    /\ blocked \subseteq Links /\ told \in [Packages -> Seq(Statuses)]
    /\ wire \in [Links -> Seq(Contents)]
    /\ last \in [Links -> Nat] /\ pending \in [Links -> Seq(Pieces)]
    /\ delivered \subseteq Seq(Pieces)
    /\ spent \in [Bounded -> Nat]

links == {l \in Links : linkStatus[l] = "LINK_CREATED"}
Spend(b, max) == spent[b] < max /\ spent' = [spent EXCEPT ![b] = @ + 1]
Without(f, S) == [x \in DOMAIN f \ S |-> f[x]]
With(f, x, v) == [y \in DOMAIN f \union {x} |-> IF y = x THEN v ELSE f[y]]

-----------------------------------------------------------------------------
(***************************************************************************)
(* Planning.  A plan is the ActionInfo of the timeline and the fragments   *)
(* of the packages, which point to each other; `full' is queueFull.        *)
(***************************************************************************)
Plan == [info |-> info, parts |-> parts, full |-> {}]
ToldHandles == {reports[i][1] : i \in DOMAIN reports}
HandlesOf(fs) == {fs[i].h : i \in DOMAIN fs}

\* nextFragmentHandle++: the numbers in use are what tells handles apart.
NextHandle(plan) ==
    LET used == ToldHandles \union UNION {HandlesOf(plan.parts[p]) : p \in Packages}
    IN  Min((1 .. Cardinality(used) + 1) \ used)
Covered(fs) == IF fs = <<>> THEN 0 ELSE Last(fs).off + Last(fs).len
Planned(plan, p) == Covered(plan.parts[p]) = Size[p]

\* mutant
NeverUnblocked(plan) == blocked

\* A package that did not fit lets its connections wait until room is found.
StillBlocked(plan) == blocked \intersect plan.full

\* What the fragments of an action take, their lengths in the content included.
Filled(fs) ==
    LET taken == [k \in DOMAIN fs |-> FRAGMENT_LEN_SIZE + fs[k].len]
    IN  FRAGMENT_SINGLE_PRODUCER_OVERHEAD + MapThenSumSet(LAMBDA k : taken[k], DOMAIN fs)

spaceAvailableInAction(i) ==
    LET filled == Filled(i.fragments)
    IN  IF i.enc = "UNENCODED" /\ MaxBytes > filled + FRAGMENT_LEN_SIZE
        THEN MaxBytes - filled - FRAGMENT_LEN_SIZE ELSE 0

isActionAbleToFit(i) == spaceAvailableInAction(i) > 1

AddFragment(plan, p, a) ==
    LET i == plan.info[a]
        off == Covered(plan.parts[p])
        len == Min({spaceAvailableInAction(i), Size[p] - off})
        h == NextHandle(plan)
        f == [h |-> h, pkg |-> p, off |-> off, len |-> len]
    IN  [info |-> [plan.info EXCEPT ![a] = [time |-> i.time, link |-> Route[p], enc |-> i.enc,
                                            fragments |-> Append(i.fragments, f)]],
         parts |-> [plan.parts EXCEPT ![p] =
                      Append(@, [h |-> h, off |-> off, len |-> len,
                                 state |-> "UNENCODED", action |-> a])],
         full |-> plan.full]

\* An action is still in time (isTimeToEncode) when MaxEncodingTime is left of
\* the clock's last reading; for `exact' it is left by construction.
MayCarry(plan, p, a, exact) ==
    /\ ~Planned(plan, p) /\ plan.info[a].link \in {Route[p], NoLink}
    /\ isActionAbleToFit(plan.info[a])
    /\ plan.info[a].time > now + MaxEncodingTime \/ a = exact

TakeAction(plan, p, a, exact) == IF MayCarry(plan, p, a, exact) THEN AddFragment(plan, p, a) ELSE plan

generateFragmentsForPackage(plan, p, queue, exact) ==
    LET fill[k \in 0 .. Len(queue)] ==
            IF k = 0 THEN plan ELSE TakeAction(fill[k - 1], p, queue[k], exact)
    IN  fill[Len(queue)]

\* mutant
KeepsMarked(fs, marked) == fs

\* removeMarkedFragments: a package loses its fragments from the first marked one on.
removeMarkedFragments(fs, marked) ==
    LET hit == {k \in DOMAIN fs : fs[k].h \in marked}
    IN  IF hit = {} THEN fs ELSE SubSeq(fs, 1, Min(hit) - 1)

\* The n-th turn of the packages of all links: the first of each link, the
\* second of each...
LinkOfTurn(n) == AllLinks[((n - 1) % Len(AllLinks)) + 1]
PlaceOfTurn(n) == ((n - 1) \div Len(AllLinks)) + 1
Turns == Cardinality(Packages) * Len(AllLinks)

\* The package whose turn it is takes what room there is, unless its link's queue
\* is full.
TakeTurn(plan, actionQueues, queues, n) ==
    LET l == LinkOfTurn(n)
        p == queues[l][PlaceOfTurn(n)]
        g == generateFragmentsForPackage(plan, p, actionQueues[l], NoAction)
    IN  IF Len(queues[l]) < PlaceOfTurn(n) \/ l \in plan.full THEN plan
        ELSE IF Planned(g, p) THEN g ELSE [g EXCEPT !.full = @ \union {l}]

\* What is planned for actions still in time is planned anew.
Cleared(plan, marked, actionQueues) ==
    LET reset == {a \in UNION {ToSet(actionQueues[l]) : l \in Links} :
                    plan.info[a].time > now + MaxEncodingTime}
        gone == marked \union UNION {HandlesOf(plan.info[a].fragments) : a \in reset}
    IN  [info |-> [a \in DOMAIN plan.info |->
                     IF a \notin reset THEN plan.info[a]
                     ELSE [plan.info[a] EXCEPT !.fragments = <<>>,
                             !.link = IF Target[a] = Wildcard THEN NoLink ELSE @]],
         parts |-> [p \in Packages |-> removeMarkedFragments(plan.parts[p], gone)],
         full |-> {}]

generateFragmentsForAllPackages(plan, marked, actionQueues, queues) ==
    LET assigned[n \in 0 .. Turns] ==
            IF n = 0 THEN Cleared(plan, marked, actionQueues)
            ELSE TakeTurn(assigned[n - 1], actionQueues, queues, n)
    IN  assigned[Turns]

-----------------------------------------------------------------------------
(***************************************************************************)
(* The timeline.                                                           *)
(***************************************************************************)
Before(i, a, b) == i[a].time < i[b].time \/ (i[a].time = i[b].time /\ a < b)

\* the actions S of the timeline i in its order
InOrder(i, S) ==
    CHOOSE s \in [1 .. Cardinality(S) -> S] :
        \A j, k \in DOMAIN s : j < k => Before(i, s[j], s[k])

\* mutant
KeepsWildcard(a, time) ==
    [time |-> time, link |-> Target[a], enc |-> "UNENCODED", fragments |-> <<>>]

createActionInfo(a, time) ==
    [time |-> time, link |-> IF Target[a] \in Links THEN Target[a] ELSE NoLink,
     enc |-> "UNENCODED", fragments |-> <<>>]

updateLinkTimelines(i) ==
    [l \in Links |-> IF l \in links
                     THEN InOrder(i, {a \in DOMAIN i : Target[a] \in {l, Wildcard}})
                     ELSE <<>>]

updateEncodeTimestamp(i) ==
    LET later == {i[a].time : a \in DOMAIN i} \ 0 .. lastEncodeTime
    IN  IF later = {} THEN Never ELSE Min(later) - MaxEncodingTime

SpacedOut(i) ==
    Spaced => \A a, b \in DOMAIN i :
                  i[a].time <= i[b].time /\ a # b => i[a].time + MaxEncodingTime <= i[b].time

\* updateLinkTimelines of the timeline i and the planning it ends with, which
\* takes their fragments from the actions i no longer has (toBeRemoved).
Replan(i) ==
    LET removed == DOMAIN info \ DOMAIN i
    IN  generateFragmentsForAllPackages(
            [Plan EXCEPT !.info = i], UNION {HandlesOf(info[a].fragments) : a \in removed},
            updateLinkTimelines(i), packageQueue)

Tick ==
    /\ now < MaxTime /\ (Punctual => nextEncodeTime > now)
    /\ now' = now + 1
    /\ UNCHANGED <<linkStatus, actionVars, packageVars, held, reports, wire, receiveVars, spent>>

\* fetchTimeline, by the action thread or on onTimelineUpdated: the user model
\* returns what it likes of the actions from `start' on; those before stay.
FetchTimeline ==
    LET kept == {a \in DOMAIN info : info[a].time <= now + MaxEncodingTime}
        returned == {a \in Scheduled : Time[a] > now + MaxEncodingTime}
    IN  \E S \in SUBSET (returned \union (DOMAIN info \ kept)) :
            LET i == [a \in kept \union S |-> IF a \in DOMAIN info THEN info[a]
                                              ELSE createActionInfo(a, Time[a])]
                plan == Replan(i)
            IN  /\ SpacedOut(i)
                /\ info' = plan.info /\ parts' = plan.parts
                /\ actionQueue' = updateLinkTimelines(i)
                /\ nextEncodeTime' = updateEncodeTimestamp(i)
                /\ blocked' = StillBlocked(plan)
                /\ Spend("fetches", MaxFetches)
                /\ UNCHANGED <<now, linkStatus, lastEncodeTime, packageQueue, fragmentCount,
                               encoder, told, held, reports, wire, receiveVars>>

-----------------------------------------------------------------------------
(***************************************************************************)
(* Sending.                                                                *)
(***************************************************************************)
isPackageAbleToFit(plan, queue, l) ==
    \E k \in DOMAIN queue : /\ plan.info[queue[k]].link \in {l, NoLink}
                            /\ isActionAbleToFit(plan.info[queue[k]])

GoOutBy(queue, time) ==
    \A k \in DOMAIN queue :
        /\ Planned(Plan, queue[k])
        /\ \A j \in DOMAIN parts[queue[k]] :
               LET a == parts[queue[k]][j].action IN a # NoAction => info[a].time <= time

\* ComponentManagerInternal::sendPackage: the user model is told first and may add
\* the action r; a package no action has room for blocks its connections.
SendPackage(p, r) ==
    LET l == Route[p]
        added == r # NoAction
        i == IF added THEN With(info, r, createActionInfo(r, now + MaxEncodingTime)) ELSE info
        plan == IF added THEN Replan(i) ELSE Plan
        queues == IF added THEN updateLinkTimelines(i) ELSE actionQueue
        fits == isPackageAbleToFit(plan, queues[l], l)
        new == IF fits THEN generateFragmentsForPackage(plan, p, queues[l], r)
                       ELSE plan
        held_back == IF added THEN StillBlocked(plan) ELSE blocked
    IN  /\ l \in links \ blocked /\ told[p] = <<>> /\ ~Contains(packageQueue[l], p)
        /\ r \in {NoAction} \union (Reactive \ (DOMAIN info \union DOMAIN held))
        /\ SpacedOut(i) /\ (InTurn /\ added => GoOutBy(packageQueue[l], now + MaxEncodingTime))
        /\ info' = new.info /\ parts' = new.parts /\ actionQueue' = queues
        /\ nextEncodeTime' = IF added THEN updateEncodeTimestamp(i) ELSE nextEncodeTime
        /\ packageQueue' = IF fits THEN [packageQueue EXCEPT ![l] = Append(@, p)] ELSE packageQueue
        /\ blocked' = IF fits THEN held_back ELSE held_back \union {l}
        /\ UNCHANGED <<now, linkStatus, lastEncodeTime, fragmentCount, encoder, told, held,
                       reports, wire, receiveVars, spent>>

SetState(p, hs, state) ==
    [k \in DOMAIN parts[p] |-> IF parts[p][k].h \in hs
                               THEN [parts[p][k] EXCEPT !.state = state] ELSE parts[p][k]]

\* What encodeForAction gives the encoder for the action a when its link has
\* counted n actions so far.
Content(a, n) ==
    LET fs == info[a].fragments
    IN  [link |-> info[a].link, id |-> n,
         continueLast |-> fs # <<>> /\ fs[1].off # 0,
         continueNext |-> fs # <<>> /\ Last(fs).off + Last(fs).len < Size[Last(fs).pkg],
         data |-> [k \in DOMAIN fs |-> [pkg |-> fs[k].pkg, off |-> fs[k].off, len |-> fs[k].len]]]

\* encodeActions with encodeForAction of each action in the window.  An action
\* encoded before is not encoded again, but its link counts it again.
EncodeActions ==
    LET due == {a \in DOMAIN info : /\ info[a].time >= nextEncodeTime
                                    /\ info[a].time <= now + MaxEncodingTime}
        later == {info[a].time : a \in {b \in DOMAIN info : /\ info[b].time >= nextEncodeTime
                                                            /\ info[b].time > now + MaxEncodingTime}}
        carrying(l) == {a \in due : info[a].fragments # <<>> /\ info[a].link = l}
        started == {a \in due : info[a].enc = "UNENCODED"}
        number(a) == LET l == info[a].link
                     IN  IF l \notin Links THEN 0
                         ELSE fragmentCount[l] + Cardinality({b \in carrying(l) : Before(info, b, a)})
        hs == UNION {HandlesOf(info[a].fragments) : a \in due}
    IN  /\ now >= nextEncodeTime /\ \A a \in DOMAIN info : info[a].time > now
        /\ info' = [a \in DOMAIN info |-> IF a \in started THEN [info[a] EXCEPT !.enc = "ENCODING"]
                                          ELSE info[a]]
        /\ encoder' = [a \in DOMAIN encoder \union started |->
                           IF a \in started THEN Content(a, number(a)) ELSE encoder[a]]
        /\ fragmentCount' = [l \in Links |-> fragmentCount[l] + Cardinality(carrying(l))]
        /\ parts' = [p \in Packages |-> SetState(p, hs, "ENCODING")]
        /\ lastEncodeTime' = IF due = {} THEN lastEncodeTime ELSE Max({info[a].time : a \in due})
        /\ nextEncodeTime' = IF later = {} THEN Never ELSE Min(later) - MaxEncodingTime
        /\ UNCHANGED <<now, linkStatus, actionQueue, packageQueue, blocked, told, held, reports,
                       wire, receiveVars, spent>>

OnBytesEncoded(a) ==
    /\ a \in DOMAIN encoder /\ encoder' = Without(encoder, {a})
    /\ \/ /\ held' = With(held, a, encoder[a])
          /\ info' = [info EXCEPT ![a].enc = "ENQUEUED"]
          /\ parts' = [p \in Packages |-> SetState(p, HandlesOf(info[a].fragments), "ENQUEUED")]
          /\ UNCHANGED spent
       \/ Spend("failures", MaxFailures) /\ UNCHANGED <<held, info, parts>>
    /\ UNCHANGED <<now, linkStatus, actionQueue, nextEncodeTime, lastEncodeTime, packageQueue,
                   fragmentCount, blocked, told, reports, wire, receiveVars>>

\* doAction: the transport sends what it holds for the first action and reports
\* each fragment, as failed when it holds nothing or fails to send.
DoAction ==
    LET a == InOrder(info, DOMAIN info)[1]
        fs == info[a].fragments
        hs == HandlesOf(fs)
        pop(l) == IF actionQueue[l] # <<>> /\ Head(actionQueue[l]) = a
                  THEN Tail(actionQueue[l]) ELSE actionQueue[l]
    IN  /\ info # <<>> /\ now >= info[a].time
        /\ \E sent \in BOOLEAN :
               /\ sent => a \in DOMAIN held
               /\ IF sent \/ a \notin DOMAIN held THEN UNCHANGED spent
                  ELSE Spend("failures", MaxFailures)
               /\ reports' = reports \o [k \in DOMAIN fs |->
                      <<fs[k].h, IF sent THEN "PACKAGE_SENT" ELSE "PACKAGE_FAILED_GENERIC">>]
               /\ wire' = IF sent /\ held[a].data # <<>>
                          THEN [wire EXCEPT ![held[a].link] = Append(@, held[a])] ELSE wire
        /\ held' = Without(held, {a}) /\ encoder' = Without(encoder, {a})
        /\ info' = Without(info, {a})
        /\ actionQueue' = [l \in Links |-> pop(l)]
        /\ parts' = [p \in Packages |->
                        [k \in DOMAIN parts[p] |->
                            IF parts[p][k].h \in hs
                            THEN [parts[p][k] EXCEPT !.state = "DONE", !.action = NoAction]
                            ELSE parts[p][k]]]
        /\ UNCHANGED <<now, linkStatus, nextEncodeTime, lastEncodeTime, packageQueue,
                       fragmentCount, blocked, told, receiveVars>>

Finished(p, fs) ==
    \/ \E k \in DOMAIN fs : fs[k].state = "FAILED"
    \/ Covered(fs) = Size[p] /\ \A k \in DOMAIN fs : fs[k].state = "SENT"

\* mutant
StaysQueued(p) == packageQueue

Dequeued(p) == [packageQueue EXCEPT ![Route[p]] = RemoveFirst(@, p)]

\* The first posted report; a handle no fragment waits under is ignored.
OnPackageStatusChanged ==
    LET h == Head(reports)[1]
        status == Head(reports)[2]
        owners == {p \in Packages : \E k \in DOMAIN parts[p] :
                      parts[p][k].h = h /\ parts[p][k].state \notin {"SENT", "FAILED"}}
        updated(p) == SetState(p, {h}, IF status = "PACKAGE_SENT" THEN "SENT" ELSE "FAILED")
    IN  /\ reports # <<>> /\ reports' = Tail(reports)
        /\ \/ owners = {} /\ UNCHANGED <<info, parts, packageQueue, told, blocked>>
           \/ \E p \in owners :
                 /\ ~Finished(p, updated(p))
                 /\ parts' = [parts EXCEPT ![p] = updated(p)]
                 /\ UNCHANGED <<info, packageQueue, told, blocked>>
           \/ \E p \in owners :
                 LET fs == updated(p)
                     open == {k \in DOMAIN fs : fs[k].action # NoAction}
                     freed == {fs[k].action : k \in {j \in open : fs[j].state = "UNENCODED"}}
                     marked == UNION {HandlesOf(info[a].fragments) : a \in freed}
                     i == [a \in DOMAIN info |-> IF a \in freed
                              THEN [info[a] EXCEPT !.fragments = <<>>] ELSE info[a]]
                     queues == Dequeued(p)
                     rest == [info |-> i, parts |-> [parts EXCEPT ![p] = <<>>], full |-> {}]
                     plan == generateFragmentsForAllPackages(rest, marked, actionQueue, queues)
                 IN  /\ Finished(p, fs)
                     /\ Careful => \A k \in open : fs[k].state = "UNENCODED"
                     /\ told' = [told EXCEPT ![p] = Append(@, status)]
                     /\ packageQueue' = queues
                     /\ IF freed = {} THEN /\ info' = rest.info /\ parts' = rest.parts
                                           /\ UNCHANGED blocked
                        ELSE /\ info' = plan.info /\ parts' = plan.parts
                             /\ blocked' = StillBlocked(plan)
        /\ UNCHANGED <<now, linkStatus, actionQueue, nextEncodeTime, lastEncodeTime,
                       fragmentCount, encoder, held, wire, receiveVars, spent>>

-----------------------------------------------------------------------------
(***************************************************************************)
(* Links come and go: ComponentPackageManager, ComponentActionManager and  *)
(* ComponentLinkManager::onLinkStatusChanged, in this order.               *)
(***************************************************************************)
OnLinkCreated(l) ==
    /\ linkStatus[l] = "NONE"
    /\ Careful => \A a \in DOMAIN info : Target[a] # Wildcard
    /\ linkStatus' = [linkStatus EXCEPT ![l] = "LINK_CREATED"]
    /\ UNCHANGED <<now, actionVars, packageVars, held, reports, wire, receiveVars, spent>>

OnLinkDestroyed(l) ==
    LET hit == ToSet(actionQueue[l])
        dropped == ToSet(packageQueue[l])
    IN  /\ l \in links \intersect MortalLinks
        /\ Careful => \A a \in hit : info[a].fragments # <<>> => info[a].link = l
        /\ encoder' = Without(encoder, hit)
        /\ info' = [a \in DOMAIN info |-> IF a \in hit
                       THEN [info[a] EXCEPT !.enc = "UNENCODED", !.fragments = <<>>] ELSE info[a]]
        /\ told' = [p \in Packages |-> IF p \in dropped THEN Append(told[p], "PACKAGE_FAILED_GENERIC")
                                       ELSE told[p]]
        /\ parts' = [p \in Packages |-> IF p \in dropped THEN <<>> ELSE parts[p]]
        /\ packageQueue' = [packageQueue EXCEPT ![l] = <<>>]
        /\ actionQueue' = [actionQueue EXCEPT ![l] = <<>>]
        /\ linkStatus' = [linkStatus EXCEPT ![l] = "LINK_DESTROYED"]
        /\ blocked' = blocked \ {l}
        /\ UNCHANGED <<now, nextEncodeTime, lastEncodeTime, fragmentCount, held, reports, wire,
                       receiveVars, spent>>

-----------------------------------------------------------------------------
(***************************************************************************)
(* The wire and the receiving end of a link.                               *)
(***************************************************************************)
\* mutant
JoinsAny(c, l) == c.continueLast
Joins(c, l) == c.continueLast /\ c.id = last[l] + 1

\* ComponentReceivePackageManager::receiveFragmentProducer.
Receive(l) ==
    LET c == Head(wire[l])
        before == IF Joins(c, l) THEN pending[l] ELSE <<>>
        data == IF c.continueLast /\ before = <<>> THEN Tail(c.data) ELSE c.data
        packages == [k \in DOMAIN data |-> IF k = 1 THEN before \o <<data[1]>> ELSE <<data[k]>>]
        open == c.continueNext /\ data # <<>>
    IN  /\ wire[l] # <<>> /\ wire' = [wire EXCEPT ![l] = Tail(@)]
        /\ last' = [last EXCEPT ![l] = c.id]
        /\ pending' = [pending EXCEPT ![l] = IF open THEN Last(packages) ELSE <<>>]
        /\ delivered' = delivered \union ToSet(IF open THEN Front(packages) ELSE packages)
        /\ UNCHANGED <<now, linkStatus, actionVars, packageVars, held, reports, spent>>

Fault(l) ==
    /\ \E k \in DOMAIN wire[l] :
           \/ wire' = [wire EXCEPT ![l] = RemoveAt(@, k)]
           \/ wire' = [wire EXCEPT ![l] = Append(@, @[k])]
           \/ wire' = [wire EXCEPT ![l] = Append(RemoveAt(@, k), @[k])]
    /\ Spend("faults", MaxFaults)
    /\ UNCHANGED <<now, linkStatus, actionVars, packageVars, held, reports, receiveVars>>

-----------------------------------------------------------------------------
Init ==
    /\ now = 0 /\ linkStatus = [l \in Links |-> IF l \in LateLinks THEN "NONE" ELSE "LINK_CREATED"]
    /\ info = <<>> /\ nextEncodeTime = Never /\ lastEncodeTime = 0
    /\ actionQueue = [l \in Links |-> <<>>] /\ packageQueue = [l \in Links |-> <<>>]
    /\ fragmentCount = [l \in Links |-> 0] /\ parts = [p \in Packages |-> <<>>]
    /\ encoder = <<>> /\ held = <<>> /\ reports = <<>>
    /\ blocked = {} /\ told = [p \in Packages |-> <<>>]
    /\ wire = [l \in Links |-> <<>>] /\ last = [l \in Links |-> 0]
    /\ pending = [l \in Links |-> <<>>] /\ delivered = {}
    /\ spent = [b \in Bounded |-> 0]

Next ==
    \/ Tick \/ FetchTimeline \/ EncodeActions \/ DoAction \/ OnPackageStatusChanged
    \/ \E p \in Packages, r \in Reactive \union {NoAction} : SendPackage(p, r)
    \/ \E a \in Actions : OnBytesEncoded(a)
    \/ \E l \in Links : OnLinkCreated(l) \/ OnLinkDestroyed(l) \/ Receive(l) \/ Fault(l)

Spec == Init /\ [][Next]_vars

-----------------------------------------------------------------------------
(***************************************************************************)
(* Properties.                                                             *)
(***************************************************************************)
(* No byte of an accepted package is forgotten: its fragments tile a       *)
(* prefix of it, and each either sits in an action still to come, which    *)
(* points back, or its report is on its way or was counted.                *)
PartsAccountedFor ==
    \A p \in Packages :
        /\ parts[p] # <<>> => Contains(packageQueue[Route[p]], p)
        /\ \A k \in DOMAIN parts[p] :
               LET f == parts[p][k]
               IN  /\ f.off = Covered(SubSeq(parts[p], 1, k - 1)) /\ f.len > 0
                   /\ f.off + f.len <= Size[p]
                   /\ \/ f.state \in {"SENT", "FAILED"} \/ f.h \in ToldHandles
                      \/ f.action \in DOMAIN info /\ f.h \in HandlesOf(info[f.action].fragments)

(* The raw pointers between the managers lead to live objects: what an     *)
(* action is to carry belongs to queued packages and points back, encodings *)
(* under way belong to actions of the timeline, and each link's queue holds *)
(* exactly the actions of the timeline it may use, in order.               *)
PointersLive ==
    /\ \A a \in DOMAIN info : \A k \in DOMAIN info[a].fragments :
           LET f == info[a].fragments[k]
           IN  \E j \in DOMAIN parts[f.pkg] :
                   parts[f.pkg][j].h = f.h /\ parts[f.pkg][j].action = a
    /\ DOMAIN encoder \subseteq DOMAIN info
    /\ \A l \in links : IsPrefix(actionQueue[l], updateLinkTimelines(info)[l])
    /\ \A l \in links : l \notin LateLinks => actionQueue[l] = updateLinkTimelines(info)[l]

(* What the managers plan is sound: nothing of a package is forgotten, and *)
(* no pointer of one manager leads to what another has deleted.            *)
PlanSound == PartsAccountedFor /\ PointersLive

(* The SDK hears of a package once, whatever fails, and never again about  *)
(* one still queued.                                                       *)
ReportedOnce ==
    \A p \in Packages : /\ Len(told[p]) <= 1
                        /\ told[p] # <<>> => ~Contains(packageQueue[Route[p]], p)

WholePackage(d) ==
    \E p \in Packages : /\ \A k \in DOMAIN d : d[k].pkg = p /\ d[k].off = Covered(SubSeq(d, 1, k - 1))
                        /\ Covered(d) = Size[p]

(* Without faults of the wire, a package reported as sent is received      *)
(* whole once the link is drained.                                         *)
SentArrives ==
    spent["faults"] = 0 =>
        \A p \in Packages : told[p] = <<"PACKAGE_SENT">> /\ wire[Route[p]] = <<>> =>
            \E d \in delivered : d[1].pkg = p /\ WholePackage(d)

(* Whatever the wire loses, repeats or reorders, and whatever fails at the *)
(* sender, the receiver hands up nothing but packages somebody sent.       *)
NeverGarbled == \A d \in delivered : WholePackage(d)

(* The receiving end hands up whole packages and nothing else, and those   *)
(* the SDK was told were sent when the wire let them through.              *)
ReceivedWhole == NeverGarbled /\ SentArrives

(* A connection is held back only while no action of its link that can     *)
(* still be planned has room.                                              *)
BlockedOnlyWhenFull ==
    \A l \in blocked : \A k \in DOMAIN actionQueue[l] :
        LET i == info[actionQueue[l][k]]
        IN  i.time > now + MaxEncodingTime /\ i.link \in {l, NoLink} => ~isActionAbleToFit(i)

=============================================================================
