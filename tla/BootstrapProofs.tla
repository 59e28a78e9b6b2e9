---------------------------- MODULE BootstrapProofs ----------------------------
(* How a bootstrap of module Bootstrap ends, for any number of bootstraps,    *)
(* whatever the application, the network manager and the plugins do.          *)
EXTENDS Bootstrap, FiniteSetTheorems, TLAPS

--------------------------------------------------------------------------------
(* The inductive invariant, bootstrap by bootstrap                            *)

Closed(b) == Status(CloseHandle(b), "CLOSED")

\* Nothing happened to a bootstrap nobody asked for.
Untouched(b) ==
    /\ b \notin bootstraps
    /\ connectionHandle[b] = NULL_RACE_HANDLE /\ ~bootstrapConnection[b]
    /\ accepted[b] = 0 /\ closing[b] = "no" /\ told[b] = <<>> /\ Closed(b) \notin statuses

\* While it is pending, the package, the handle and the close follow the state, and
\* that the close is answered shows that it was asked for.
Follows(b) ==
    /\ state[b] \in Waiting /\ told[b] = <<>> /\ HandleFits(b)
    /\ bootstrapConnection[b] => state[b] \notin {"WAITING_FOR_LINK", "WAITING_FOR_NM"}
    /\ IF state[b] = "WAITING_FOR_CONNECTION_CLOSED"
       THEN accepted[b] = 1 /\ closing[b] \in {"asked", "answered"}
       ELSE accepted[b] = 0 /\ closing[b] = "no"
    /\ Closed(b) \in statuses => closing[b] = "answered"

\* Once it has ended, one final state was reported, a success for a reason.
Ended(b) ==
    /\ \E s \in Final : told[b] = <<s>>
    /\ told[b] = <<"SUCCESS">> => accepted[b] = 1 /\ closing[b] = "answered"
    /\ bootstrapConnection[b] => closing[b] # "no"
    /\ accepted[b] <= 1

LifeOf(b) ==
    IF state[b] = "INITIALIZED" THEN Untouched(b)
    ELSE IF b \in bootstraps THEN Follows(b) ELSE Ended(b)

Life == \A b \in Bootstraps : LifeOf(b)

BInv == TypeOK /\ Life

--------------------------------------------------------------------------------
(* Handles                                                                    *)

\* The answer to the close of a bootstrap is not that of another one, nor of anything else.
LEMMA ClosedIsOwn ==
    ASSUME NEW b \in Bootstraps, NEW c \in Bootstraps
    PROVE  /\ Closed(b) # Status(NULL_RACE_HANDLE, "CLOSED")
           /\ \A s : Closed(b) # Status(OpenHandle(c), s)
           /\ b # c => Closed(b) # Closed(c)
           /\ CloseHandle(b) # NULL_RACE_HANDLE /\ OpenHandle(b) # NULL_RACE_HANDLE
           /\ CloseHandle(b) # OpenHandle(c)
<1>1. CloseHandle(b) # NULL_RACE_HANDLE /\ OpenHandle(b) # NULL_RACE_HANDLE
  BY BootstrapAssumption
<1>2. CloseHandle(b) # OpenHandle(c)  BY DEF CloseHandle, OpenHandle
<1>3. b # c => CloseHandle(b) # CloseHandle(c)  BY DEF CloseHandle
<1>4. /\ Closed(b).handle = CloseHandle(b) /\ Closed(c).handle = CloseHandle(c)
      /\ \A h, s : Status(h, s).handle = h
  BY DEF Closed, Status
<1>. QED BY <1>1, <1>2, <1>3, <1>4

\* What a step does not touch keeps its life.
Same(b) ==
    /\ state'[b] = state[b] /\ (b \in bootstraps' <=> b \in bootstraps)
    /\ connectionHandle'[b] = connectionHandle[b] /\ bootstrapConnection'[b] = bootstrapConnection[b]
    /\ told'[b] = told[b] /\ accepted'[b] = accepted[b]

LEMMA SameLife ==
    ASSUME NEW b \in Bootstraps, LifeOf(b), Same(b), closing'[b] = closing[b],
           Closed(b) \in statuses' => Closed(b) \in statuses
    PROVE  LifeOf(b)'
<1>1. Closed(b)' = Closed(b)  BY DEF Closed, Status, CloseHandle
<1>2. CASE state[b] = "INITIALIZED"
  BY <1>1, <1>2 DEF LifeOf, Same, Untouched
<1>3. CASE state[b] # "INITIALIZED" /\ b \in bootstraps
  BY <1>1, <1>3 DEF LifeOf, Same, Follows, HandleFits, OpenHandle, CloseHandle
<1>4. CASE state[b] # "INITIALIZED" /\ b \notin bootstraps
  BY <1>4 DEF LifeOf, Same, Ended
<1>. QED BY <1>2, <1>3, <1>4

--------------------------------------------------------------------------------
(* Types                                                                      *)

ManagerTypes ==
    /\ bootstraps \in SUBSET Bootstraps
    /\ state \in [Bootstraps -> {"INITIALIZED"} \cup Waiting \cup Final]
    /\ connectionHandle \in [Bootstraps -> {NULL_RACE_HANDLE} \cup {OpenHandle(b) : b \in Bootstraps}
                                          \cup {CloseHandle(b) : b \in Bootstraps}]
    /\ told \in [Bootstraps -> Seq(Final)]
    /\ closing \in [Bootstraps -> {"no", "refused", "asked", "answered"}]
    /\ tasks \in Seq(Tasks)

LEMMA CloseTypes ==
    ASSUME TypeOK, NEW b \in Bootstraps, CloseConnection(b)
    PROVE  /\ state' \in [Bootstraps -> {"INITIALIZED"} \cup Waiting \cup Final]
           /\ connectionHandle' \in [Bootstraps -> {NULL_RACE_HANDLE} \cup {OpenHandle(c) : c \in Bootstraps}
                                          \cup {CloseHandle(c) : c \in Bootstraps}]
           /\ closing' \in [Bootstraps -> {"no", "refused", "asked", "answered"}]
BY DEF TypeOK, CloseConnection, SetState, Waiting

LEMMA EndTypes ==
    ASSUME TypeOK, NEW b \in Bootstraps, NEW s \in Final, NEW known, Ends(b, s, known)
    PROVE  ManagerTypes'
<1>1. bootstraps' \in SUBSET Bootstraps  BY DEF Ends, Erased, TypeOK
<1>2. told' \in [Bootstraps -> Seq(Final)]
  <2>1. told[b] \in Seq(Final)  BY DEF TypeOK
  <2>2. Append(told[b], s) \in Seq(Final)  BY <2>1
  <2>. QED BY <2>2 DEF Ends, FinalState, TypeOK
<1>3. tasks' \in Seq(Tasks)
  <2>1. <<"remove", b>> \in Tasks  BY DEF Tasks
  <2>. QED BY <2>1 DEF Ends, RemovalPosted, TypeOK
<1>4. CASE CloseConnection(b)
  BY <1>1, <1>2, <1>3, <1>4, CloseTypes DEF ManagerTypes, Tasks, OpenHandle, CloseHandle
<1>5. CASE RefuseClose(b, s)
  BY <1>1, <1>2, <1>3, <1>5 DEF ManagerTypes, TypeOK, RefuseClose, SetState
<1>6. CASE SetState(b, s) /\ UNCHANGED <<connectionHandle, closing>>
  BY <1>1, <1>2, <1>3, <1>6 DEF ManagerTypes, TypeOK, SetState
<1>. QED BY <1>4, <1>5, <1>6 DEF Ends, Cleanup

LEMMA FailTypes ==
    ASSUME TypeOK, NEW b \in Bootstraps, Fails(b)
    PROVE  ManagerTypes' /\ bootstrapConnection' = bootstrapConnection
BY EndTypes DEF Fails, Final

\* The variables of the thread and the plugins, and what the manager counts.
OtherTypes ==
    /\ age \in [Bootstraps -> Nat]
    /\ bootstrapConnection \in [Bootstraps -> BOOLEAN]
    /\ accepted \in [Bootstraps -> Nat]
    /\ serving \in {"no", "bundling", "opening", "failed"}
    /\ files \in SUBSET Bootstraps
    /\ link \in [Bootstraps -> {"none", "asked", "up", "down"}]
    /\ asked \in SUBSET Bootstraps
    /\ conn \in [Bootstraps -> {"none", "requested", "open", "closed"}]
    /\ linked \in SUBSET Bootstraps
    /\ statuses \in SUBSET Statuses

LEMMA TypesSplit ==
    /\ TypeOK <=> ManagerTypes /\ OtherTypes
    /\ TypeOK' <=> ManagerTypes' /\ OtherTypes'
BY DEF TypeOK, ManagerTypes, OtherTypes

\* Each call of the manager and each step of the others keeps the types.
LEMMA TypesStep ==
    ASSUME TypeOK, [Next]_vars
    PROVE  TypeOK'
<1>. USE TypesSplit
<1>1. ASSUME NEW b \in Bootstraps, PrepareToBootstrap(b) PROVE TypeOK'
  <2>1. age' \in [Bootstraps -> Nat]
    <3>1. Cardinality({c \in Bootstraps : state[c] # "INITIALIZED"}) \in Nat
      BY FS_Subset, FS_CardinalityType, BootstrapAssumption
    <3>. QED BY <1>1, <3>1 DEF PrepareToBootstrap, OtherTypes
  <2>2. files' \in SUBSET Bootstraps  BY <1>1 DEF PrepareToBootstrap, OtherTypes
  <2>3. OtherTypes'  BY <1>1, <2>1, <2>2 DEF PrepareToBootstrap, OtherTypes, sdkVars
  <2>4. CASE Ends(b, "FAILED", FALSE)  BY <2>3, <2>4, EndTypes DEF Final
  <2>5. CASE ~Ends(b, "FAILED", FALSE)
    BY <1>1, <2>3, <2>5 DEF PrepareToBootstrap, ManagerTypes, SetState, Waiting
  <2>. QED BY <2>4, <2>5
<1>2. ASSUME NEW b \in Bootstraps, CancelBootstrap(b) PROVE TypeOK'
  <2>1. ManagerTypes'  BY <1>2, EndTypes DEF CancelBootstrap, Final
  <2>. QED BY <1>2, <2>1 DEF CancelBootstrap, OtherTypes, sdkVars
<1>3. ASSUME NEW b \in Bootstraps, LinkCreated(b) PROVE TypeOK'
  <2>1. OtherTypes'  BY <1>3 DEF LinkCreated, OtherTypes
  <2>2. CASE Ends(b, "FAILED", bootstrapConnection[b])  BY <2>1, <2>2, EndTypes DEF Final
  <2>3. CASE ~Ends(b, "FAILED", bootstrapConnection[b])
    BY <1>3, <2>1, <2>3 DEF LinkCreated, ManagerTypes, SetState, Waiting, infoVars
  <2>. QED BY <2>2, <2>3
<1>4. ASSUME NEW b \in Bootstraps, LinkDestroyed(b) PROVE TypeOK'
  <2>1. OtherTypes'  BY <1>4, FailTypes DEF LinkDestroyed, OtherTypes
  <2>. QED BY <1>4, <2>1, FailTypes DEF LinkDestroyed, ManagerTypes, infoVars
<1>5. ASSUME NEW b \in Bootstraps, BootstrapDevice(b) PROVE TypeOK'
  <2>1. OtherTypes'  BY <1>5, FailTypes DEF BootstrapDevice, OtherTypes, sdkVars
  <2>2. CASE Fails(b)  BY <2>1, <2>2, FailTypes
  <2>3. CASE ~Fails(b)
    <3>1. <<"fetch", b>> \in Tasks /\ <<"serve", b>> \in Tasks  BY DEF Tasks
    <3>2. Append(Append(tasks, <<"fetch", b>>), <<"serve", b>>) \in Seq(Tasks)
      BY <3>1 DEF ManagerTypes
    <3>3. state' \in [Bootstraps -> {"INITIALIZED"} \cup Waiting \cup Final]
      BY <1>5, <2>3 DEF BootstrapDevice, ManagerTypes, SetState, Waiting
    <3>. QED BY <1>5, <2>1, <2>3, <3>2, <3>3 DEF BootstrapDevice, ManagerTypes
  <2>. QED BY <2>2, <2>3
<1>6. ASSUME NEW b \in Bootstraps, BootstrapFailed(b) PROVE TypeOK'
  BY <1>6, FailTypes DEF BootstrapFailed, OtherTypes, sdkVars
<1>7. ASSUME NEW b \in Bootstraps, OnReceiveEncPkg(b) PROVE TypeOK'
  <2>1. OtherTypes'  BY <1>7, FailTypes DEF OnReceiveEncPkg, OtherTypes, sdkVars
  <2>2. CASE Fails(b)  BY <2>1, <2>2, FailTypes
  <2>3. CASE ~Fails(b)
    BY <1>7, <2>1, <2>3, CloseTypes DEF OnReceiveEncPkg, ManagerTypes, Tasks, OpenHandle, CloseHandle
  <2>. QED BY <2>2, <2>3
<1>8. ASSUME NEW b \in Bootstraps, PluginStep(b) PROVE TypeOK'
  <2>1. OtherTypes'
    BY <1>8 DEF PluginStep, PluginOpens, PluginRefuses, PluginCloses, PluginClosesOnItsOwn, Closes,
                OtherTypes, Statuses, taskVars
  <2>. QED
    BY <1>8, <2>1 DEF PluginStep, PluginOpens, PluginRefuses, PluginCloses, PluginClosesOnItsOwn, Closes,
                      ManagerTypes, taskVars, infoVars
<1>9. ASSUME NEW b \in Bootstraps, ThreadStep(b) PROVE TypeOK'
  <2>1. CASE BundlingFails(b)
    BY <1>9, <2>1, FailTypes DEF BundlingFails, OtherTypes, ManagerTypes, sdkVars, infoVars
  <2>2. CASE ~BundlingFails(b)
    <3>1. tasks # <<>> => Tail(tasks) \in Seq(Tasks)  BY DEF ManagerTypes
    <3>4. tasks' \in Seq(Tasks)
      BY <1>9, <2>2, <3>1 DEF ThreadStep, FetchArtifacts, StartBundling, Bundled, SeesCancelled, OpenConnection,
                        RemoveFiles, Doing, Enters, ManagerTypes
    <3>2. OtherTypes'
      BY <1>9, <2>2 DEF ThreadStep, FetchArtifacts, StartBundling, Bundled, SeesCancelled, OpenConnection,
                        RemoveFiles, Enters, OtherTypes, sdkVars
    <3>. QED
      BY <1>9, <2>2, <3>4, <3>2
      DEF ThreadStep, FetchArtifacts, StartBundling, Bundled, SeesCancelled, OpenConnection,
          RemoveFiles, ManagerTypes, infoVars
  <2>. QED BY <2>1, <2>2
<1>10. CASE AnotherConnectionCloses
  <2>1. OtherTypes'  BY <1>10 DEF AnotherConnectionCloses, OtherTypes, Statuses, taskVars
  <2>. QED BY <1>10, <2>1 DEF AnotherConnectionCloses, ManagerTypes, taskVars, infoVars
<1>11. ASSUME NEW r \in Statuses, OnConnectionStatusChanged(r) PROVE TypeOK'
  <2>1. CASE UNCHANGED <<bootstraps, infoVars, bootstrapConnection, told, tasks>>
    BY <1>11, <2>1 DEF OnConnectionStatusChanged, OtherTypes, ManagerTypes, infoVars
  <2>2. ASSUME NEW b \in bootstraps, StatusOf(b, r.status) PROVE TypeOK'
    <3>1. b \in Bootstraps  BY DEF ManagerTypes
    <3>2. bootstrapConnection' \in [Bootstraps -> BOOLEAN] /\ ManagerTypes'
      BY <2>2, <3>1, EndTypes, FailTypes DEF StatusOf, OtherTypes, ManagerTypes, Final, infoVars
    <3>. QED BY <1>11, <3>2 DEF OnConnectionStatusChanged, OtherTypes
  <2>. QED BY <1>11, <2>1, <2>2 DEF OnConnectionStatusChanged, Oldest
<1>12. CASE UNCHANGED vars
  BY <1>12 DEF vars, infoVars, taskVars, sdkVars, ManagerTypes, OtherTypes
<1>. QED
  BY <1>1, <1>2, <1>3, <1>4, <1>5, <1>6, <1>7, <1>8, <1>9, <1>10, <1>11, <1>12 DEF Next, ManagerStep

--------------------------------------------------------------------------------
(* The life of a bootstrap                                                    *)

\* removePendingBootstrap() leaves the other bootstraps alone.
LEMMA EndOthers ==
    ASSUME TypeOK, NEW b \in Bootstraps, NEW s, NEW known, Ends(b, s, known),
           NEW c \in Bootstraps, c # b
    PROVE  /\ state'[c] = state[c] /\ (c \in bootstraps' <=> c \in bootstraps)
           /\ connectionHandle'[c] = connectionHandle[c] /\ told'[c] = told[c]
           /\ closing'[c] = closing[c]
BY DEF Ends, Erased, Cleanup, CloseConnection, RefuseClose, SetState, TypeOK

\* It tells the final state of a bootstrap that did not end before, and asks for the
\* close of the connection if there is one.
LEMMA EndLife ==
    ASSUME TypeOK, NEW b \in Bootstraps, LifeOf(b), NEW s \in Final, NEW known \in BOOLEAN,
           state[b] = "INITIALIZED" \/ b \in bootstraps, Ends(b, s, known),
           accepted'[b] <= 1, bootstrapConnection'[b] => known,
           s = "SUCCESS" => accepted'[b] = 1 /\ closing[b] = "answered" /\ ~known
    PROVE  LifeOf(b)'
<1>1. b \notin bootstraps'  BY DEF Ends, Erased
<1>2. told[b] = <<>>  BY DEF LifeOf, Untouched, Follows
<1>3. told'[b] = <<s>>
  <2>1. told'[b] = Append(told[b], s)  BY DEF Ends, FinalState, TypeOK
  <2>. QED BY <1>2, <2>1
<1>4. state'[b] \in {s, "WAITING_FOR_CONNECTION_CLOSED"}
  BY DEF Ends, Cleanup, CloseConnection, RefuseClose, SetState, TypeOK
<1>5. state'[b] # "INITIALIZED"  BY <1>4 DEF Final
<1>6. s = "SUCCESS" => closing'[b] = "answered"  BY DEF Ends, Cleanup
<1>7. known => closing'[b] # "no"
  BY DEF Ends, Cleanup, CloseConnection, RefuseClose, TypeOK
<1>8. told'[b] = <<"SUCCESS">> => s = "SUCCESS"  BY <1>3
<1>. QED BY <1>1, <1>3, <1>5, <1>6, <1>7, <1>8 DEF LifeOf, Ended

\* So the whole of Life survives the failure of one bootstrap.
LEMMA FailLife ==
    ASSUME TypeOK, Life, NEW b \in Bootstraps, b \in bootstraps, Fails(b), statuses' \subseteq statuses,
           accepted'[b] <= 1, \A c \in Bootstraps \ {b} : accepted'[c] = accepted[c]
    PROVE  Life'
<1>1. LifeOf(b)'
  BY EndLife DEF Life, Fails, Final, TypeOK
<1>2. ASSUME NEW c \in Bootstraps, c # b PROVE LifeOf(c)'
  BY <1>2, EndOthers, SameLife DEF Life, Fails, Same
<1>. QED BY <1>1, <1>2 DEF Life

\* A package is accepted at most once, as long as its bootstrap is pending or has ended.
LEMMA AcceptedOnce ==
    ASSUME TypeOK, Life, NEW b \in Bootstraps
    PROVE  accepted[b] <= 1 /\ (b \in bootstraps => state[b] # "INITIALIZED" /\ Follows(b))
BY DEF Life, LifeOf, Untouched, Follows, Ended, TypeOK

\* What no call of the manager reads or changes does not matter.
LEMMA QuietLife ==
    ASSUME Life, UNCHANGED <<bootstraps, infoVars, bootstrapConnection, told, accepted>>,
           \A b \in Bootstraps : Closed(b) \in statuses' => Closed(b) \in statuses
    PROVE  Life'
BY SameLife DEF Life, Same, infoVars

LEMMA PrepareLife ==
    ASSUME TypeOK, Life, NEW b \in Bootstraps, PrepareToBootstrap(b)
    PROVE  Life'
<1>1. UNCHANGED <<bootstrapConnection, accepted, statuses>>  BY DEF PrepareToBootstrap
<1>2. Untouched(b)  BY DEF PrepareToBootstrap, Life, LifeOf
<1>3. CASE Ends(b, "FAILED", FALSE)
  <2>1. LifeOf(b)'
    <3>1. LifeOf(b) /\ state[b] = "INITIALIZED"  BY DEF Life, PrepareToBootstrap
    <3>2. accepted'[b] <= 1 /\ ~bootstrapConnection'[b]  BY <1>1, <1>2 DEF Untouched
    <3>3. "FAILED" \in Final /\ FALSE \in BOOLEAN /\ "FAILED" # "SUCCESS"  BY DEF Final
    <3>. QED BY <1>3, <3>1, <3>2, <3>3, EndLife
  <2>2. ASSUME NEW c \in Bootstraps, c # b PROVE LifeOf(c)'
    BY <1>1, <1>3, <2>2, EndOthers, SameLife DEF Life, Same
  <2>. QED BY <2>1, <2>2 DEF Life
<1>4. CASE ~Ends(b, "FAILED", FALSE)
  <2>1. /\ state' = [state EXCEPT ![b] = "WAITING_FOR_LINK"] /\ bootstraps' = bootstraps \cup {b}
        /\ UNCHANGED <<connectionHandle, closing, told>>
    BY <1>4 DEF PrepareToBootstrap, SetState
  <2>2. LifeOf(b)'
    <3>1. state'[b] = "WAITING_FOR_LINK" /\ b \in bootstraps'  BY <2>1 DEF TypeOK
    <3>2. Closed(b)' = Closed(b)  BY DEF Closed, Status, CloseHandle
    <3>. QED BY <1>1, <1>2, <2>1, <3>1, <3>2 DEF LifeOf, Follows, Untouched, HandleFits, Waiting
  <2>3. ASSUME NEW c \in Bootstraps, c # b PROVE LifeOf(c)'
    BY <1>1, <2>1, <2>3, SameLife DEF Life, Same, TypeOK
  <2>. QED BY <2>2, <2>3 DEF Life
<1>. QED BY <1>3, <1>4

\* The other calls of the manager, and the link.
LEMMA CancelLife ==
    ASSUME TypeOK, Life, NEW b \in Bootstraps, CancelBootstrap(b)
    PROVE  Life'
<1>1. UNCHANGED <<bootstrapConnection, accepted, statuses>>  BY DEF CancelBootstrap, sdkVars
<1>2. LifeOf(b)'
  <2>1. bootstrapConnection[b] \in BOOLEAN /\ "CANCELLED" \in Final  BY DEF TypeOK, Final
  <2>. QED BY <1>1, <2>1, EndLife, AcceptedOnce DEF CancelBootstrap, Life
<1>3. ASSUME NEW c \in Bootstraps, c # b PROVE LifeOf(c)'
  BY <1>1, <1>3, EndOthers, SameLife DEF CancelBootstrap, Life, Same
<1>. QED BY <1>2, <1>3 DEF Life

LEMMA LinkLife ==
    ASSUME TypeOK, Life, NEW b \in Bootstraps, LinkCreated(b) \/ LinkDestroyed(b)
    PROVE  Life'
<1>1. UNCHANGED <<bootstrapConnection, accepted, statuses>>
  BY DEF LinkCreated, LinkDestroyed, Fails
<1>2. CASE b \notin bootstraps
  BY <1>1, <1>2, QuietLife DEF LinkCreated, LinkDestroyed
<1>3. CASE b \in bootstraps /\ Fails(b)
  BY <1>1, <1>3, FailLife, AcceptedOnce
<1>4. CASE b \in bootstraps /\ ~Fails(b)
  <2>1. /\ state[b] = "WAITING_FOR_LINK" /\ state' = [state EXCEPT ![b] = "WAITING_FOR_NM"]
        /\ UNCHANGED <<bootstraps, connectionHandle, closing, told>>
    BY <1>1, <1>4 DEF LinkCreated, LinkDestroyed, Fails, SetState
  <2>2. LifeOf(b)'
    <3>1. Follows(b) /\ Closed(b)' = Closed(b)  BY <1>4, AcceptedOnce DEF Closed, Status, CloseHandle
    <3>2. state'[b] = "WAITING_FOR_NM"  BY <2>1 DEF TypeOK
    <3>. QED BY <1>1, <1>4, <2>1, <3>1, <3>2 DEF LifeOf, Follows, HandleFits, Waiting
  <2>3. ASSUME NEW c \in Bootstraps, c # b PROVE LifeOf(c)'
    BY <1>1, <2>1, <2>3, SameLife DEF Life, Same, TypeOK
  <2>. QED BY <2>2, <2>3 DEF Life
<1>. QED BY <1>2, <1>3, <1>4

LEMMA DeviceLife ==
    ASSUME TypeOK, Life, NEW b \in Bootstraps, BootstrapDevice(b) \/ BootstrapFailed(b)
    PROVE  Life'
<1>1. UNCHANGED <<bootstrapConnection, accepted, statuses>> /\ b \in bootstraps
  BY DEF BootstrapDevice, BootstrapFailed, Fails, sdkVars
<1>2. CASE Fails(b)  BY <1>1, <1>2, FailLife, AcceptedOnce
<1>3. CASE ~Fails(b)
  <2>1. /\ state[b] = "WAITING_FOR_NM" /\ state' = [state EXCEPT ![b] = "WAITING_FOR_BOOTSTRAP_PKG"]
        /\ connectionHandle' = [connectionHandle EXCEPT ![b] = OpenHandle(b)]
        /\ UNCHANGED <<bootstraps, closing, told>>
    BY <1>3 DEF BootstrapDevice, BootstrapFailed, SetState
  <2>2. LifeOf(b)'
    <3>1. Follows(b) /\ Closed(b)' = Closed(b)  BY <1>1, AcceptedOnce DEF Closed, Status, CloseHandle
    <3>2. /\ state'[b] = "WAITING_FOR_BOOTSTRAP_PKG"
          /\ connectionHandle'[b] = OpenHandle(b) /\ OpenHandle(b)' = OpenHandle(b)
      BY <2>1 DEF TypeOK, OpenHandle
    <3>. QED BY <1>1, <2>1, <3>1, <3>2 DEF LifeOf, Follows, HandleFits, Waiting
  <2>3. ASSUME NEW c \in Bootstraps, c # b PROVE LifeOf(c)'
    BY <1>1, <2>1, <2>3, SameLife DEF Life, Same, TypeOK
  <2>. QED BY <2>2, <2>3 DEF Life
<1>. QED BY <1>2, <1>3

\* A package is accepted in the one state that expects it, and the close is requested.
LEMMA PackageLife ==
    ASSUME TypeOK, Life, NEW b \in Bootstraps, OnReceiveEncPkg(b)
    PROVE  Life'
<1>1. b \in bootstraps /\ UNCHANGED <<bootstrapConnection, statuses>>
  BY DEF OnReceiveEncPkg, Fails, sdkVars
<1>2. Follows(b) /\ accepted[b] <= 1  BY <1>1, AcceptedOnce
<1>3. /\ \A c \in Bootstraps \ {b} : accepted'[c] = accepted[c]
      /\ accepted'[b] <= 1
      /\ ~Fails(b) => state[b] = "WAITING_FOR_BOOTSTRAP_PKG" /\ accepted'[b] = 1 /\ CloseConnection(b)
  BY <1>2 DEF OnReceiveEncPkg, Expected, TypeOK, Follows
<1>4. CASE Fails(b)  BY <1>1, <1>3, <1>4, FailLife
<1>5. CASE ~Fails(b)
  <2>1. /\ state' = [state EXCEPT ![b] = "WAITING_FOR_CONNECTION_CLOSED"]
        /\ connectionHandle' = [connectionHandle EXCEPT ![b] = CloseHandle(b)]
        /\ closing' = [closing EXCEPT ![b] = "asked"]
        /\ UNCHANGED <<bootstraps, told>>
    BY <1>3, <1>5 DEF OnReceiveEncPkg, CloseConnection, SetState
  <2>2. LifeOf(b)'
    <3>1. Closed(b)' = Closed(b) /\ Closed(b) \notin statuses
      BY <1>2, <1>3, <1>5 DEF Closed, Status, CloseHandle, Follows
    <3>2. /\ state'[b] = "WAITING_FOR_CONNECTION_CLOSED" /\ closing'[b] = "asked"
          /\ connectionHandle'[b] = CloseHandle(b) /\ CloseHandle(b)' = CloseHandle(b)
      BY <2>1 DEF TypeOK, CloseHandle
    <3>. QED BY <1>1, <1>2, <1>3, <1>5, <2>1, <3>1, <3>2 DEF LifeOf, Follows, HandleFits, Waiting
  <2>3. ASSUME NEW c \in Bootstraps, c # b PROVE LifeOf(c)'
    BY <1>1, <1>3, <2>1, <2>3, SameLife DEF Life, Same, TypeOK
  <2>. QED BY <2>2, <2>3 DEF Life
<1>. QED BY <1>4, <1>5

\* Statuses that are not the answer to the close of a bootstrap.
LEMMA OtherStatus ==
    ASSUME NEW b \in Bootstraps, NEW h, NEW s, h # CloseHandle(b),
           statuses' = statuses \cup {Status(h, s)}
    PROVE  Closed(b) \in statuses' => Closed(b) \in statuses
BY DEF Closed, Status

\* The plugins open and close connections; the close that was asked for is answered.
LEMMA PluginLife ==
    ASSUME TypeOK, Life, NEW b \in Bootstraps, PluginStep(b)
    PROVE  Life'
<1>1. UNCHANGED <<bootstraps, state, connectionHandle, bootstrapConnection, told, accepted>>
  BY DEF PluginStep, PluginOpens, PluginRefuses, PluginCloses, PluginClosesOnItsOwn, Closes, infoVars
<1>2. CASE PluginCloses(b)
  <2>1. /\ closing[b] = "asked" /\ closing' = [closing EXCEPT ![b] = "answered"]
        /\ statuses' = statuses \cup {Status(CloseHandle(b), "CLOSED")}
    BY <1>2 DEF PluginCloses, Closes
  <2>2. LifeOf(b)'
    <3>1. LifeOf(b) /\ closing'[b] = "answered"  BY <2>1 DEF Life, TypeOK
    <3>2. CASE state[b] = "INITIALIZED"  BY <2>1, <3>1, <3>2 DEF LifeOf, Untouched
    <3>3. CASE state[b] # "INITIALIZED" /\ b \in bootstraps
      BY <1>1, <2>1, <3>1, <3>3 DEF LifeOf, Follows, HandleFits, OpenHandle, CloseHandle
    <3>4. CASE state[b] # "INITIALIZED" /\ b \notin bootstraps
      BY <1>1, <3>1, <3>4 DEF LifeOf, Ended
    <3>. QED BY <3>2, <3>3, <3>4
  <2>3. ASSUME NEW c \in Bootstraps, c # b PROVE LifeOf(c)'
    <3>1. Closed(c) \in statuses' => Closed(c) \in statuses  BY <2>1, <2>3, ClosedIsOwn DEF Closed
    <3>. QED BY <1>1, <2>1, <2>3, <3>1, SameLife DEF Life, Same, TypeOK
  <2>. QED BY <2>2, <2>3 DEF Life
<1>3. CASE ~PluginCloses(b)
  <2>1. /\ UNCHANGED closing
        /\ \E h \in {OpenHandle(b), NULL_RACE_HANDLE}, s \in {"OPEN", "CLOSED"} :
              statuses' = statuses \cup {Status(h, s)}
    BY <1>3 DEF PluginStep, PluginOpens, PluginRefuses, PluginClosesOnItsOwn, Closes, infoVars
  <2>2. \A c \in Bootstraps : Closed(c) \in statuses' => Closed(c) \in statuses
    BY <2>1, OtherStatus, ClosedIsOwn
  <2>. QED BY <1>1, <2>1, <2>2, QuietLife DEF infoVars
<1>. QED BY <1>2, <1>3

LEMMA AnotherLife ==
    ASSUME Life, AnotherConnectionCloses
    PROVE  Life'
<1>1. \A c \in Bootstraps : Closed(c) \in statuses' => Closed(c) \in statuses
  BY OtherStatus, ClosedIsOwn DEF AnotherConnectionCloses
<1>. QED BY <1>1, QuietLife DEF AnotherConnectionCloses

\* A status reaches the oldest bootstrap with its handle: it is the one it waits for, or
\* the bootstrap fails.
LEMMA StatusLife ==
    ASSUME TypeOK, Life, NEW r \in Statuses, OnConnectionStatusChanged(r)
    PROVE  Life'
<1>1. accepted' = accepted /\ statuses' \subseteq statuses /\ r \in statuses
  BY DEF OnConnectionStatusChanged
<1>2. CASE UNCHANGED <<bootstraps, infoVars, bootstrapConnection, told, tasks>>
  BY <1>1, <1>2, QuietLife
<1>3. ASSUME NEW b \in bootstraps, connectionHandle[b] = r.handle, StatusOf(b, r.status)
      PROVE  Life'
  <2>1. b \in Bootstraps /\ Follows(b) /\ accepted[b] <= 1
    BY <1>3, AcceptedOnce DEF TypeOK
  <2>2. CASE Fails(b)  BY <1>1, <2>1, <2>2, FailLife
  <2>3. CASE ~Fails(b) /\ Expected(b, "WAITING_FOR_BOOTSTRAP_PKG")
    <3>1. /\ state[b] = "WAITING_FOR_BOOTSTRAP_PKG"
          /\ bootstrapConnection' = [bootstrapConnection EXCEPT ![b] = TRUE]
          /\ UNCHANGED <<bootstraps, infoVars, told>>
      BY <1>3, <2>3 DEF StatusOf, Expected
    <3>2. LifeOf(b)'
      <4>1. Closed(b)' = Closed(b)  BY DEF Closed, Status, CloseHandle
      <4>. QED
        BY <1>1, <1>3, <2>1, <3>1, <4>1
        DEF LifeOf, Follows, HandleFits, infoVars, TypeOK, OpenHandle, CloseHandle, Waiting
    <3>3. ASSUME NEW c \in Bootstraps, c # b PROVE LifeOf(c)'
      BY <1>1, <2>1, <3>1, <3>3, SameLife DEF Life, Same, TypeOK, infoVars
    <3>. QED BY <3>2, <3>3 DEF Life
  <2>4. CASE ~Fails(b) /\ ~Expected(b, "WAITING_FOR_BOOTSTRAP_PKG")
    <3>1. /\ r.status = "CLOSED" /\ state[b] = "WAITING_FOR_CONNECTION_CLOSED"
          /\ bootstrapConnection' = [bootstrapConnection EXCEPT ![b] = FALSE]
          /\ Ends(b, "SUCCESS", FALSE)
      BY <1>3, <2>4 DEF StatusOf, Expected
    <3>2. closing[b] = "answered" /\ accepted[b] = 1
      <4>1. r.handle = CloseHandle(b)  BY <1>3, <2>1, <3>1 DEF Follows, HandleFits
      <4>2. r = Status(r.handle, r.status)  BY DEF Statuses, Status
      <4>3. Closed(b) \in statuses  BY <1>1, <3>1, <4>1, <4>2 DEF Closed
      <4>. QED BY <2>1, <3>1, <4>3 DEF Follows
    <3>3. LifeOf(b)'
      <4>1. ~bootstrapConnection'[b] /\ LifeOf(b)  BY <2>1, <3>1 DEF TypeOK, Life
      <4>2. accepted'[b] = 1 /\ accepted'[b] <= 1  BY <1>1, <3>2
      <4>3. "SUCCESS" \in Final /\ FALSE \in BOOLEAN  BY DEF Final
      <4>. QED BY <1>3, <2>1, <3>1, <3>2, <4>1, <4>2, <4>3, EndLife
    <3>4. ASSUME NEW c \in Bootstraps, c # b PROVE LifeOf(c)'
      BY <1>1, <2>1, <3>1, <3>4, EndOthers, SameLife DEF Life, Same, TypeOK
    <3>. QED BY <3>3, <3>4 DEF Life
  <2>. QED BY <2>2, <2>3, <2>4
<1>. QED BY <1>2, <1>3 DEF OnConnectionStatusChanged, Oldest

LEMMA ThreadLife ==
    ASSUME TypeOK, Life, NEW b \in Bootstraps, ThreadStep(b)
    PROVE  Life'
<1>1. UNCHANGED <<accepted, statuses>>
  BY DEF ThreadStep, FetchArtifacts, StartBundling, Bundled, SeesCancelled, BundlingFails, OpenConnection,
         RemoveFiles, sdkVars
<1>2. CASE b \in bootstraps /\ Fails(b)  BY <1>1, <1>2, FailLife, AcceptedOnce
<1>3. CASE ~(b \in bootstraps /\ Fails(b))
  <2>1. UNCHANGED <<bootstraps, infoVars, bootstrapConnection, told>>
    BY <1>3 DEF ThreadStep, FetchArtifacts, StartBundling, Bundled, SeesCancelled, BundlingFails,
                OpenConnection, RemoveFiles
  <2>. QED BY <1>1, <2>1, QuietLife
<1>. QED BY <1>2, <1>3

--------------------------------------------------------------------------------
(* Theorems                                                                   *)

LEMMA BInvInit == Init => BInv
<1>. SUFFICES ASSUME Init PROVE BInv  OBVIOUS
<1>1. TypeOK
  <2>1. told \in [Bootstraps -> Seq(Final)] /\ tasks \in Seq(Tasks)  BY DEF Init
  <2>. QED BY <2>1 DEF Init, TypeOK, Waiting, Final, Statuses
<1>2. Life  BY DEF Init, Life, LifeOf, Untouched
<1>. QED BY <1>1, <1>2 DEF BInv

LEMMA BInvStep == BInv /\ [Next]_vars => BInv'
<1>. SUFFICES ASSUME TypeOK, Life, [Next]_vars PROVE TypeOK' /\ Life'  BY DEF BInv
<1>1. TypeOK'  BY TypesStep
<1>2. CASE UNCHANGED vars
  <2>1. statuses' = statuses /\ UNCHANGED <<bootstraps, infoVars, bootstrapConnection, told, accepted>>
    BY <1>2 DEF vars, sdkVars
  <2>2. \A b \in Bootstraps : Closed(b) \in statuses' => Closed(b) \in statuses  BY <2>1
  <2>. QED BY <1>1, <2>1, <2>2, QuietLife
<1>3. ASSUME NEW b \in Bootstraps, ManagerStep(b) PROVE Life'
  BY <1>3, PrepareLife, CancelLife, LinkLife, DeviceLife, PackageLife DEF ManagerStep
<1>4. ASSUME NEW b \in Bootstraps, PluginStep(b) \/ ThreadStep(b) PROVE Life'
  BY <1>4, PluginLife, ThreadLife
<1>. QED BY <1>1, <1>2, <1>3, <1>4, AnotherLife, StatusLife DEF Next

\* Whatever races, the variables of the manager and its thread keep their types.
THEOREM TypeCorrect == Spec => []TypeOK
<1>1. BInv => TypeOK  BY DEF BInv
<1>. QED BY BInvInit, BInvStep, <1>1, PTL DEF Spec

\* The network manager hears of the end of a bootstrap once, and when it has ended.
THEOREM EndsOnceCorrect == Spec => []EndsOnce
<1>1. BInv => EndsOnce
  <2>. SUFFICES ASSUME BInv, NEW b \in Bootstraps
                PROVE  Len(told[b]) = (IF state[b] = "INITIALIZED" \/ b \in bootstraps THEN 0 ELSE 1)
    BY DEF EndsOnce
  <2>1. LifeOf(b)  BY DEF BInv, Life
  <2>2. CASE state[b] = "INITIALIZED" \/ b \in bootstraps
    <3>1. told[b] = <<>>  BY <2>1, <2>2 DEF LifeOf, Untouched, Follows
    <3>. QED BY <2>2, <3>1
  <2>3. CASE ~(state[b] = "INITIALIZED" \/ b \in bootstraps)
    <3>1. PICK s \in Final : told[b] = <<s>>  BY <2>1, <2>3 DEF LifeOf, Ended
    <3>. QED BY <2>3, <3>1
  <2>. QED BY <2>2, <2>3
<1>. QED BY BInvInit, BInvStep, <1>1, PTL DEF Spec

\* The answer by which a pending bootstrap goes on is the one it waits for.
THEOREM HandlesCorrect == Spec => []HandlesFollowState
<1>1. BInv => HandlesFollowState
  BY AcceptedOnce DEF BInv, HandlesFollowState, Follows, TypeOK
<1>. QED BY BInvInit, BInvStep, <1>1, PTL DEF Spec

\* No bootstrap is a success before its package arrived and its connection was closed
\* on request, and none introduces two personas.
THEOREM SuccessCorrect == Spec => []SuccessIsEarned
<1>1. BInv => SuccessIsEarned
  <2>. SUFFICES ASSUME BInv, NEW b \in Bootstraps
                PROVE  /\ told[b] = <<"SUCCESS">> => accepted[b] = 1 /\ closing[b] = "answered"
                       /\ accepted[b] <= 1
    BY DEF SuccessIsEarned
  <2>1. accepted[b] <= 1  BY AcceptedOnce DEF BInv
  <2>2. <<"SUCCESS">> # <<>>  OBVIOUS
  <2>. QED BY <2>1, <2>2 DEF BInv, Life, LifeOf, Untouched, Follows, Ended
<1>. QED BY BInvInit, BInvStep, <1>1, PTL DEF Spec

\* A connection that was known when its bootstrap ended was asked to close, unless
\* closeConnection() refused.
THEOREM CloseCorrect == Spec => []KnownConnectionIsClosed
<1>1. BInv => KnownConnectionIsClosed
  BY DEF BInv, Life, LifeOf, Untouched, Ended, KnownConnectionIsClosed
<1>. QED BY BInvInit, BInvStep, <1>1, PTL DEF Spec

--------------------------------------------------------------------------------
(* The directories.  The one removal of a directory is posted when its         *)
(* bootstrap ends, so it is behind every task that uses the directory, and no  *)
(* later bootstrap has it.                                                     *)

Posted == 1 .. Len(tasks)
Serves(i)  == tasks[i][1] = "serve"
Removes(i) == tasks[i][1] = "remove"
FilesInv ==
    /\ bootstraps \subseteq files
    /\ \A i \in Posted : Serves(i) => tasks[i][2] \in files
    /\ \A i \in Posted :
          Removes(i) => tasks[i][2] \notin bootstraps /\ state[tasks[i][2]] # "INITIALIZED"
    /\ \A i, j \in Posted : i < j /\ Removes(i) /\ Serves(j) => tasks[i][2] # tasks[j][2]
    /\ serving # "no" => tasks # <<>> /\ Serves(1)

\* No bootstrap is forgotten once it was asked for.
Known == \A c \in Bootstraps : state[c] # "INITIALIZED" => state'[c] # "INITIALIZED"

\* A task is a pair of its kind and its bootstrap.
LEMMA PostedTask ==
    ASSUME TypeOK
    PROVE  /\ Len(tasks) \in Nat
           /\ \A i \in Posted : tasks[i] \in Tasks /\ tasks[i][2] \in Bootstraps
           /\ tasks # <<>> => 1 \in Posted /\ Head(tasks) = tasks[1]
           /\ \A b \in Bootstraps : \A k : <<k, b>>[1] = k /\ <<k, b>>[2] = b
BY DEF TypeOK, Posted, Tasks

\* Nothing is posted or done.
LEMMA FilesKept ==
    ASSUME TypeOK, FilesInv, Known, tasks' = tasks, files \subseteq files',
           bootstraps' \subseteq files',
           \A c \in bootstraps' \ bootstraps : state[c] = "INITIALIZED",
           serving' # "no" => serving # "no" \/ (tasks # <<>> /\ Serves(1))
    PROVE  FilesInv'
<1>1. Posted' = Posted /\ \A i : (Serves(i)' <=> Serves(i)) /\ (Removes(i)' <=> Removes(i))
  BY DEF Posted, Serves, Removes
<1>2. ASSUME NEW i \in Posted, Removes(i)
      PROVE  tasks[i][2] \notin bootstraps' /\ state'[tasks[i][2]] # "INITIALIZED"
  BY <1>2, PostedTask DEF FilesInv, Known
<1>. QED BY <1>1, <1>2 DEF FilesInv

\* onBootstrapFinished() posts the removal behind all that is posted.
LEMMA FilesEnds ==
    ASSUME TypeOK, FilesInv, NEW b \in Bootstraps, NEW s \in Final, NEW known, Ends(b, s, known),
           files \subseteq files', serving' # "no" => serving # "no"
    PROVE  FilesInv'
<1>0. PICK n \in Nat : n = Len(tasks)  BY PostedTask
<1>1. bootstraps' = bootstraps \ {b} /\ tasks' = Append(tasks, <<"remove", b>>)
  BY DEF Ends, Erased, RemovalPosted
<1>2. state'[b] # "INITIALIZED" /\ Known
  BY DEF Known, Ends, Cleanup, CloseConnection, RefuseClose, SetState, TypeOK, Final
<1>3. /\ n \in Nat /\ Len(tasks') = n + 1
      /\ tasks'[n + 1] = <<"remove", b>> /\ \A i \in 1 .. n : tasks'[i] = tasks[i]
  BY <1>0, <1>1 DEF TypeOK
<1>4. /\ Posted' = 1 .. (n + 1) /\ Posted = 1 .. n
      /\ \A i \in 1 .. n : (Serves(i)' <=> Serves(i)) /\ (Removes(i)' <=> Removes(i))
      /\ ~Serves(n + 1)'
  BY <1>0, <1>3 DEF Posted, Serves, Removes
<1>5. bootstraps' \subseteq files'  BY <1>1 DEF FilesInv
<1>6. \A i \in Posted' : Serves(i)' => tasks'[i][2] \in files'
  BY <1>3, <1>4 DEF FilesInv
<1>7. ASSUME NEW i \in Posted', Removes(i)'
      PROVE  tasks'[i][2] \notin bootstraps' /\ state'[tasks'[i][2]] # "INITIALIZED"
  <2>1. CASE i = n + 1  BY <1>1, <1>2, <1>3, <2>1
  <2>2. CASE i \in 1 .. n
    BY <1>1, <1>2, <1>3, <1>4, <1>7, <2>2, PostedTask DEF FilesInv, Known
  <2>. QED BY <1>3, <1>4, <2>1, <2>2
<1>8. \A i, j \in Posted' : i < j /\ Removes(i)' /\ Serves(j)' => tasks'[i][2] # tasks'[j][2]
  BY <1>3, <1>4 DEF FilesInv
<1>9. serving' # "no" => tasks' # <<>> /\ Serves(1)'
  <2>1. tasks # <<>> => 1 \in 1 .. n  BY <1>4, PostedTask
  <2>2. tasks' # <<>>  BY <1>1 DEF TypeOK
  <2>. QED BY <1>4, <2>1, <2>2 DEF FilesInv
<1>. QED BY <1>5, <1>6, <1>7, <1>8, <1>9 DEF FilesInv

LEMMA FilesFail ==
    ASSUME TypeOK, FilesInv, NEW b \in Bootstraps, Fails(b), files \subseteq files',
           serving' # "no" => serving # "no"
    PROVE  FilesInv'
BY FilesEnds DEF Fails, Final

\* bootstrapDevice() posts its tasks for a bootstrap that is pending.
LEMMA FilesServe ==
    ASSUME TypeOK, FilesInv, NEW b \in Bootstraps, b \in bootstraps,
           tasks' = Append(Append(tasks, <<"fetch", b>>), <<"serve", b>>),
           Known, UNCHANGED <<bootstraps, files, serving>>
    PROVE  FilesInv'
<1>0. PICK n \in Nat : n = Len(tasks)  BY PostedTask
<1>1. /\ n \in Nat /\ Len(tasks') = n + 2
      /\ tasks'[n + 1] = <<"fetch", b>> /\ tasks'[n + 2] = <<"serve", b>>
      /\ \A i \in 1 .. n : tasks'[i] = tasks[i]
  <2>1. /\ <<"fetch", b>> \in Tasks /\ <<"serve", b>> \in Tasks /\ tasks \in Seq(Tasks)
    BY DEF Tasks, TypeOK
  <2>. QED BY <1>0, <2>1
<1>2. /\ Posted' = 1 .. (n + 2) /\ Posted = 1 .. n
      /\ \A i \in 1 .. n : (Serves(i)' <=> Serves(i)) /\ (Removes(i)' <=> Removes(i))
      /\ ~Serves(n + 1)' /\ ~Removes(n + 1)' /\ ~Removes(n + 2)'
  BY <1>0, <1>1 DEF Posted, Serves, Removes
<1>3. \A i \in Posted' : i \in 1 .. n \/ i = n + 1 \/ i = n + 2  BY <1>1, <1>2
<1>4. \A i \in Posted' : Serves(i)' => tasks'[i][2] \in files'
  BY <1>1, <1>2, <1>3 DEF FilesInv
<1>5. ASSUME NEW i \in Posted', Removes(i)'
      PROVE  tasks'[i][2] \notin bootstraps' /\ state'[tasks'[i][2]] # "INITIALIZED"
  BY <1>1, <1>2, <1>3, <1>5, PostedTask DEF FilesInv, Known
<1>6. ASSUME NEW i \in Posted', NEW j \in Posted', i < j, Removes(i)', Serves(j)'
      PROVE  tasks'[i][2] # tasks'[j][2]
  <2>1. i \in 1 .. n /\ Removes(i) /\ tasks'[i] = tasks[i]  BY <1>1, <1>2, <1>3, <1>6
  <2>2. CASE j \in 1 .. n  BY <1>1, <1>2, <1>6, <2>1, <2>2 DEF FilesInv
  <2>3. CASE j = n + 2  BY <1>1, <1>2, <2>1, <2>3 DEF FilesInv
  <2>. QED BY <1>2, <1>3, <1>6, <2>2, <2>3
<1>7. serving' # "no" => tasks' # <<>> /\ Serves(1)'
  <2>1. tasks # <<>> => 1 \in 1 .. n  BY <1>2, PostedTask
  <2>2. tasks' # <<>>  BY <1>1
  <2>. QED BY <1>2, <2>1, <2>2 DEF FilesInv
<1>. QED BY <1>4, <1>5, <1>6, <1>7 DEF FilesInv

\* The thread is done with its first task.
LEMMA FilesDone ==
    ASSUME TypeOK, FilesInv, NEW b \in Bootstraps, NEW k, Doing(k, b), tasks' = Tail(tasks),
           files' = (IF k = "remove" THEN files \ {b} ELSE files),
           serving' = "no", UNCHANGED <<bootstraps, state>>
    PROVE  FilesInv'
<1>0. PICK n \in Nat : n = Len(tasks)  BY PostedTask
<1>1. /\ n \in Nat \ {0} /\ Len(tasks') = n - 1 /\ tasks[1] = <<k, b>>
      /\ \A i \in 1 .. (n - 1) : tasks'[i] = tasks[i + 1]
  BY <1>0 DEF TypeOK, Doing
<1>2. /\ Posted' = 1 .. (n - 1) /\ Posted = 1 .. n
      /\ \A i \in 1 .. (n - 1) : (Serves(i)' <=> Serves(i + 1)) /\ (Removes(i)' <=> Removes(i + 1))
      /\ Removes(1) <=> k = "remove"
  BY <1>0, <1>1 DEF Posted, Serves, Removes
<1>3. \A i \in Posted' : i + 1 \in Posted /\ 1 < i + 1 /\ 1 \in Posted  BY <1>1, <1>2
<1>4. bootstraps' \subseteq files'
  <2>1. k = "remove" => b \notin bootstraps  BY <1>1, <1>2 DEF FilesInv
  <2>. QED BY <2>1 DEF FilesInv
<1>5. ASSUME NEW i \in Posted', Serves(i)' PROVE tasks'[i][2] \in files'
  <2>1. Serves(i + 1) /\ tasks'[i] = tasks[i + 1]  BY <1>1, <1>2, <1>5
  <2>2. tasks[i + 1][2] \in files  BY <1>3, <1>5, <2>1 DEF FilesInv
  <2>3. k = "remove" => tasks[i + 1][2] # b  BY <1>1, <1>2, <1>3, <1>5, <2>1 DEF FilesInv
  <2>. QED BY <2>1, <2>2, <2>3
<1>6. ASSUME NEW i \in Posted', Removes(i)'
      PROVE  tasks'[i][2] \notin bootstraps' /\ state'[tasks'[i][2]] # "INITIALIZED"
  BY <1>1, <1>2, <1>3, <1>6 DEF FilesInv
<1>7. ASSUME NEW i \in Posted', NEW j \in Posted', i < j, Removes(i)', Serves(j)'
      PROVE  tasks'[i][2] # tasks'[j][2]
  <2>1. i + 1 < j + 1 /\ Removes(i + 1) /\ Serves(j + 1)  BY <1>1, <1>2, <1>7
  <2>. QED BY <1>1, <1>2, <1>3, <1>7, <2>1 DEF FilesInv
<1>. QED BY <1>4, <1>5, <1>6, <1>7 DEF FilesInv

LEMMA FilesManager ==
    ASSUME TypeOK, FilesInv, NEW b \in Bootstraps, ManagerStep(b)
    PROVE  FilesInv'
<1>1. CASE PrepareToBootstrap(b)
  <2>1. files \subseteq files' /\ serving' = serving  BY <1>1 DEF PrepareToBootstrap
  <2>2. CASE Ends(b, "FAILED", FALSE)
    BY <2>1, <2>2, FilesEnds DEF Final
  <2>3. CASE ~Ends(b, "FAILED", FALSE)
    <3>1. /\ state[b] = "INITIALIZED" /\ state' = [state EXCEPT ![b] = "WAITING_FOR_LINK"]
          /\ bootstraps' = bootstraps \cup {b} /\ b \in files' /\ tasks' = tasks
      BY <1>1, <2>3 DEF PrepareToBootstrap, SetState
    <3>2. Known  BY <3>1 DEF Known, TypeOK
    <3>3. bootstraps' \subseteq files'  BY <2>1, <3>1 DEF FilesInv
    <3>. QED BY <2>1, <3>1, <3>2, <3>3, FilesKept
  <2>. QED BY <2>2, <2>3
<1>2. ASSUME Ends(b, "CANCELLED", bootstrapConnection[b]) \/ Fails(b),
             UNCHANGED <<files, serving>>
      PROVE  FilesInv'
  BY <1>2, FilesEnds, FilesFail DEF Final
<1>3. ASSUME ~Fails(b), LinkCreated(b) \/ LinkDestroyed(b)
      PROVE  FilesInv'
  <2>1. /\ UNCHANGED <<bootstraps, tasks, files, serving>>
        /\ state' = state \/ state' = [state EXCEPT ![b] = "WAITING_FOR_NM"]
    BY <1>3 DEF LinkCreated, LinkDestroyed, Fails, SetState, infoVars
  <2>2. Known  BY <2>1 DEF Known, TypeOK
  <2>3. bootstraps' \subseteq files'  BY <2>1 DEF FilesInv
  <2>. QED BY <2>1, <2>2, <2>3, FilesKept
<1>4. ASSUME ~Fails(b), BootstrapDevice(b) PROVE FilesInv'
  <2>1. /\ b \in bootstraps /\ state' = [state EXCEPT ![b] = "WAITING_FOR_BOOTSTRAP_PKG"]
        /\ tasks' = Append(Append(tasks, <<"fetch", b>>), <<"serve", b>>)
        /\ UNCHANGED <<bootstraps, files, serving>>
    BY <1>4 DEF BootstrapDevice, SetState
  <2>2. Known  BY <2>1 DEF Known, TypeOK
  <2>. QED BY <2>1, <2>2, FilesServe
<1>5. ASSUME ~Fails(b), OnReceiveEncPkg(b) PROVE FilesInv'
  <2>1. /\ state' = [state EXCEPT ![b] = "WAITING_FOR_CONNECTION_CLOSED"]
        /\ UNCHANGED <<bootstraps, tasks, files, serving>>
    BY <1>5 DEF OnReceiveEncPkg, CloseConnection, SetState
  <2>2. Known  BY <2>1 DEF Known, TypeOK
  <2>3. bootstraps' \subseteq files'  BY <2>1 DEF FilesInv
  <2>. QED BY <2>1, <2>2, <2>3, FilesKept
<1>6. UNCHANGED <<files, serving>> \/ PrepareToBootstrap(b)
  BY DEF ManagerStep, CancelBootstrap, LinkCreated, LinkDestroyed, BootstrapDevice,
         BootstrapFailed, OnReceiveEncPkg
<1>. QED BY <1>1, <1>2, <1>3, <1>4, <1>5, <1>6 DEF ManagerStep, CancelBootstrap, BootstrapFailed

LEMMA FilesThread ==
    ASSUME TypeOK, FilesInv, NEW b \in Bootstraps, ThreadStep(b)
    PROVE  FilesInv'
<1>1. CASE FetchArtifacts(b) \/ SeesCancelled(b) \/ OpenConnection(b) \/ RemoveFiles(b)
  <2>1. PICK k : /\ Doing(k, b) /\ tasks' = Tail(tasks)
                 /\ files' = (IF k = "remove" THEN files \ {b} ELSE files)
                 /\ k # "serve" => serving' = serving
                 /\ k = "serve" => serving' = "no"
                 /\ UNCHANGED <<bootstraps, state>>
    BY <1>1 DEF FetchArtifacts, SeesCancelled, OpenConnection, RemoveFiles, infoVars
  <2>2. k # "serve" => serving = "no"
    <3>1. tasks # <<>> /\ tasks[1] = <<k, b>>  BY <2>1, PostedTask DEF Doing
    <3>. QED BY <3>1 DEF FilesInv, Serves
  <2>. QED BY <2>1, <2>2, FilesDone
<1>2. CASE StartBundling(b) \/ Bundled(b)
  <2>1. Doing("serve", b) /\ UNCHANGED <<tasks, bootstraps, state, files>>
    BY <1>2 DEF StartBundling, Bundled, Enters, infoVars
  <2>2. tasks # <<>> /\ Serves(1)  BY <2>1, PostedTask DEF Doing, Serves
  <2>3. Known /\ bootstraps' \subseteq files'  BY <2>1 DEF Known, FilesInv
  <2>. QED BY <2>1, <2>2, <2>3, FilesKept
<1>3. CASE BundlingFails(b)
  <2>1. serving # "no" /\ files' = files  BY <1>3 DEF BundlingFails
  <2>2. CASE Fails(b)  BY <2>1, <2>2, FilesFail
  <2>3. CASE ~Fails(b)
    <3>1. UNCHANGED <<tasks, bootstraps, state>>  BY <1>3, <2>3 DEF BundlingFails, infoVars
    <3>2. Known /\ bootstraps' \subseteq files'  BY <2>1, <3>1 DEF Known, FilesInv
    <3>. QED BY <2>1, <3>1, <3>2, FilesKept
  <2>. QED BY <2>2, <2>3
<1>. QED BY <1>1, <1>2, <1>3 DEF ThreadStep

LEMMA FilesStep ==
    ASSUME TypeOK, FilesInv, [Next]_vars
    PROVE  FilesInv'
<1>1. ASSUME UNCHANGED <<tasks, bootstraps, state, files, serving>> PROVE FilesInv'
  <2>1. Known /\ bootstraps' \subseteq files'  BY <1>1 DEF Known, FilesInv
  <2>. QED BY <1>1, <2>1, FilesKept
<1>2. ASSUME NEW b \in Bootstraps, PluginStep(b) PROVE FilesInv'
  BY <1>1, <1>2 DEF PluginStep, PluginOpens, PluginRefuses, PluginCloses, PluginClosesOnItsOwn,
                    Closes, taskVars, infoVars
<1>3. CASE AnotherConnectionCloses
  BY <1>1, <1>3 DEF AnotherConnectionCloses, taskVars, infoVars
<1>4. ASSUME NEW r \in Statuses, OnConnectionStatusChanged(r) PROVE FilesInv'
  <2>1. UNCHANGED <<serving, files>>  BY <1>4 DEF OnConnectionStatusChanged
  <2>2. CASE UNCHANGED <<bootstraps, infoVars, bootstrapConnection, told, tasks>>
    BY <1>1, <2>1, <2>2 DEF infoVars
  <2>3. ASSUME NEW b \in bootstraps, StatusOf(b, r.status) PROVE FilesInv'
    <3>1. b \in Bootstraps  BY DEF TypeOK
    <3>2. CASE UNCHANGED <<bootstraps, infoVars, told, tasks>>
      BY <1>1, <2>1, <3>2 DEF infoVars
    <3>3. CASE Ends(b, "SUCCESS", FALSE)  BY <2>1, <3>1, <3>3, FilesEnds DEF Final
    <3>4. CASE Fails(b)  BY <2>1, <3>1, <3>4, FilesFail
    <3>. QED BY <2>3, <3>2, <3>3, <3>4 DEF StatusOf
  <2>. QED BY <1>4, <2>2, <2>3 DEF OnConnectionStatusChanged, Oldest
<1>5. CASE UNCHANGED vars  BY <1>1, <1>5 DEF vars, infoVars, taskVars
<1>. QED BY <1>1, <1>2, <1>3, <1>4, <1>5, FilesManager, FilesThread DEF Next

\* The directory of a bootstrap outlives the bootstrap and the bundling of its files,
\* however early it was cancelled and whoever ended it.
THEOREM FilesCorrect == Spec => []FilesOutliveTheirUse
<1>1. Init => BInv /\ FilesInv
  <2>1. Init => FilesInv  BY DEF Init, FilesInv, Posted
  <2>. QED BY <2>1, BInvInit
<1>2. (BInv /\ FilesInv) /\ [Next]_vars => (BInv /\ FilesInv)'
  BY BInvStep, FilesStep DEF BInv
<1>3. BInv /\ FilesInv => FilesOutliveTheirUse
  <2>. SUFFICES ASSUME TypeOK, FilesInv, serving = "bundling" PROVE Head(tasks)[2] \in files
    BY DEF BInv, FilesInv, FilesOutliveTheirUse
  <2>1. tasks # <<>> /\ Serves(1)  BY DEF FilesInv
  <2>. QED BY <2>1, PostedTask DEF FilesInv
<1>. QED BY <1>1, <1>2, <1>3, PTL DEF Spec
================================================================================
