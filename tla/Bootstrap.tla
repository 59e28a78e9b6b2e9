------------------------------- MODULE Bootstrap -------------------------------
(***************************************************************************)
(* A node introduces new nodes: racesdk/core BootstrapManager, with its    *)
(* BootstrapThread and what the application, the network manager and the   *)
(* comms plugins do to it through RaceSdk.                                 *)
(*                                                                         *)
(* Every call of the manager holds bootstrapLock from end to end and waits *)
(* for nothing, so it is one action.  The thread's tasks take the lock     *)
(* only to report a failure; they look at the state of a bootstrap, which  *)
(* is atomic, without it.                                                  *)
(***************************************************************************)
EXTENDS Integers, Sequences, FiniteSets

CONSTANTS
    Bootstraps,       \* every bootstrap the application may ask for
    NULL_RACE_HANDLE

OpenHandle(b)  == <<"open", b>>   \* handle of the request to open b's connection
CloseHandle(b) == <<"close", b>>  \* handle of the request to close it

ASSUME BootstrapAssumption ==
    /\ IsFiniteSet(Bootstraps)
    /\ \A b \in Bootstraps : NULL_RACE_HANDLE \notin {OpenHandle(b), CloseHandle(b)}

VARIABLES
    bootstraps,           \* the vector of pending bootstraps: its elements,
    age,                  \* and in which order they were pushed
    state,                \* BootstrapInfo::state
    connectionHandle,     \* BootstrapInfo::connectionHandle
    bootstrapConnection,  \* whether BootstrapInfo::bootstrapConnection is set
    told,                 \* history: final states reported to the network manager
    accepted,             \* history: bootstrap packages given to the network manager
    closing,              \* sdk.closeConnection for b: not called, refused, asked, answered
    tasks, serving,       \* of the bootstrap thread, and where its serveFiles task is
    files,                \* bootstraps whose directory exists
    link,                 \* what the comms plugin does with b's link
    asked,                \* bootstraps the network manager was asked to prepare
    conn,                 \* what the comms plugin does with b's connection
    linked,               \* bootstraps whose connection RaceLinks has
    statuses              \* onConnectionStatusChanged calls on their way

infoVars == <<state, connectionHandle, closing>>
sdkVars  == <<link, asked, conn, linked, statuses>>
taskVars == <<tasks, serving, files>>
vars == <<bootstraps, age, infoVars, bootstrapConnection, told, accepted, taskVars, sdkVars>>

Waiting == {"WAITING_FOR_LINK", "WAITING_FOR_NM", "WAITING_FOR_BOOTSTRAP_PKG",
            "WAITING_FOR_CONNECTION_CLOSED"}
Final == {"SUCCESS", "FAILED", "CANCELLED"}

Init ==
    /\ bootstraps = {} /\ age = [b \in Bootstraps |-> 0]
    /\ state = [b \in Bootstraps |-> "INITIALIZED"]
    /\ connectionHandle = [b \in Bootstraps |-> NULL_RACE_HANDLE]
    /\ bootstrapConnection = [b \in Bootstraps |-> FALSE]
    /\ told = [b \in Bootstraps |-> <<>>]
    /\ accepted = [b \in Bootstraps |-> 0]
    /\ closing = [b \in Bootstraps |-> "no"]
    /\ tasks = <<>> /\ serving = "no" /\ files = {}
    /\ link = [b \in Bootstraps |-> "none"]
    /\ asked = {}
    /\ conn = [b \in Bootstraps |-> "none"]
    /\ linked = {} /\ statuses = {}

--------------------------------------------------------------------------------
(* Parts of the manager's calls                                               *)

SetState(b, s) == state' = [state EXCEPT ![b] = s]

KeepsHandle(b) ==  \* mutant
    /\ SetState(b, "WAITING_FOR_CONNECTION_CLOSED")
    /\ closing' = [closing EXCEPT ![b] = "asked"]
    /\ UNCHANGED connectionHandle
\* closeBootstrapConnection(): the request is posted, or sdk.closeConnection refuses
CloseConnection(b) ==
    /\ SetState(b, "WAITING_FOR_CONNECTION_CLOSED")
    /\ connectionHandle' = [connectionHandle EXCEPT ![b] = CloseHandle(b)]
    /\ closing' = [closing EXCEPT ![b] = "asked"]
RefuseClose(b, s) ==
    /\ SetState(b, s)
    /\ closing' = [closing EXCEPT ![b] = IF @ = "no" THEN "refused" ELSE @]
    /\ UNCHANGED connectionHandle

NoCleanup(b, s, known) == SetState(b, s) /\ UNCHANGED <<connectionHandle, closing>>  \* mutant
\* cleanupBootstrap(): a connection that is known is closed, which sets the state again
Cleanup(b, s, known) ==
    IF known THEN CloseConnection(b) \/ RefuseClose(b, s)
    ELSE SetState(b, s) /\ UNCHANGED <<connectionHandle, closing>>

NeverRemoved(b) == tasks  \* mutant
RemovedFirst(b) == <<<<"remove", b>>>> \o tasks  \* mutant
\* onBootstrapFinished() of the thread: the directory is removed after what is pending
RemovalPosted(b) == Append(tasks, <<"remove", b>>)

ErasesNothing(b) == bootstraps  \* mutant
Erased(b) == bootstraps \ {b}

ToldAfterCleanup(s, known) == IF known THEN "INVALID" ELSE s  \* mutant
\* the network manager is told before cleanupBootstrap() sets the state again
FinalState(s, known) == s

\* the state becomes s and removePendingBootstrap() follows
Ends(b, s, known) ==
    /\ bootstraps' = Erased(b)
    /\ told' = [told EXCEPT ![b] = Append(@, FinalState(s, known))]
    /\ tasks' = RemovalPosted(b)
    /\ Cleanup(b, s, known)

Fails(b) ==
    /\ Ends(b, "FAILED", bootstrapConnection[b])
    /\ UNCHANGED bootstrapConnection

--------------------------------------------------------------------------------
(* The application                                                            *)

\* prepareToBootstrap(): directories, configurations and the request for a link; any
\* of them may fail, and the directory is removed even if it was never made
PrepareToBootstrap(b) ==
    /\ state[b] = "INITIALIZED"
    /\ age' = [age EXCEPT ![b] = Cardinality({c \in Bootstraps : state[c] # "INITIALIZED"})]
    /\ \E made \in BOOLEAN : files' = IF made THEN files \cup {b} ELSE files
    /\ \/ /\ b \in files'
          /\ SetState(b, "WAITING_FOR_LINK")
          /\ bootstraps' = bootstraps \cup {b}
          /\ link' = [link EXCEPT ![b] = "asked"]
          /\ UNCHANGED <<connectionHandle, closing, told, tasks>>
       \/ Ends(b, "FAILED", FALSE) /\ UNCHANGED link
    /\ UNCHANGED <<bootstrapConnection, accepted, serving, asked, conn, linked, statuses>>

\* cancelBootstrap(), with the handle prepareToBootstrap() returned
CancelBootstrap(b) ==
    /\ b \in bootstraps
    /\ Ends(b, "CANCELLED", bootstrapConnection[b])
    /\ UNCHANGED <<age, bootstrapConnection, accepted, serving, files, sdkVars>>

--------------------------------------------------------------------------------
(* The link: onLinkStatusChanged() with createdLinkHandle                     *)

LinkCreated(b) ==
    /\ link[b] = "asked"
    /\ link' = [link EXCEPT ![b] = "up"]
    /\ IF b \notin bootstraps THEN UNCHANGED <<bootstraps, infoVars, told, tasks, asked>>
       ELSE \/ /\ state[b] = "WAITING_FOR_LINK"
               /\ SetState(b, "WAITING_FOR_NM") /\ asked' = asked \cup {b}
               /\ UNCHANGED <<bootstraps, connectionHandle, closing, told, tasks>>
            \/ Ends(b, "FAILED", bootstrapConnection[b]) /\ UNCHANGED asked
    /\ UNCHANGED <<age, bootstrapConnection, accepted, serving, files, conn, linked, statuses>>

\* RaceSdk first closes the connections of the link, with the handle of the link
LinkDestroyed(b) ==
    /\ link[b] \in {"asked", "up"}
    /\ link' = [link EXCEPT ![b] = "down"]
    /\ linked' = linked \ {b}
    /\ conn' = [conn EXCEPT ![b] = IF @ = "open" THEN "closed" ELSE @]
    /\ IF b \notin bootstraps THEN UNCHANGED <<bootstraps, infoVars, told, tasks, bootstrapConnection>>
       ELSE Fails(b)
    /\ UNCHANGED <<age, accepted, serving, files, asked, statuses>>

--------------------------------------------------------------------------------
(* The network manager                                                        *)

\* bootstrapDevice(): configurations are copied, channels looked up and the two tasks
\* of the thread posted, which may fail in this order
BootstrapDevice(b) ==
    /\ b \in asked /\ b \in bootstraps
    /\ \/ /\ state[b] # "WAITING_FOR_NM"
          /\ Fails(b)
       \/ \* no channel, or no artifact manager
          /\ state[b] = "WAITING_FOR_NM"
          /\ Fails(b)
       \/ /\ state[b] = "WAITING_FOR_NM"
          /\ SetState(b, "WAITING_FOR_BOOTSTRAP_PKG")
          /\ connectionHandle' = [connectionHandle EXCEPT ![b] = OpenHandle(b)]
          /\ tasks' = Append(Append(tasks, <<"fetch", b>>), <<"serve", b>>)
          /\ UNCHANGED <<bootstraps, told, closing, bootstrapConnection>>
    /\ UNCHANGED <<age, accepted, serving, files, sdkVars>>

BootstrapFailed(b) ==
    /\ b \in asked /\ b \in bootstraps
    /\ Fails(b)
    /\ UNCHANGED <<age, accepted, serving, files, sdkVars>>

--------------------------------------------------------------------------------
(* Connections: RaceSdk keeps its list, then tells the manager of the handle  *)

Status(h, s) == [handle |-> h, status |-> s]
Statuses == {Status(OpenHandle(b), s) : b \in Bootstraps, s \in {"OPEN", "CLOSED"}}
            \cup {Status(CloseHandle(b), "CLOSED") : b \in Bootstraps}
            \cup {Status(NULL_RACE_HANDLE, "CLOSED")}

PluginOpens(b) ==
    /\ conn[b] = "requested" /\ link[b] = "up"
    /\ conn' = [conn EXCEPT ![b] = "open"]
    /\ linked' = linked \cup {b}
    /\ statuses' = statuses \cup {Status(OpenHandle(b), "OPEN")}
    /\ UNCHANGED <<bootstraps, age, infoVars, bootstrapConnection, told, accepted, taskVars, link, asked>>

Closes(b, h) ==
    /\ conn' = [conn EXCEPT ![b] = "closed"]
    /\ linked' = linked \ {b}
    /\ statuses' = statuses \cup {Status(h, "CLOSED")}
    /\ UNCHANGED <<bootstraps, age, state, connectionHandle, bootstrapConnection, told, accepted,
                   taskVars, link, asked>>

PluginRefuses(b) ==
    /\ conn[b] = "requested"
    /\ Closes(b, OpenHandle(b)) /\ UNCHANGED closing

PluginCloses(b) ==
    /\ conn[b] = "open" /\ closing[b] = "asked"
    /\ closing' = [closing EXCEPT ![b] = "answered"]
    /\ Closes(b, CloseHandle(b))

\* a plugin reports what it did not do on request with the null handle
PluginClosesOnItsOwn(b) ==
    /\ conn[b] = "open"
    /\ Closes(b, NULL_RACE_HANDLE) /\ UNCHANGED closing
AnotherConnectionCloses ==
    /\ statuses' = statuses \cup {Status(NULL_RACE_HANDLE, "CLOSED")}
    /\ UNCHANGED <<bootstraps, age, infoVars, bootstrapConnection, told, accepted, taskVars,
                   link, asked, conn, linked>>

\* std::find_if takes the first that was pushed
Oldest(S) == {b \in S : \A c \in S : age[b] <= age[c]}

StillExpected(b, s) == TRUE  \* mutant
Expected(b, s) == state[b] = s  \* EXPECT_STATE

StatusOf(b, s) ==
    \/ /\ s = "OPEN" /\ Expected(b, "WAITING_FOR_BOOTSTRAP_PKG")
       /\ bootstrapConnection' = [bootstrapConnection EXCEPT ![b] = TRUE]
       /\ UNCHANGED <<bootstraps, infoVars, told, tasks>>
    \/ /\ s = "CLOSED" /\ Expected(b, "WAITING_FOR_CONNECTION_CLOSED")
       /\ bootstrapConnection' = [bootstrapConnection EXCEPT ![b] = FALSE]
       /\ Ends(b, "SUCCESS", FALSE)
    \/ /\ ~Expected(b, IF s = "OPEN" THEN "WAITING_FOR_BOOTSTRAP_PKG"
                                     ELSE "WAITING_FOR_CONNECTION_CLOSED")
       /\ Fails(b)

OnConnectionStatusChanged(r) ==
    /\ r \in statuses /\ statuses' = statuses \ {r}
    /\ LET found == {b \in bootstraps : connectionHandle[b] = r.handle}
       IN  IF found = {} THEN UNCHANGED <<bootstraps, infoVars, bootstrapConnection, told, tasks>>
           ELSE \E b \in Oldest(found) : StatusOf(b, r.status)
    /\ UNCHANGED <<age, accepted, serving, files, link, asked, conn, linked>>

\* a package of type SDK on b's connection; one that does not parse changes nothing
OnReceiveEncPkg(b) ==
    /\ b \in linked /\ b \in bootstraps /\ bootstrapConnection[b]
    /\ \/ ~Expected(b, "WAITING_FOR_BOOTSTRAP_PKG") /\ Fails(b) /\ UNCHANGED accepted
       \/ /\ Expected(b, "WAITING_FOR_BOOTSTRAP_PKG")
          /\ accepted' = [accepted EXCEPT ![b] = @ + 1]
          /\ \/ /\ CloseConnection(b)
                /\ UNCHANGED <<bootstraps, told, tasks, bootstrapConnection>>
             \/ Fails(b)
    /\ UNCHANGED <<age, serving, files, sdkVars>>

--------------------------------------------------------------------------------
(* The bootstrap thread                                                       *)

Doing(kind, b) == tasks # <<>> /\ Head(tasks) = <<kind, b>>

FetchArtifacts(b) ==
    /\ Doing("fetch", b)
    /\ tasks' = Tail(tasks)
    /\ UNCHANGED <<bootstraps, age, infoVars, bootstrapConnection, told, accepted, serving, files, sdkVars>>

\* serveFiles(): the files are bundled and handed to the plugin, and the connection is
\* requested; before each of the two the thread looks whether b was cancelled
Enters(b, from, to) ==
    /\ Doing("serve", b) /\ serving = from /\ state[b] # "CANCELLED"
    /\ serving' = to
StartBundling(b) ==
    /\ Enters(b, "no", "bundling")
    /\ UNCHANGED <<bootstraps, age, infoVars, bootstrapConnection, told, accepted, tasks, files, sdkVars>>
Bundled(b) ==
    /\ Enters(b, "bundling", "opening")
    /\ UNCHANGED <<bootstraps, age, infoVars, bootstrapConnection, told, accepted, tasks, files, sdkVars>>
SeesCancelled(b) ==
    /\ Doing("serve", b) /\ serving \in {"no", "bundling"} /\ state[b] = "CANCELLED"
    /\ serving' = "no" /\ tasks' = Tail(tasks)
    /\ UNCHANGED <<bootstraps, age, infoVars, bootstrapConnection, told, accepted, files, sdkVars>>

\* onServeFilesFailed(), while the thread is still in its task
BundlingFails(b) ==
    /\ Doing("serve", b) /\ serving = "bundling"
    /\ serving' = "failed"
    /\ IF b \in bootstraps THEN Fails(b)
       ELSE UNCHANGED <<bootstraps, infoVars, bootstrapConnection, told, tasks>>
    /\ UNCHANGED <<age, accepted, files, sdkVars>>

\* openConnectionInternal(), whose answer nobody looks at, or the return of a failed task
OpenConnection(b) ==
    /\ Doing("serve", b) /\ serving \in {"opening", "failed"}
    /\ serving' = "no" /\ tasks' = Tail(tasks)
    /\ \/ serving = "opening" /\ conn' = [conn EXCEPT ![b] = "requested"]
       \/ UNCHANGED conn
    /\ UNCHANGED <<bootstraps, age, infoVars, bootstrapConnection, told, accepted, files,
                   link, asked, linked, statuses>>

RemoveFiles(b) ==
    /\ Doing("remove", b)
    /\ tasks' = Tail(tasks) /\ files' = files \ {b}
    /\ UNCHANGED <<bootstraps, age, infoVars, bootstrapConnection, told, accepted, serving, sdkVars>>

ThreadStep(b) ==
    \/ FetchArtifacts(b) \/ StartBundling(b) \/ Bundled(b) \/ SeesCancelled(b)
    \/ BundlingFails(b) \/ OpenConnection(b) \/ RemoveFiles(b)

--------------------------------------------------------------------------------
ManagerStep(b) ==
    \/ PrepareToBootstrap(b) \/ CancelBootstrap(b) \/ LinkCreated(b) \/ LinkDestroyed(b)
    \/ BootstrapDevice(b) \/ BootstrapFailed(b) \/ OnReceiveEncPkg(b)
PluginStep(b) ==
    PluginOpens(b) \/ PluginRefuses(b) \/ PluginCloses(b) \/ PluginClosesOnItsOwn(b)

Next ==
    \/ \E b \in Bootstraps : ManagerStep(b) \/ PluginStep(b) \/ ThreadStep(b)
    \/ AnotherConnectionCloses
    \/ \E r \in Statuses : OnConnectionStatusChanged(r)

Spec == Init /\ [][Next]_vars

\* the thread runs what is posted, and what it calls there returns
FairSpec == Spec /\ \A b \in Bootstraps : WF_vars(ThreadStep(b))

--------------------------------------------------------------------------------
(* Properties                                                                 *)

Tasks == {"fetch", "serve", "remove"} \X Bootstraps

\* The values the variables of the manager, its thread and the plugins take.
TypeOK ==
    /\ bootstraps \in SUBSET Bootstraps
    /\ age \in [Bootstraps -> Nat]
    /\ state \in [Bootstraps -> {"INITIALIZED"} \cup Waiting \cup Final]
    /\ connectionHandle \in [Bootstraps -> {NULL_RACE_HANDLE} \cup {OpenHandle(b) : b \in Bootstraps}
                                          \cup {CloseHandle(b) : b \in Bootstraps}]
    /\ bootstrapConnection \in [Bootstraps -> BOOLEAN]
    /\ told \in [Bootstraps -> Seq(Final)]
    /\ accepted \in [Bootstraps -> Nat]
    /\ closing \in [Bootstraps -> {"no", "refused", "asked", "answered"}]
    /\ tasks \in Seq(Tasks)
    /\ serving \in {"no", "bundling", "opening", "failed"}
    /\ files \in SUBSET Bootstraps
    /\ link \in [Bootstraps -> {"none", "asked", "up", "down"}]
    /\ asked \in SUBSET Bootstraps
    /\ conn \in [Bootstraps -> {"none", "requested", "open", "closed"}]
    /\ linked \in SUBSET Bootstraps
    /\ statuses \in SUBSET Statuses

\* A bootstrap ends once, whoever ends it: the network manager hears of one final state
\* when the bootstrap leaves the pending ones and never again, although cancellation,
\* the loss of the link, the failure of the thread and a second package may all race
\* (removePendingBootstrap()).
EndsOnce ==
    \A b \in Bootstraps :
        Len(told[b]) = (IF state[b] = "INITIALIZED" \/ b \in bootstraps THEN 0 ELSE 1)

\* the handle of the answer that is awaited
HandleFits(b) ==
    /\ state[b] \in {"WAITING_FOR_LINK", "WAITING_FOR_NM"} => connectionHandle[b] = NULL_RACE_HANDLE
    /\ state[b] = "WAITING_FOR_BOOTSTRAP_PKG" => connectionHandle[b] = OpenHandle(b)
    /\ state[b] = "WAITING_FOR_CONNECTION_CLOSED" => connectionHandle[b] = CloseHandle(b)

\* What a pending bootstrap waits for and the handle by which the answer is found
\* agree, so that the answer to an older request is not taken for the one awaited
\* (BootstrapInfo::connectionHandle, which three functions assign), and a connection is
\* known only once it was asked for.
HandlesFollowState ==
    \A b \in bootstraps :
        /\ state[b] \in Waiting /\ HandleFits(b)
        /\ bootstrapConnection[b] => state[b] \notin {"WAITING_FOR_LINK", "WAITING_FOR_NM"}

\* A success that is reported was earned: the new node's package went to the network
\* manager, and the plugin closed the connection at the request that followed
\* (handleConnectionClosed()).  And one bootstrap introduces one persona, however many
\* packages arrive before its connection is closed (handleBootstrapPkgReceived()).
SuccessIsEarned ==
    \A b \in Bootstraps : /\ told[b] = <<"SUCCESS">> => accepted[b] = 1 /\ closing[b] = "answered"
                          /\ accepted[b] <= 1

\* The directory of a bootstrap exists while the manager or the thread may write to it,
\* though another end of the bootstrap may have posted its removal meanwhile
\* (onBootstrapFinished(): "so as not to interfere with current/pending file IO").
FilesOutliveTheirUse ==
    /\ bootstraps \subseteq files
    /\ serving = "bundling" => Head(tasks)[2] \in files

\* A connection the manager knew of when its bootstrap ended is not forgotten: its
\* close was requested, or refused (cleanupBootstrap()).
KnownConnectionIsClosed ==
    \A b \in Bootstraps :
        bootstrapConnection[b] /\ b \notin bootstraps => closing[b] # "no"

\* The directory of a bootstrap that ended is removed, whatever the thread was doing
\* for it or for another one.
FilesRemoved == \A b \in Bootstraps : told[b] # <<>> ~> b \notin files

\* BootstrapManager.cpp:423 says of onConnectionStatusChanged() that "This only handles
\* expected changes due to calls to the comms": a status nobody asked for, which comes
\* with the null handle, changes no bootstrap.
OnlyExpectedChanges ==
    [][Status(NULL_RACE_HANDLE, "CLOSED") \in statuses \ statuses'
       => UNCHANGED <<bootstraps, state>>]_vars
================================================================================
