------------------------------ MODULE Connections ------------------------------
(***************************************************************************)
(* Links, connections and packages of one comms plugin as RaceSdk,         *)
(* RaceLinks, RaceChannels and the plugin's CommsWrapper keep them.        *)
(*                                                                         *)
(* The network manager asks; its request is noted and posted to the        *)
(* wrapper's handler, whose thread calls the plugin.  The plugin answers   *)
(* later and from any thread: its callback changes the wrapper, then the   *)
(* SDK, then tells the network manager, and holds no lock from one of      *)
(* these steps to the next.  A plugin that fails for good is shut down by  *)
(* a thread of its own, which tears down all it left.                      *)
(*                                                                         *)
(* A connection stands for the handle of the request it answers too, since *)
(* the SDK generates both anew for each request.  connToLink and           *)
(* connIdToInfo change together under linksLock, and one set stands for    *)
(* both.  closeConnection() and destroyLink() only post a call to the      *)
(* plugin: a plugin closes a connection or a link whenever it likes, asked *)
(* or not, and these two posts have no action of their own.                *)
(***************************************************************************)
EXTENDS Naturals, Sequences, FiniteSets

CONSTANTS
    Links, Conns, Packages,
    LinkOf,         \* the link each connection is requested on
    Timed,          \* connections requested with a finite send timeout
    Threads,        \* threads that run callbacks
    HandlerThread,  \* the one of the wrapper's handler
    Cleaner,        \* the one shutdownPluginAsync starts
    MaxQueued,      \* packages a connection's queue holds
    MaxChannelCalls,\* bound: calls that enable, disable or (de)activate
    None,
    Orderly         \* the plugin reports a connection as open before anybody
                    \* reports it closed or its link destroyed, and returns

ASSUME ConnectionsAssumption ==
    /\ LinkOf \in [Conns -> Links] /\ Timed \subseteq Conns
    /\ {HandlerThread, Cleaner} \subseteq Threads /\ HandlerThread # Cleaner
    /\ MaxQueued \in Nat /\ MaxChannelCalls \in Nat
    /\ None \notin Links \union Conns /\ Orderly \in BOOLEAN

VARIABLES
    channelStatus,      \* ChannelInfo::properties.channelStatus
    activateRequested, disableRequested,
    channelLinks,       \* channelIdToLinkIds
    handleToNewLink, linkIdToInfo, handleToLink,
    connections,        \* connToLink, and connIdToInfo of each link
    packageHandles,     \* packages cached with their connection...
    via,                \* ...which is this one
    state,              \* of the CommsWrapper, or gone from commsWrappers
    opening,            \* mHandlePriorityTimeoutMap
    timeouts,           \* mConnectionSendTimeoutMap
    queues,             \* the handler's queues that are not marked
    posted, work,       \* work on the default queue, and on each connection's
    blocked,
    handler,            \* state of the handler
    shutdowns,          \* where the thread of shutdownPluginAsync is
    thread,             \* the callback each thread is in
    pluginChannel, pluginLinks, pluginConns, pluginPackages,
    nmLinks, nmConns,   \* what the network manager was last told
    accepted, told,     \* packages sendEncryptedPackage took; packages reported
    held,               \* packages the VoA thread has
    calls               \* of those MaxChannelCalls bounds

channelVars == <<channelStatus, activateRequested, disableRequested, channelLinks, calls>>
linkVars == <<handleToNewLink, linkIdToInfo, handleToLink, connections>>
packageVars == <<packageHandles, via, accepted, told, held>>
handlerVars == <<posted, work, blocked, handler>>
wrapperVars == <<state, opening, timeouts, queues, shutdowns>>
pluginVars == <<pluginChannel, pluginLinks, pluginConns, pluginPackages>>
nmVars == <<nmLinks, nmConns>>
vars == <<channelVars, linkVars, packageVars, handlerVars, wrapperVars, thread,
          pluginVars, nmVars>>

ChannelStatuses == {"ENABLED", "STARTING", "AVAILABLE", "UNAVAILABLE", "FAILED", "DISABLED"}
Work == ({"open"} \X Conns) \union ({"create"} \X Links)
            \union ({"activate", "deactivate"} \X {None})
Callback == [at : {"idle", "wrapper", "sdk", "tell", "links", "conns"},
             status : {"OPEN", "CLOSED"}, conn : Conns \union {None}, own : BOOLEAN,
             link : Links \union {None}, todo : SUBSET Conns, rest : SUBSET Links]

TypeOK ==
    /\ channelStatus \in ChannelStatuses
    /\ activateRequested \in BOOLEAN /\ disableRequested \in BOOLEAN
    /\ channelLinks \subseteq Links /\ handleToNewLink \subseteq Links
    /\ linkIdToInfo \subseteq Links /\ handleToLink \subseteq Conns /\ connections \subseteq Conns
    /\ packageHandles \subseteq Packages /\ via \in [Packages -> Conns \union {None}]
    /\ state \in {"INITIALIZED", "SHUTDOWN", "GONE"}
    /\ opening \subseteq Conns /\ timeouts \subseteq Conns /\ queues \subseteq Conns
    /\ posted \in Seq(Work) /\ work \in [Conns -> Seq(Packages)] /\ blocked \subseteq Conns
    /\ handler \in {"STARTED", "STOPPING", "STOPPED"}
    /\ shutdowns \in {"none", "started", "waiting", "cleaning", "stopping", "done"}
    /\ thread \in [Threads -> Callback]
    /\ pluginChannel \in {"down", "asked", "up", "closing"}
    /\ pluginLinks \in [Links -> {"none", "asked", "up", "down"}]
    /\ pluginConns \in [Conns -> {"none", "asked", "refused", "up", "down"}]
    /\ pluginPackages \subseteq Packages
    /\ nmLinks \in [Links -> {"none", "asked", "CREATED", "DESTROYED"}]
    /\ nmConns \in [Conns -> {"none", "asked", "OPEN", "CLOSED"}]
    /\ accepted \subseteq Packages /\ told \subseteq Packages /\ held \subseteq Packages
    /\ calls \in 0 .. MaxChannelCalls

Idle == [at |-> "idle", status |-> "CLOSED", conn |-> None, own |-> FALSE, link |-> None,
         todo |-> {}, rest |-> {}]
Free(t) == thread[t] = Idle
Goes(t, callback) == thread' = [thread EXCEPT ![t] = callback]

\* The plugin's own threads and, while it is in a call, the handler's.
PluginThreads == Threads \ {Cleaner}
PluginAlive == state # "GONE" /\ shutdowns \notin {"cleaning", "stopping", "done"}

IsOpening(t, c) == thread[t].status = "OPEN" /\ thread[t].conn = c
IsDestroying(t, l) == l \in thread[t].rest \union {thread[t].link}
MayOpen(c) == Orderly => \A t \in Threads : ~IsDestroying(t, LinkOf[c])
MayClose(c) == Orderly => \A t \in Threads : ~IsOpening(t, c)
MayDestroy(ls) ==
    Orderly => \A t \in Threads, c \in Conns : LinkOf[c] \in ls => ~IsOpening(t, c)

Destroying(ls) == [Idle EXCEPT !.at = "links", !.rest = ls]
Reporting(c, status, own) ==
    [Idle EXCEPT !.at = "wrapper", !.status = status, !.conn = c, !.own = own]

-----------------------------------------------------------------------------
(***************************************************************************)
(* Calls of the network manager, the application and the VoA thread.  One  *)
(* that RaceSdk refuses before it changes anything has no action.          *)
(***************************************************************************)
Post(w) ==
    /\ posted' = IF state = "INITIALIZED" THEN Append(posted, w) ELSE posted
    /\ UNCHANGED <<work, blocked, handler>>

CountCall == calls < MaxChannelCalls /\ calls' = calls + 1

\* RaceSdk::activateChannel: a wrapper that is shutting down leaves the channel starting.
ActivateChannel ==
    /\ channelStatus = "ENABLED" /\ state # "GONE" /\ CountCall
    /\ channelStatus' = "STARTING" /\ activateRequested' = TRUE
    /\ Post(<<"activate", None>>)
    /\ UNCHANGED <<disableRequested, channelLinks, linkVars, packageVars, wrapperVars, thread,
                   pluginVars, nmVars>>

DeactivateChannel ==
    /\ channelStatus = "AVAILABLE" /\ state = "INITIALIZED" /\ CountCall
    /\ Post(<<"deactivate", None>>)
    /\ UNCHANGED <<channelStatus, activateRequested, disableRequested, channelLinks, linkVars,
                   packageVars, wrapperVars, thread, pluginVars, nmVars>>

\* Mutant: the properties are stored after the status, and carry their own.
StatusOverwritten(status) == "UNDEF"

\* RaceChannels::update.
StatusUpdated(status) == IF disableRequested THEN "DISABLED" ELSE status

\* A new status and, when the channel is lost, the links that go with it.
ChannelChanges(t, status) ==
    LET new == StatusUpdated(status)
    IN  /\ Free(t)
        /\ channelStatus' = new /\ disableRequested' = FALSE
        /\ activateRequested' = (activateRequested /\ status # "AVAILABLE")
        /\ UNCHANGED channelLinks
        /\ IF new \in {"FAILED", "DISABLED"}
           THEN MayDestroy(channelLinks) /\ Goes(t, Destroying(channelLinks))
           ELSE UNCHANGED thread

EnableChannel ==
    /\ channelStatus = "DISABLED" /\ state # "GONE" /\ CountCall
    /\ \E t \in PluginThreads : ChannelChanges(t, "ENABLED")
    /\ UNCHANGED <<linkVars, packageVars, handlerVars, wrapperVars, pluginVars, nmVars>>

DisableChannel ==
    /\ channelStatus # "DISABLED" /\ state # "GONE" /\ CountCall
    /\ \/ /\ channelStatus \in {"ENABLED", "UNAVAILABLE"}
          /\ \E t \in PluginThreads : ChannelChanges(t, "DISABLED")
          /\ UNCHANGED handlerVars
       \/ /\ channelStatus \notin {"ENABLED", "UNAVAILABLE"}
          /\ disableRequested' = TRUE /\ Post(<<"deactivate", None>>)
          /\ UNCHANGED <<channelStatus, activateRequested, channelLinks, thread>>
    /\ UNCHANGED <<linkVars, packageVars, wrapperVars, pluginVars, nmVars>>

\* createLink, loadLinkAddress and their like; one the wrapper refuses stays noted.
CreateLink(l) ==
    /\ nmLinks[l] = "none" /\ channelStatus = "AVAILABLE" /\ state # "GONE"
    /\ handleToNewLink' = handleToNewLink \union {l}
    /\ nmLinks' = [nmLinks EXCEPT ![l] = "asked"]
    /\ Post(<<"create", l>>)
    /\ UNCHANGED <<channelVars, linkIdToInfo, handleToLink, connections, packageVars,
                   wrapperVars, thread, pluginVars, nmConns>>

OpenConnection(c) ==
    /\ nmConns[c] = "none" /\ nmLinks[LinkOf[c]] = "CREATED" /\ state # "GONE"
    /\ handleToLink' = handleToLink \union {c}
    /\ IF state = "INITIALIZED"
       THEN opening' = opening \union {c} /\ nmConns' = [nmConns EXCEPT ![c] = "asked"]
       ELSE nmConns' = [nmConns EXCEPT ![c] = "CLOSED"] /\ UNCHANGED opening
    /\ Post(<<"open", c>>)
    /\ UNCHANGED <<channelVars, handleToNewLink, linkIdToInfo, connections, packageVars, state,
                   timeouts, queues, shutdowns, thread, pluginVars, nmLinks>>

\* The handle of a package that was told is no longer cached.
Tell(ps) == told' = told \union ps /\ packageHandles' = packageHandles \ ps

\* RaceSdk::shipPackage with the connections lock shared throughout.  Without an
\* entry in mConnectionSendTimeoutMap the timeout is zero and has passed.
Ship(p, c) ==
    \/ /\ state = "INITIALIZED" /\ c \notin timeouts
       /\ Tell({p}) /\ accepted' = accepted \union {p} /\ UNCHANGED work
    \/ /\ state = "INITIALIZED" /\ c \in timeouts \intersect queues /\ Len(work[c]) < MaxQueued
       /\ work' = [work EXCEPT ![c] = Append(@, p)]
       /\ packageHandles' = packageHandles \union {p} /\ accepted' = accepted \union {p}
       /\ UNCHANGED told
    \/ /\ state = "SHUTDOWN" \/ (state = "INITIALIZED" /\ c \in timeouts
                                  /\ (c \notin queues \/ Len(work[c]) >= MaxQueued))
       /\ packageHandles' = packageHandles \union {p} /\ UNCHANGED <<work, told, accepted>>

SendPackage(p, c) ==
    /\ via[p] = None /\ nmConns[c] = "OPEN" /\ c \in connections
    /\ via' = [via EXCEPT ![p] = c] /\ Ship(p, c)
    /\ UNCHANGED <<channelVars, linkVars, held, posted, blocked, handler, wrapperVars, thread,
                   pluginVars, nmVars>>

\* A VoA rule delays the package: its handle is cached at once.
HoldPackage(p, c) ==
    /\ via[p] = None /\ nmConns[c] = "OPEN" /\ c \in connections
    /\ via' = [via EXCEPT ![p] = c] /\ packageHandles' = packageHandles \union {p}
    /\ held' = held \union {p} /\ accepted' = accepted \union {p} /\ UNCHANGED told
    /\ UNCHANGED <<channelVars, linkVars, handlerVars, wrapperVars, thread, pluginVars, nmVars>>

ShipHeld(p) ==
    /\ p \in held /\ held' = held \ {p} /\ UNCHANGED via
    /\ \/ via[p] \in connections /\ Ship(p, via[p])
       \/ /\ via[p] \notin connections \/ state = "GONE"
          /\ UNCHANGED <<packageHandles, accepted, told, work>>
    /\ UNCHANGED <<channelVars, linkVars, posted, blocked, handler, wrapperVars, thread,
                   pluginVars, nmVars>>

-----------------------------------------------------------------------------
(***************************************************************************)
(* The wrapper's handler: the work it runs calls the plugin.               *)
(***************************************************************************)
HandlerRuns == Free(HandlerThread) /\ handler # "STOPPED" /\ shutdowns # "waiting"
Takes(op, x) ==
    /\ HandlerRuns /\ posted # <<>> /\ Head(posted) = <<op, x>>
    /\ posted' = Tail(posted) /\ UNCHANGED <<work, blocked, handler>>

\* PLUGIN_FATAL: shutdownPluginAsync.  A second fatal answer is not modelled.
Answers == \/ UNCHANGED shutdowns
           \/ shutdowns = "none" /\ shutdowns' = "started"

RunOpen(c) ==
    /\ Takes("open", c)
    /\ \/ /\ state = "SHUTDOWN" /\ Goes(HandlerThread, Reporting(c, "CLOSED", TRUE))
          /\ UNCHANGED <<pluginConns, shutdowns>>
       \/ /\ state = "INITIALIZED" /\ Answers
          /\ pluginConns' = [pluginConns EXCEPT
                 ![c] = IF pluginLinks[LinkOf[c]] = "up" THEN "asked" ELSE "refused"]
          /\ UNCHANGED thread
    /\ UNCHANGED <<channelVars, linkVars, packageVars, state, opening, timeouts, queues,
                   pluginChannel, pluginLinks, pluginPackages, nmVars>>

RunCreate(l) ==
    /\ Takes("create", l)
    /\ \/ /\ state = "SHUTDOWN" /\ Goes(HandlerThread, Destroying({l}))
          /\ UNCHANGED <<pluginLinks, shutdowns>>
       \/ /\ state = "INITIALIZED" /\ Answers
          /\ pluginLinks' = [pluginLinks EXCEPT ![l] = "asked"] /\ UNCHANGED thread
    /\ UNCHANGED <<channelVars, linkVars, packageVars, state, opening, timeouts, queues,
                   pluginChannel, pluginConns, pluginPackages, nmVars>>

RunChannel(op) ==
    /\ Takes(op, None)
    /\ IF state = "SHUTDOWN" THEN UNCHANGED <<pluginChannel, shutdowns>>
       ELSE /\ Answers
            /\ pluginChannel' = IF op = "activate" THEN "asked"
                                ELSE IF pluginChannel = "up" THEN "closing" ELSE pluginChannel
    /\ UNCHANGED <<channelVars, linkVars, packageVars, state, opening, timeouts, queues, thread,
                   pluginLinks, pluginConns, pluginPackages, nmVars>>

\* sendPackage of the plugin: taken, refused for good (its connection is down),
\* or refused for now, which blocks the queue.
RunSend(c) ==
    LET p == Head(work[c])
    IN  /\ HandlerRuns /\ work[c] # <<>> /\ c \notin blocked
        /\ \/ /\ state = "SHUTDOWN" /\ Tell({p}) /\ work' = [work EXCEPT ![c] = Tail(@)]
              /\ UNCHANGED <<blocked, pluginPackages, shutdowns>>
           \/ /\ state = "INITIALIZED" /\ Answers /\ work' = [work EXCEPT ![c] = Tail(@)]
              /\ pluginPackages' = IF pluginConns[c] = "up" THEN pluginPackages \union {p}
                                   ELSE pluginPackages
              /\ UNCHANGED <<blocked, told, packageHandles>>
           \/ /\ state = "INITIALIZED" /\ pluginConns[c] = "up" /\ blocked' = blocked \union {c}
              /\ UNCHANGED <<work, pluginPackages, shutdowns, told, packageHandles>>
        /\ UNCHANGED <<channelVars, linkVars, via, accepted, held, posted, handler, state, opening,
                       timeouts, queues, thread, pluginChannel, pluginLinks, pluginConns, nmVars>>

\* The timeout thread: work whose deadline passes is told and never runs.
Expire(c) ==
    /\ c \in Timed /\ handler # "STOPPED" /\ work[c] # <<>>
    /\ work' = [work EXCEPT ![c] = Tail(@)] /\ Tell({Head(work[c])})
    /\ UNCHANGED <<channelVars, linkVars, via, accepted, held, posted, blocked, handler,
                   wrapperVars, thread, pluginVars, nmVars>>

UnblockQueue(c) ==
    /\ PluginAlive /\ c \in blocked /\ blocked' = blocked \ {c}
    /\ UNCHANGED <<channelVars, linkVars, packageVars, posted, work, handler, wrapperVars, thread,
                   pluginVars, nmVars>>

-----------------------------------------------------------------------------
(***************************************************************************)
(* What the plugin reports, from a thread that is free.                    *)
(***************************************************************************)
\* A new or loaded link.  The request stays noted.
LinkCreated(l) ==
    /\ PluginAlive /\ pluginLinks[l] = "asked" /\ l \in handleToNewLink
    /\ MayDestroy({l}) /\ \A t \in Threads : ~IsDestroying(t, l)
    /\ pluginLinks' = [pluginLinks EXCEPT ![l] = "up"]
    /\ linkIdToInfo' = linkIdToInfo \union {l} /\ channelLinks' = channelLinks \union {l}
    /\ nmLinks' = [nmLinks EXCEPT ![l] = "CREATED"]
    /\ UNCHANGED <<channelStatus, activateRequested, disableRequested, calls, handleToNewLink,
                   handleToLink, connections, packageVars, handlerVars, wrapperVars, thread,
                   pluginChannel, pluginConns, pluginPackages, nmConns>>

\* A link is destroyed, asked or not, or was not created at all.
LinkDestroyed(l) ==
    /\ PluginAlive /\ pluginLinks[l] \in {"asked", "up"} /\ MayDestroy({l})
    /\ pluginLinks' = [pluginLinks EXCEPT ![l] = "down"]
    /\ pluginConns' = [c \in Conns |->
           IF LinkOf[c] # l THEN pluginConns[c]
           ELSE CASE pluginConns[c] = "up" -> "down"
                  [] pluginConns[c] = "asked" -> "refused"
                  [] OTHER -> pluginConns[c]]
    /\ \E t \in PluginThreads : Free(t) /\ Goes(t, Destroying({l}))
    /\ UNCHANGED <<channelVars, linkVars, packageVars, handlerVars, wrapperVars, pluginChannel,
                   pluginPackages, nmVars>>

ConnectionReported(c, status, own) ==
    /\ PluginAlive
    /\ CASE status = "OPEN" -> pluginConns[c] = "asked" /\ MayOpen(c)
         [] status = "CLOSED" /\ own -> pluginConns[c] \in {"asked", "refused"}
         [] OTHER -> pluginConns[c] = "up" /\ MayClose(c)
    /\ pluginConns' = [pluginConns EXCEPT ![c] = IF status = "OPEN" THEN "up" ELSE "down"]
    /\ \E t \in PluginThreads : Free(t) /\ Goes(t, Reporting(c, status, own))
    /\ UNCHANGED <<channelVars, linkVars, packageVars, handlerVars, wrapperVars, pluginChannel,
                   pluginLinks, pluginPackages, nmVars>>

\* A channel nobody asked to activate cannot become available.
ChannelReported(status) ==
    /\ PluginAlive
    /\ \/ status = "AVAILABLE" /\ pluginChannel = "asked" /\ pluginChannel' = "up"
          /\ activateRequested
       \/ status = "UNAVAILABLE" /\ pluginChannel = "closing" /\ pluginChannel' = "down"
       \/ status = "FAILED" /\ pluginChannel # "down" /\ pluginChannel' = "down"
    /\ \E t \in PluginThreads : ChannelChanges(t, status)
    /\ UNCHANGED <<calls, linkVars, packageVars, handlerVars, wrapperVars, pluginLinks,
                   pluginConns, pluginPackages, nmVars>>

\* SENT or FAILED, for a package the plugin took.
PackageReported(p) ==
    /\ PluginAlive /\ p \in pluginPackages /\ pluginPackages' = pluginPackages \ {p} /\ Tell({p})
    /\ UNCHANGED <<channelVars, linkVars, via, accepted, held, handlerVars, wrapperVars, thread,
                   pluginChannel, pluginLinks, pluginConns, nmVars>>

-----------------------------------------------------------------------------
(***************************************************************************)
(* The steps of a callback.                                                *)
(***************************************************************************)
Moves(t, at) == Goes(t, [thread[t] EXCEPT !.at = at])

\* Mutant: the entry is erased whatever the status.
TimeoutsErased(c, status) == timeouts \ {c}
TimeoutsAfter(c, status) == IF status = "OPEN" THEN timeouts \union {c} ELSE timeouts \ {c}

\* CommsWrapper::onConnectionStatusChanged.
WrapperStep(t) ==
    LET c == thread[t].conn
    IN  /\ thread[t].at = "wrapper"
        /\ opening' = opening \ {c}
        /\ CASE thread[t].status = "OPEN" /\ c \in opening ->
                    /\ queues' = queues \union {c} /\ timeouts' = TimeoutsAfter(c, "OPEN")
                    /\ Moves(t, "sdk")
             [] thread[t].status = "OPEN" /\ c \notin opening ->
                    Goes(t, Idle) /\ UNCHANGED <<queues, timeouts>>
             [] OTHER ->
                    /\ queues' = IF c \in opening THEN queues ELSE queues \ {c}
                    /\ timeouts' = TimeoutsAfter(c, "CLOSED") /\ Moves(t, "sdk")
        /\ UNCHANGED <<channelVars, linkVars, packageVars, handlerVars, state, shutdowns,
                       pluginVars, nmVars>>

\* RaceSdk::onConnectionStatusChanged with the connections lock.
AddConnection(t) ==
    LET c == thread[t].conn
    IN  /\ thread[t].at = "sdk" /\ thread[t].status = "OPEN"
        /\ handleToLink' = handleToLink \ {c}
        /\ IF c \in handleToLink /\ LinkOf[c] \in linkIdToInfo
           THEN connections' = connections \union {c} /\ Moves(t, "tell")
           ELSE Goes(t, Idle) /\ UNCHANGED connections
        /\ UNCHANGED <<channelVars, handleToNewLink, linkIdToInfo, packageVars, handlerVars,
                       wrapperVars, pluginVars, nmVars>>

\* Mutant: the connection is removed before its handles are asked for.
CachedTooLate(c) == {}
CachedHandles(c) == {p \in packageHandles : via[p] = c /\ c \in connections}

RemoveConnection(t) ==
    LET c == thread[t].conn
    IN  /\ thread[t].at = "sdk" /\ thread[t].status = "CLOSED"
        /\ Tell(CachedHandles(c))
        /\ handleToLink' = IF thread[t].own THEN handleToLink \ {c} ELSE handleToLink
        /\ connections' = connections \ {c} /\ Moves(t, "tell")
        /\ UNCHANGED <<channelVars, handleToNewLink, linkIdToInfo, via, accepted, held,
                       handlerVars, wrapperVars, pluginVars, nmVars>>

TellConnection(t) ==
    /\ thread[t].at = "tell"
    /\ nmConns' = [nmConns EXCEPT ![thread[t].conn] = thread[t].status]
    /\ IF thread[t].link # None THEN Moves(t, "conns") ELSE Goes(t, Idle)
    /\ UNCHANGED <<channelVars, linkVars, packageVars, handlerVars, wrapperVars, pluginVars, nmLinks>>

\* Mutant: the requests of the link's connections, not the connections it has.
RequestsOf(l) == {c \in handleToLink : LinkOf[c] = l}
ConnectionsOf(l) == {c \in connections : LinkOf[c] = l}

\* RaceSdk::onLinkStatusChanged: the connections the link has now are closed one by one...
TakeLink(t) ==
    /\ thread[t].at = "links"
    /\ \/ thread[t].rest = {} /\ Goes(t, Idle)
       \/ \E l \in thread[t].rest :
             Goes(t, [thread[t] EXCEPT !.at = "conns", !.rest = @ \ {l}, !.link = l,
                          !.todo = ConnectionsOf(l)])
    /\ UNCHANGED <<channelVars, linkVars, packageVars, handlerVars, wrapperVars, pluginVars, nmVars>>

CloseNext(t) ==
    /\ thread[t].at = "conns"
    /\ \E c \in thread[t].todo :
          Goes(t, [thread[t] EXCEPT !.at = "sdk", !.status = "CLOSED", !.conn = c, !.todo = @ \ {c}])
    /\ UNCHANGED <<channelVars, linkVars, packageVars, handlerVars, wrapperVars, pluginVars, nmVars>>

\* ...and the link goes, with any connection added since and what it had cached.
RemoveLink(t) ==
    LET l == thread[t].link
        lost == {c \in connections : LinkOf[c] = l}
    IN  /\ thread[t].at = "conns" /\ thread[t].todo = {}
        /\ handleToNewLink' = handleToNewLink \ {l} /\ linkIdToInfo' = linkIdToInfo \ {l}
        /\ connections' = connections \ lost
        /\ packageHandles' = {p \in packageHandles : via[p] \notin lost}
        /\ channelLinks' = channelLinks \ {l}
        /\ nmLinks' = [nmLinks EXCEPT ![l] = "DESTROYED"]
        /\ Goes(t, [Idle EXCEPT !.at = "links", !.rest = thread[t].rest])
        /\ UNCHANGED <<channelStatus, activateRequested, disableRequested, calls, handleToLink,
                       via, accepted, told, held, handlerVars, wrapperVars, pluginVars, nmConns>>

-----------------------------------------------------------------------------
(***************************************************************************)
(* RaceSdk::shutdownPluginAsync.                                           *)
(***************************************************************************)
BeginShutdown ==
    /\ shutdowns = "started" /\ shutdowns' = "waiting" /\ state' = "SHUTDOWN"
    /\ UNCHANGED <<channelVars, linkVars, packageVars, handlerVars, opening, timeouts, queues,
                   thread, pluginVars, nmVars>>

\* The lifecycle queue goes before all others; the plugin makes no call from then on.
PluginShutdown ==
    /\ shutdowns = "waiting" /\ Free(HandlerThread) /\ shutdowns' = "cleaning"
    /\ Orderly => \A t \in Threads, c \in Conns : ~IsOpening(t, c)
    /\ pluginChannel' = "down" /\ pluginPackages' = {}
    /\ pluginLinks' = [l \in Links |-> IF pluginLinks[l] = "none" THEN "none" ELSE "down"]
    /\ pluginConns' = [c \in Conns |-> IF pluginConns[c] = "none" THEN "none" ELSE "down"]
    /\ UNCHANGED <<channelVars, linkVars, packageVars, handlerVars, state, opening, timeouts,
                   queues, thread, nmVars>>

CleanupChannels ==
    /\ shutdowns = "cleaning" /\ shutdowns' = "stopping" /\ ChannelChanges(Cleaner, "FAILED")
    /\ UNCHANGED <<calls, linkVars, packageVars, handlerVars, state, opening, timeouts, queues,
                   pluginVars, nmVars>>

StopHandler ==
    /\ shutdowns = "stopping" /\ Free(Cleaner)
    /\ \/ handler = "STARTED" /\ handler' = "STOPPING"
          /\ UNCHANGED <<posted, work, blocked, state, queues, shutdowns>>
       \/ /\ handler = "STOPPING" /\ Free(HandlerThread) /\ posted = <<>>
          /\ \A c \in Conns : work[c] # <<>> => c \in blocked
          /\ handler' = "STOPPED" /\ state' = "GONE" /\ shutdowns' = "done"
          /\ work' = [c \in Conns |-> <<>>] /\ queues' = {} /\ UNCHANGED <<posted, blocked>>
    /\ UNCHANGED <<channelVars, linkVars, packageVars, opening, timeouts, thread, pluginVars, nmVars>>

-----------------------------------------------------------------------------
Init ==
    /\ channelStatus = "ENABLED" /\ activateRequested = FALSE /\ disableRequested = FALSE
    /\ channelLinks = {} /\ handleToNewLink = {} /\ linkIdToInfo = {} /\ handleToLink = {}
    /\ connections = {} /\ packageHandles = {} /\ via = [p \in Packages |-> None]
    /\ state = "INITIALIZED" /\ opening = {} /\ timeouts = {} /\ queues = {}
    /\ posted = <<>> /\ work = [c \in Conns |-> <<>>] /\ blocked = {}
    /\ handler = "STARTED" /\ shutdowns = "none" /\ thread = [t \in Threads |-> Idle]
    /\ pluginChannel = "down" /\ pluginLinks = [l \in Links |-> "none"]
    /\ pluginConns = [c \in Conns |-> "none"] /\ pluginPackages = {}
    /\ nmLinks = [l \in Links |-> "none"] /\ nmConns = [c \in Conns |-> "none"]
    /\ accepted = {} /\ told = {} /\ held = {} /\ calls = 0

Calls ==
    \/ ActivateChannel \/ DeactivateChannel \/ EnableChannel \/ DisableChannel
    \/ \E l \in Links : CreateLink(l)
    \/ \E c \in Conns : OpenConnection(c) \/ \E p \in Packages : SendPackage(p, c) \/ HoldPackage(p, c)
    \/ \E p \in Packages : ShipHeld(p)

HandlerNext ==
    \/ \E c \in Conns : RunOpen(c) \/ RunSend(c) \/ Expire(c)
    \/ \E l \in Links : RunCreate(l)
    \/ RunChannel("activate") \/ RunChannel("deactivate")

PluginNext ==
    \/ \E l \in Links : LinkCreated(l) \/ LinkDestroyed(l)
    \/ \E c \in Conns : \/ UnblockQueue(c) \/ ConnectionReported(c, "OPEN", FALSE)
                        \/ \E own \in BOOLEAN : ConnectionReported(c, "CLOSED", own)
    \/ \E status \in {"AVAILABLE", "UNAVAILABLE", "FAILED"} : ChannelReported(status)
    \/ \E p \in Packages : PackageReported(p)

ThreadStep(t) ==
    \/ WrapperStep(t) \/ AddConnection(t) \/ RemoveConnection(t) \/ TellConnection(t)
    \/ TakeLink(t) \/ CloseNext(t) \/ RemoveLink(t)

ShutdownNext == BeginShutdown \/ PluginShutdown \/ CleanupChannels \/ StopHandler

Next == Calls \/ HandlerNext \/ PluginNext \/ (\E t \in Threads : ThreadStep(t)) \/ ShutdownNext
Spec == Init /\ [][Next]_vars

-----------------------------------------------------------------------------
\* A package that was accepted and of which nothing was reported yet is one its
\* connection will fail when it closes: it is cached under a connection the SDK has.
PackagesCovered == \A p \in accepted \ told : p \in packageHandles /\ via[p] \in connections

AboutToTell(t, c, status) ==
    thread[t].at = "tell" /\ thread[t].conn = c /\ thread[t].status = status

\* Somebody still owes the network manager an answer on the connection.
Owed(c) ==
    \/ <<"open", c>> \in {posted[i] : i \in DOMAIN posted} /\ handler # "STOPPED"
    \/ pluginConns[c] \in {"asked", "refused"}
    \/ \E t \in Threads : thread[t].conn = c /\ thread[t].at # "idle"
    \/ \E t \in Threads : IsDestroying(t, LinkOf[c])
    \/ nmLinks[LinkOf[c]] = "DESTROYED" \/ shutdowns \in {"cleaning", "stopping", "done"}

\* What the network manager believes of a connection is what the SDK knows, but
\* for the answer a callback is about to give; and no request is forgotten.
NmViewRight ==
    \A c \in Conns :
        /\ nmConns[c] = "OPEN" => c \in connections \/ \E t \in Threads : AboutToTell(t, c, "CLOSED")
        /\ c \in connections => nmConns[c] = "OPEN" \/ \E t \in Threads : AboutToTell(t, c, "OPEN")
        /\ nmConns[c] = "asked" => Owed(c)

\* A connection the SDK has can be sent on: its queue and its send timeout are
\* there until the callback that closes it has passed the wrapper.
SendableWhileOpen ==
    \A c \in connections : state = "GONE" \/ c \in queues \intersect timeouts
        \/ \E t \in Threads : thread[t].at = "sdk" /\ thread[t].conn = c /\ thread[t].status = "CLOSED"
=============================================================================
