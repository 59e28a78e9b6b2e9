--------------------------- MODULE ConnectionsProofs ---------------------------
(***************************************************************************)
(* Theorems about Connections: its types and, for a plugin that keeps the  *)
(* order Orderly asks for, that no accepted package is left without an     *)
(* answer, that an open connection can be sent on, and that the network    *)
(* manager is told what is so: for all links, connections, packages and    *)
(* threads.                                                                *)
(***************************************************************************)
EXTENDS Connections, TLAPS

USE DEF channelVars, linkVars, packageVars, handlerVars, wrapperVars, pluginVars, nmVars

(***************************************************************************)
(* Types.                                                                  *)
(***************************************************************************)
LEMMA CallbackTypes ==
    /\ Idle \in Callback
    /\ \A c \in Conns, status \in {"OPEN", "CLOSED"}, own \in BOOLEAN :
           Reporting(c, status, own) \in Callback
    /\ \A ls \in SUBSET Links : Destroying(ls) \in Callback
BY DEF Idle, Callback, Reporting, Destroying

LEMMA GoesTypes ==
    ASSUME thread \in [Threads -> Callback], NEW t \in Threads, NEW cb \in Callback, Goes(t, cb)
    PROVE  thread' \in [Threads -> Callback]
BY DEF Goes

LEMMA PostTypes ==
    ASSUME posted \in Seq(Work), NEW w \in Work, Post(w)
    PROVE  posted' \in Seq(Work) /\ UNCHANGED <<work, blocked, handler>>
BY DEF Post

LEMMA ChannelTypes ==
    ASSUME TypeOK, NEW t \in Threads, NEW status \in ChannelStatuses, ChannelChanges(t, status)
    PROVE  /\ channelStatus' \in ChannelStatuses
           /\ activateRequested' \in BOOLEAN /\ disableRequested' \in BOOLEAN
           /\ channelLinks' \subseteq Links /\ thread' \in [Threads -> Callback]
<1>1. StatusUpdated(status) \in ChannelStatuses  BY DEF StatusUpdated, ChannelStatuses
<1>2. thread' \in [Threads -> Callback]
  <2>1. CASE UNCHANGED thread  BY <2>1 DEF TypeOK
  <2>2. CASE Goes(t, Destroying(channelLinks))
    BY <2>2, CallbackTypes, GoesTypes DEF TypeOK
  <2>. QED BY <2>1, <2>2 DEF ChannelChanges
<1>. QED BY <1>1, <1>2 DEF ChannelChanges, TypeOK

LEMMA CallsTypes == ASSUME ConnectionsAssumption, TypeOK, Calls PROVE TypeOK'
<1>1. /\ \A l \in Links : <<"create", l>> \in Work
      /\ \A c \in Conns : <<"open", c>> \in Work
      /\ <<"activate", None>> \in Work /\ <<"deactivate", None>> \in Work
  BY DEF Work
<1>2. CountCall => calls' \in 0 .. MaxChannelCalls
  BY DEF CountCall, TypeOK, ConnectionsAssumption
<1>3. CASE ActivateChannel
  <2>1. posted' \in Seq(Work) /\ UNCHANGED <<work, blocked, handler>>
    BY <1>1, <1>3, PostTypes DEF ActivateChannel, TypeOK
  <2>. QED BY <2>1, <1>2, <1>3 DEF ActivateChannel, TypeOK, ChannelStatuses
<1>4. CASE DeactivateChannel
  <2>1. posted' \in Seq(Work) /\ UNCHANGED <<work, blocked, handler>>
    BY <1>1, <1>4, PostTypes DEF DeactivateChannel, TypeOK
  <2>. QED BY <2>1, <1>2, <1>4 DEF DeactivateChannel, TypeOK
<1>5. CASE EnableChannel
  <2>1. PICK t \in Threads : ChannelChanges(t, "ENABLED")
    BY <1>5 DEF EnableChannel, PluginThreads
  <2>2. "ENABLED" \in ChannelStatuses  BY DEF ChannelStatuses
  <2>. QED BY <2>1, <2>2, <1>2, <1>5, ChannelTypes DEF EnableChannel, TypeOK
<1>6. CASE DisableChannel
  <2>1. CASE \E t \in PluginThreads : ChannelChanges(t, "DISABLED") /\ UNCHANGED handlerVars
    <3>1. PICK t \in Threads : ChannelChanges(t, "DISABLED")  BY <2>1 DEF PluginThreads
    <3>2. "DISABLED" \in ChannelStatuses  BY DEF ChannelStatuses
    <3>. QED BY <2>1, <3>1, <3>2, <1>2, <1>6, ChannelTypes DEF DisableChannel, TypeOK
  <2>2. CASE /\ disableRequested' = TRUE /\ Post(<<"deactivate", None>>)
             /\ UNCHANGED <<channelStatus, activateRequested, channelLinks, thread>>
    <3>1. posted' \in Seq(Work) /\ UNCHANGED <<work, blocked, handler>>
      BY <1>1, <2>2, PostTypes DEF TypeOK
    <3>2. calls' \in 0 .. MaxChannelCalls
          /\ UNCHANGED <<linkVars, packageVars, wrapperVars, pluginVars, nmVars>>
      BY <1>2, <1>6 DEF DisableChannel
    <3>. QED BY <2>2, <3>1, <3>2 DEF TypeOK
  <2>. QED BY <2>1, <2>2, <1>6 DEF DisableChannel
<1>7. ASSUME NEW l \in Links, CreateLink(l) PROVE TypeOK'
  <2>1. posted' \in Seq(Work) /\ UNCHANGED <<work, blocked, handler>>
    BY <1>1, <1>7, PostTypes DEF CreateLink, TypeOK
  <2>. QED BY <2>1, <1>7 DEF CreateLink, TypeOK
<1>8. ASSUME NEW c \in Conns, OpenConnection(c) PROVE TypeOK'
  <2>1. posted' \in Seq(Work) /\ UNCHANGED <<work, blocked, handler>>
    BY <1>1, <1>8, PostTypes DEF OpenConnection, TypeOK
  <2>2. /\ handleToLink' \subseteq Conns /\ opening' \subseteq Conns
        /\ nmConns' \in [Conns -> {"none", "asked", "OPEN", "CLOSED"}]
    <3>1. /\ handleToLink' = handleToLink \cup {c}
          /\ opening' = opening \/ opening' = opening \cup {c}
          /\ \/ nmConns' = [nmConns EXCEPT ![c] = "asked"]
             \/ nmConns' = [nmConns EXCEPT ![c] = "CLOSED"]
      BY <1>8 DEF OpenConnection
    <3>2. /\ handleToLink \subseteq Conns /\ opening \subseteq Conns
          /\ nmConns \in [Conns -> {"none", "asked", "OPEN", "CLOSED"}]
      BY DEF TypeOK
    <3>. QED BY <3>1, <3>2
  <2>3. UNCHANGED <<channelVars, handleToNewLink, linkIdToInfo, connections, packageVars, state,
                    timeouts, queues, shutdowns, thread, pluginVars, nmLinks>>
    BY <1>8 DEF OpenConnection
  <2>. QED BY <2>1, <2>2, <2>3 DEF TypeOK
<1>9. ASSUME NEW p \in Packages, NEW c \in Conns, Ship(p, c)
      PROVE  /\ work' \in [Conns -> Seq(Packages)] /\ packageHandles' \subseteq Packages
             /\ told' \subseteq Packages /\ accepted' \subseteq Packages
  <2>1. work' \in [Conns -> Seq(Packages)]
    <3>1. work \in [Conns -> Seq(Packages)]  BY DEF TypeOK
    <3>2. Append(work[c], p) \in Seq(Packages)  BY <3>1
    <3>3. \/ UNCHANGED work
          \/ work' = [work EXCEPT ![c] = Append(@, p)]
      BY <1>9 DEF Ship
    <3>. QED BY <3>1, <3>2, <3>3
  <2>2. /\ packageHandles' \subseteq Packages /\ told' \subseteq Packages
        /\ accepted' \subseteq Packages
    BY <1>9, SMT DEF Ship, Tell, TypeOK
  <2>. QED BY <2>1, <2>2
<1>10. ASSUME NEW p \in Packages, NEW c \in Conns, SendPackage(p, c) PROVE TypeOK'
  BY <1>9, <1>10 DEF SendPackage, TypeOK
<1>11. ASSUME NEW p \in Packages, NEW c \in Conns, HoldPackage(p, c) PROVE TypeOK'
  BY <1>11 DEF HoldPackage, TypeOK
<1>12. ASSUME NEW p \in Packages, ShipHeld(p) PROVE TypeOK'
  <2>1. CASE via[p] \in connections /\ Ship(p, via[p])
    BY <2>1, <1>9, <1>12 DEF ShipHeld, TypeOK
  <2>2. CASE UNCHANGED <<packageHandles, accepted, told, work>>
    BY <2>2, <1>12 DEF ShipHeld, TypeOK
  <2>. QED BY <2>1, <2>2, <1>12 DEF ShipHeld
<1>. QED BY <1>3, <1>4, <1>5, <1>6, <1>7, <1>8, <1>10, <1>11, <1>12 DEF Calls

LEMMA TakesTypes ==
    ASSUME posted \in Seq(Work), NEW op, NEW x, Takes(op, x)
    PROVE  posted' \in Seq(Work) /\ UNCHANGED <<work, blocked, handler>>
BY DEF Takes

LEMMA HandlerTypes == ASSUME ConnectionsAssumption, TypeOK, HandlerNext PROVE TypeOK'
<1>1. HandlerThread \in Threads  BY DEF ConnectionsAssumption
<1>2. ASSUME NEW c \in Conns PROVE Reporting(c, "CLOSED", TRUE) \in Callback
  BY CallbackTypes
<1>3. ASSUME Answers PROVE shutdowns' \in {"none", "started", "waiting", "cleaning", "stopping", "done"}
  BY <1>3 DEF Answers, TypeOK
<1>4. ASSUME NEW c \in Conns, RunOpen(c) PROVE TypeOK'
  <2>1. posted' \in Seq(Work) /\ UNCHANGED <<work, blocked, handler>>
    BY <1>4, TakesTypes DEF RunOpen, TypeOK
  <2>2. CASE Goes(HandlerThread, Reporting(c, "CLOSED", TRUE)) /\ UNCHANGED <<pluginConns, shutdowns>>
    <3>1. thread' \in [Threads -> Callback]  BY <1>1, <1>2, <2>2, GoesTypes DEF TypeOK
    <3>. QED BY <2>1, <2>2, <3>1, <1>4 DEF RunOpen, TypeOK
  <2>3. CASE /\ Answers /\ UNCHANGED thread
             /\ pluginConns' = [pluginConns EXCEPT
                    ![c] = IF pluginLinks[LinkOf[c]] = "up" THEN "asked" ELSE "refused"]
    BY <2>1, <2>3, <1>3, <1>4 DEF RunOpen, TypeOK
  <2>. QED BY <2>2, <2>3, <1>4 DEF RunOpen
<1>5. ASSUME NEW l \in Links, RunCreate(l) PROVE TypeOK'
  <2>1. posted' \in Seq(Work) /\ UNCHANGED <<work, blocked, handler>>
    BY <1>5, TakesTypes DEF RunCreate, TypeOK
  <2>2. CASE Goes(HandlerThread, Destroying({l})) /\ UNCHANGED <<pluginLinks, shutdowns>>
    <3>1. thread' \in [Threads -> Callback]
      BY <1>1, <2>2, CallbackTypes, GoesTypes DEF TypeOK
    <3>. QED BY <2>1, <2>2, <3>1, <1>5 DEF RunCreate, TypeOK
  <2>3. CASE /\ Answers /\ UNCHANGED thread
             /\ pluginLinks' = [pluginLinks EXCEPT ![l] = "asked"]
    BY <2>1, <2>3, <1>3, <1>5 DEF RunCreate, TypeOK
  <2>. QED BY <2>2, <2>3, <1>5 DEF RunCreate
<1>6. ASSUME NEW op, RunChannel(op) PROVE TypeOK'
  <2>1. posted' \in Seq(Work) /\ UNCHANGED <<work, blocked, handler>>
    BY <1>6, TakesTypes DEF RunChannel, TypeOK
  <2>. QED BY <2>1, <1>3, <1>6 DEF RunChannel, TypeOK
<1>7. ASSUME NEW c \in Conns, work[c] # <<>>
      PROVE  Head(work[c]) \in Packages /\ [work EXCEPT ![c] = Tail(@)] \in [Conns -> Seq(Packages)]
  <2>1. work[c] \in Seq(Packages) /\ work \in [Conns -> Seq(Packages)]  BY DEF TypeOK
  <2>2. Tail(work[c]) \in Seq(Packages) /\ Head(work[c]) \in Packages  BY <1>7, <2>1
  <2>. QED BY <2>1, <2>2
<1>8. ASSUME NEW c \in Conns, RunSend(c) PROVE TypeOK'
  <2>1. work[c] # <<>>  BY <1>8 DEF RunSend
  <2>2. work' \in [Conns -> Seq(Packages)]
    <3>1. work' = work \/ work' = [work EXCEPT ![c] = Tail(@)]  BY <1>8 DEF RunSend
    <3>2. work \in [Conns -> Seq(Packages)]  BY DEF TypeOK
    <3>. QED BY <1>7, <2>1, <3>1, <3>2
  <2>3. Head(work[c]) \in Packages  BY <1>7, <2>1
  <2>. QED BY <2>2, <2>3, <1>3, <1>8 DEF RunSend, TypeOK, Tell
<1>9. ASSUME NEW c \in Conns, Expire(c) PROVE TypeOK'
  <2>1. work[c] # <<>>  BY <1>9 DEF Expire
  <2>2. work' \in [Conns -> Seq(Packages)]  BY <1>7, <1>9, <2>1 DEF Expire, TypeOK
  <2>3. Head(work[c]) \in Packages  BY <1>7, <2>1
  <2>. QED BY <2>2, <2>3, <1>9 DEF Expire, TypeOK, Tell
<1>. QED BY <1>4, <1>5, <1>6, <1>8, <1>9 DEF HandlerNext

LEMMA PluginTypes == ASSUME ConnectionsAssumption, TypeOK, PluginNext PROVE TypeOK'
<1>1. PluginThreads \subseteq Threads  BY DEF PluginThreads
<1>2. ASSUME NEW l \in Links, LinkCreated(l) PROVE TypeOK'
  BY <1>2 DEF LinkCreated, TypeOK
<1>3. ASSUME NEW l \in Links, LinkDestroyed(l) PROVE TypeOK'
  <2>1. thread' \in [Threads -> Callback]
    BY <1>1, <1>3, CallbackTypes, GoesTypes DEF LinkDestroyed, TypeOK
  <2>2. \A c \in Conns : pluginConns'[c] \in {"none", "asked", "refused", "up", "down"}
    BY <1>3 DEF LinkDestroyed, TypeOK
  <2>3. pluginConns' \in [Conns -> {"none", "asked", "refused", "up", "down"}]
    BY <1>3, <2>2 DEF LinkDestroyed
  <2>. QED BY <2>1, <2>3, <1>3 DEF LinkDestroyed, TypeOK
<1>4. ASSUME NEW c \in Conns, UnblockQueue(c) PROVE TypeOK'
  BY <1>4 DEF UnblockQueue, TypeOK
<1>5. ASSUME NEW c \in Conns, NEW status \in {"OPEN", "CLOSED"}, NEW own \in BOOLEAN,
             ConnectionReported(c, status, own)
      PROVE  TypeOK'
  <2>1. thread' \in [Threads -> Callback]
    BY <1>1, <1>5, CallbackTypes, GoesTypes DEF ConnectionReported, TypeOK
  <2>. QED BY <2>1, <1>5 DEF ConnectionReported, TypeOK
<1>6. ASSUME NEW status \in {"AVAILABLE", "UNAVAILABLE", "FAILED"}, ChannelReported(status)
      PROVE  TypeOK'
  <2>1. PICK t \in Threads : ChannelChanges(t, status)  BY <1>1, <1>6 DEF ChannelReported
  <2>2. status \in ChannelStatuses  BY DEF ChannelStatuses
  <2>. QED BY <2>1, <2>2, <1>6, ChannelTypes DEF ChannelReported, TypeOK
<1>7. ASSUME NEW p \in Packages, PackageReported(p) PROVE TypeOK'
  BY <1>7 DEF PackageReported, Tell, TypeOK
<1>. QED BY <1>2, <1>3, <1>4, <1>5, <1>6, <1>7 DEF PluginNext

\* The callbacks a step may leave a thread in.
LEMMA StepTypes ==
    ASSUME TypeOK, NEW t \in Threads
    PROVE  /\ thread[t] \in Callback
           /\ \A at \in {"idle", "wrapper", "sdk", "tell", "links", "conns"} :
                  [thread[t] EXCEPT !.at = at] \in Callback
           /\ \A l \in Links, todo \in SUBSET Conns :
                  [thread[t] EXCEPT !.at = "conns", !.rest = @ \ {l}, !.link = l, !.todo = todo]
                      \in Callback
           /\ \A c \in Conns :
                  [thread[t] EXCEPT !.at = "sdk", !.status = "CLOSED", !.conn = c, !.todo = @ \ {c}]
                      \in Callback
           /\ [Idle EXCEPT !.at = "links", !.rest = thread[t].rest] \in Callback
<1>1. thread[t] \in Callback  BY DEF TypeOK
<1>2. Idle \in Callback  BY CallbackTypes
<1>. DEFINE cb == thread[t]
<1>. HIDE DEF cb
<1>3. cb \in Callback  BY <1>1 DEF cb
<1>4. \A at \in {"idle", "wrapper", "sdk", "tell", "links", "conns"} : [cb EXCEPT !.at = at] \in Callback
  BY <1>3 DEF Callback
<1>5. \A l \in Links, todo \in SUBSET Conns :
         [cb EXCEPT !.at = "conns", !.rest = @ \ {l}, !.link = l, !.todo = todo] \in Callback
  BY <1>3 DEF Callback
<1>6. \A c \in Conns :
         [cb EXCEPT !.at = "sdk", !.status = "CLOSED", !.conn = c, !.todo = @ \ {c}] \in Callback
  BY <1>3 DEF Callback
<1>7. [Idle EXCEPT !.at = "links", !.rest = cb.rest] \in Callback
  BY <1>2, <1>3 DEF Callback
<1>. QED BY <1>1, <1>4, <1>5, <1>6, <1>7 DEF cb

LEMMA ThreadTypes ==
    ASSUME ConnectionsAssumption, TypeOK, NEW t \in Threads, ThreadStep(t),
           thread[t].at \in {"wrapper", "sdk", "tell"} => thread[t].conn \in Conns,
           thread[t].at = "conns" => thread[t].link \in Links
    PROVE  TypeOK'
<1>1. /\ thread[t].todo \subseteq Conns /\ thread[t].rest \subseteq Links
      /\ thread[t].status \in {"OPEN", "CLOSED"}
  BY DEF TypeOK, Callback
<1>2. CASE WrapperStep(t)
  <2>1. thread[t].conn \in Conns  BY <1>2 DEF WrapperStep
  <2>2. Goes(t, Idle) \/ Moves(t, "sdk")  BY <1>2 DEF WrapperStep
  <2>3. thread' \in [Threads -> Callback]
    <3>1. thread \in [Threads -> Callback] /\ Idle \in Callback
          /\ [thread[t] EXCEPT !.at = "sdk"] \in Callback
      BY CallbackTypes, StepTypes DEF TypeOK
    <3>. QED BY <2>2, <3>1, GoesTypes DEF Moves
  <2>4. queues' \subseteq Conns /\ timeouts' \subseteq Conns
    BY <1>2, <2>1 DEF WrapperStep, TimeoutsAfter, TypeOK
  <2>. QED BY <2>3, <2>4, <1>2 DEF WrapperStep, TypeOK
<1>3. CASE AddConnection(t)
  <2>1. thread[t].conn \in Conns  BY <1>3 DEF AddConnection
  <2>2. Goes(t, Idle) \/ Moves(t, "tell")  BY <1>3 DEF AddConnection
  <2>3. thread' \in [Threads -> Callback]
    <3>1. thread \in [Threads -> Callback] /\ Idle \in Callback
          /\ [thread[t] EXCEPT !.at = "tell"] \in Callback
      BY CallbackTypes, StepTypes DEF TypeOK
    <3>. QED BY <2>2, <3>1, GoesTypes DEF Moves
  <2>. QED BY <2>1, <2>3, <1>3 DEF AddConnection, TypeOK
<1>4. CASE RemoveConnection(t)
  <2>1. thread' \in [Threads -> Callback]
    BY <1>4, StepTypes, GoesTypes DEF RemoveConnection, Moves, TypeOK
  <2>. QED BY <2>1, <1>4 DEF RemoveConnection, Tell, CachedHandles, TypeOK
<1>5. CASE TellConnection(t)
  <2>1. thread[t].conn \in Conns  BY <1>5 DEF TellConnection
  <2>2. Goes(t, Idle) \/ Moves(t, "conns")  BY <1>5 DEF TellConnection
  <2>3. thread' \in [Threads -> Callback]
    <3>1. thread \in [Threads -> Callback] /\ Idle \in Callback
          /\ [thread[t] EXCEPT !.at = "conns"] \in Callback
      BY CallbackTypes, StepTypes DEF TypeOK
    <3>. QED BY <2>2, <3>1, GoesTypes DEF Moves
  <2>4. nmConns' \in [Conns -> {"none", "asked", "OPEN", "CLOSED"}]
    <3>1. nmConns' = [nmConns EXCEPT ![thread[t].conn] = thread[t].status]
      BY <1>5 DEF TellConnection
    <3>2. nmConns \in [Conns -> {"none", "asked", "OPEN", "CLOSED"}]  BY DEF TypeOK
    <3>. QED BY <1>1, <2>1, <3>1, <3>2
  <2>. QED BY <2>3, <2>4, <1>5 DEF TellConnection, TypeOK
<1>6. CASE TakeLink(t)
  <2>1. \A l : ConnectionsOf(l) \subseteq Conns  BY DEF ConnectionsOf, TypeOK
  <2>2. thread' \in [Threads -> Callback]
    <3>1. thread \in [Threads -> Callback]  BY DEF TypeOK
    <3>2. CASE Goes(t, Idle)  BY <3>1, <3>2, CallbackTypes, GoesTypes
    <3>3. ASSUME NEW l \in thread[t].rest,
                 Goes(t, [thread[t] EXCEPT !.at = "conns", !.rest = @ \ {l}, !.link = l,
                              !.todo = ConnectionsOf(l)])
          PROVE  thread' \in [Threads -> Callback]
      <4>1. l \in Links /\ ConnectionsOf(l) \in SUBSET Conns  BY <1>1, <2>1
      <4>2. [thread[t] EXCEPT !.at = "conns", !.rest = @ \ {l}, !.link = l,
                 !.todo = ConnectionsOf(l)] \in Callback
        BY <4>1, StepTypes
      <4>. QED BY <3>1, <3>3, <4>2, GoesTypes
    <3>. QED BY <1>6, <3>2, <3>3 DEF TakeLink
  <2>3. UNCHANGED <<channelVars, linkVars, packageVars, handlerVars, wrapperVars, pluginVars, nmVars>>
    BY <1>6 DEF TakeLink
  <2>. QED BY <2>2, <2>3 DEF TypeOK
<1>7. CASE CloseNext(t)
  <2>1. PICK c \in thread[t].todo :
            Goes(t, [thread[t] EXCEPT !.at = "sdk", !.status = "CLOSED", !.conn = c, !.todo = @ \ {c}])
    BY <1>7 DEF CloseNext
  <2>2. [thread[t] EXCEPT !.at = "sdk", !.status = "CLOSED", !.conn = c, !.todo = @ \ {c}]
            \in Callback
    BY <1>1, StepTypes
  <2>3. thread \in [Threads -> Callback]  BY DEF TypeOK
  <2>4. thread' \in [Threads -> Callback]  BY <2>1, <2>2, <2>3, GoesTypes
  <2>5. UNCHANGED <<channelVars, linkVars, packageVars, handlerVars, wrapperVars, pluginVars, nmVars>>
    BY <1>7 DEF CloseNext
  <2>. QED BY <2>4, <2>5 DEF TypeOK
<1>8. CASE RemoveLink(t)
  <2>1. thread[t].link \in Links  BY <1>8 DEF RemoveLink
  <2>2. thread' \in [Threads -> Callback]
    <3>1. thread \in [Threads -> Callback]  BY DEF TypeOK
    <3>2. [Idle EXCEPT !.at = "links", !.rest = thread[t].rest] \in Callback  BY StepTypes
    <3>. QED BY <1>8, <3>1, <3>2, GoesTypes DEF RemoveLink
  <2>. QED BY <2>1, <2>2, <1>8 DEF RemoveLink, TypeOK
<1>. QED BY <1>2, <1>3, <1>4, <1>5, <1>6, <1>7, <1>8 DEF ThreadStep

LEMMA ShutdownTypes == ASSUME ConnectionsAssumption, TypeOK, ShutdownNext PROVE TypeOK'
<1>1. CASE BeginShutdown  BY <1>1 DEF BeginShutdown, TypeOK
<1>2. CASE PluginShutdown  BY <1>2 DEF PluginShutdown, TypeOK
<1>3. CASE CleanupChannels
  <2>1. Cleaner \in Threads /\ "FAILED" \in ChannelStatuses
    BY DEF ConnectionsAssumption, ChannelStatuses
  <2>. QED BY <2>1, <1>3, ChannelTypes DEF CleanupChannels, TypeOK
<1>4. CASE StopHandler
  <2>1. work' \in [Conns -> Seq(Packages)]
    <3>1. [c \in Conns |-> <<>>] \in [Conns -> Seq(Packages)]  OBVIOUS
    <3>. QED BY <3>1, <1>4 DEF StopHandler, TypeOK
  <2>. QED BY <2>1, <1>4 DEF StopHandler, TypeOK
<1>. QED BY <1>1, <1>2, <1>3, <1>4 DEF ShutdownNext
(***************************************************************************)
(* What a callback carries at each of its steps.                           *)
(***************************************************************************)
Carries(cb) ==
    /\ cb.at \in {"wrapper", "sdk", "tell"} => cb.conn \in Conns
    /\ cb.at = "conns" => cb.link \in Links
    /\ cb.at \in {"idle", "wrapper", "links"} => cb.link = None
    /\ cb.status = "OPEN" => /\ cb.at \in {"wrapper", "sdk", "tell"}
                             /\ cb.link = None /\ cb.rest = {}

AllCarry == \A t \in Threads : Carries(thread[t])

TypeInv == TypeOK /\ AllCarry

(***************************************************************************)
(* The strengthening of PackagesCovered: while a link is being destroyed   *)
(* no connection of it opens, so that those that were listed are all.      *)
(***************************************************************************)
\* No callback opens a connection of a link that another destroys.
Apart == \A t, u \in Threads, c \in Conns : IsOpening(t, c) => ~IsDestroying(u, LinkOf[c])

\* What is left of the link a callback destroys is what it still has to close.
Listed ==
    \A t \in Threads :
        thread[t].link # None =>
            ConnectionsOf(thread[t].link) \subseteq
                thread[t].todo \union (IF thread[t].at = "sdk" THEN {thread[t].conn} ELSE {})

IsPosted(w) == \E i \in DOMAIN posted : posted[i] = w
AtMostOnce(w) == \A i, j \in DOMAIN posted : posted[i] = w /\ posted[j] = w => i = j

\* Nobody opens connections on a link the plugin was never asked for...
Untried ==
    \A l \in Links : pluginLinks[l] = "none" =>
        /\ nmLinks[l] # "CREATED"
        /\ \A c \in Conns : LinkOf[c] = l =>
               /\ pluginConns[c] = "none" /\ ~IsPosted(<<"open", c>>)
               /\ \A t \in Threads : ~IsOpening(t, c)

\* ...and it is asked once.
AskedOnce ==
    \A l \in Links :
        /\ nmLinks[l] = "none" => pluginLinks[l] = "none" /\ ~IsPosted(<<"create", l>>)
        /\ IsPosted(<<"create", l>>) => pluginLinks[l] = "none"
        /\ AtMostOnce(<<"create", l>>)

CInv == TypeInv /\ Apart /\ Listed /\ Untried /\ AskedOnce /\ PackagesCovered

(***************************************************************************)
(* What a step does to the threads: nothing, or it starts a callback on a  *)
(* free thread, or it is a step of a callback.                             *)
(***************************************************************************)
StartsReport(t, c, status, own) ==
    /\ t \in Threads /\ c \in Conns /\ status \in {"OPEN", "CLOSED"} /\ own \in BOOLEAN
    /\ Free(t) /\ Goes(t, Reporting(c, status, own))
    /\ status = "OPEN" => MayOpen(c) /\ pluginConns[c] = "asked" /\ pluginConns'[c] = "up"
    /\ status = "CLOSED" => \/ pluginConns'[c] = "down"
                            \/ Takes("open", c) /\ UNCHANGED pluginConns

StartsDestroying(t, ls) ==
    /\ t \in Threads /\ ls \subseteq Links
    /\ Free(t) /\ Goes(t, Destroying(ls))
    /\ MayDestroy(ls) \/ \E l \in Links : ls = {l} /\ Takes("create", l)
    /\ \/ ls = channelLinks
       \/ \E l \in Links : ls = {l} /\ (\/ pluginLinks'[l] = "down"
                                        \/ Takes("create", l) /\ UNCHANGED pluginLinks)

Starts == \/ \E t, c, status, own : StartsReport(t, c, status, own)
          \/ \E t, ls : StartsDestroying(t, ls)

LEMMA ChannelStarts ==
    ASSUME TypeOK, NEW t \in Threads, NEW status, ChannelChanges(t, status)
    PROVE  UNCHANGED thread \/ Starts
BY DEF ChannelChanges, Starts, StartsDestroying, TypeOK

LEMMA ThreadMoves ==
    ASSUME ConnectionsAssumption, TypeOK, Next
    PROVE  \/ UNCHANGED <<thread, connections>>
           \/ Starts /\ UNCHANGED connections
           \/ \E t \in Threads : ThreadStep(t)
<1>1. PluginThreads \subseteq Threads /\ HandlerThread \in Threads /\ Cleaner \in Threads
  BY DEF PluginThreads, ConnectionsAssumption
<1>2. CASE Calls
  <2>1. CASE EnableChannel \/ DisableChannel
    BY <1>1, <2>1, ChannelStarts DEF EnableChannel, DisableChannel
  <2>2. CASE ~(EnableChannel \/ DisableChannel)
    BY <1>2, <2>2 DEF Calls, ActivateChannel, DeactivateChannel, CreateLink, OpenConnection,
                      SendPackage, HoldPackage, ShipHeld
  <2>. QED BY <2>1, <2>2
<1>3. CASE HandlerNext
  <2>1. ASSUME NEW c \in Conns, RunOpen(c)
        PROVE  UNCHANGED connections /\ (UNCHANGED thread \/ Starts)
    <3>1. CASE Goes(HandlerThread, Reporting(c, "CLOSED", TRUE)) /\ UNCHANGED pluginConns
      <4>1. Free(HandlerThread) /\ Takes("open", c)  BY <2>1 DEF RunOpen, Takes, HandlerRuns
      <4>2. StartsReport(HandlerThread, c, "CLOSED", TRUE)  BY <1>1, <3>1, <4>1 DEF StartsReport
      <4>. QED BY <2>1, <4>2 DEF Starts, RunOpen
    <3>. QED BY <2>1, <3>1 DEF RunOpen
  <2>2. ASSUME NEW l \in Links, RunCreate(l)
        PROVE  UNCHANGED connections /\ (UNCHANGED thread \/ Starts)
    <3>1. CASE Goes(HandlerThread, Destroying({l})) /\ UNCHANGED pluginLinks
      <4>1. Free(HandlerThread) /\ Takes("create", l)  BY <2>2 DEF RunCreate, Takes, HandlerRuns
      <4>2. StartsDestroying(HandlerThread, {l})  BY <1>1, <3>1, <4>1 DEF StartsDestroying
      <4>. QED BY <2>2, <4>2 DEF Starts, RunCreate
    <3>. QED BY <2>2, <3>1 DEF RunCreate
  <2>3. ASSUME NEW c \in Conns, RunSend(c) \/ Expire(c) PROVE UNCHANGED <<thread, connections>>
    BY <2>3 DEF RunSend, Expire
  <2>4. ASSUME NEW op, RunChannel(op) PROVE UNCHANGED <<thread, connections>>
    BY <2>4 DEF RunChannel
  <2>. QED BY <1>3, <2>1, <2>2, <2>3, <2>4 DEF HandlerNext
<1>4. CASE PluginNext
  <2>1. ASSUME NEW l \in Links, LinkDestroyed(l) PROVE UNCHANGED connections /\ Starts
    <3>1. PICK t \in Threads : Free(t) /\ Goes(t, Destroying({l}))
      BY <1>1, <2>1 DEF LinkDestroyed
    <3>2. pluginLinks'[l] = "down" /\ MayDestroy({l})  BY <2>1 DEF LinkDestroyed, TypeOK
    <3>3. StartsDestroying(t, {l})  BY <3>1, <3>2 DEF StartsDestroying
    <3>. QED BY <2>1, <3>3 DEF Starts, LinkDestroyed
  <2>2. ASSUME NEW c \in Conns, NEW status \in {"OPEN", "CLOSED"}, NEW own \in BOOLEAN,
               ConnectionReported(c, status, own)
        PROVE  UNCHANGED connections /\ Starts
    <3>1. PICK t \in Threads : Free(t) /\ Goes(t, Reporting(c, status, own))
      BY <1>1, <2>2 DEF ConnectionReported
    <3>2. /\ status = "OPEN" => MayOpen(c) /\ pluginConns[c] = "asked" /\ pluginConns'[c] = "up"
          /\ status = "CLOSED" => pluginConns'[c] = "down"
      BY <2>2 DEF ConnectionReported, TypeOK
    <3>3. StartsReport(t, c, status, own)  BY <3>1, <3>2 DEF StartsReport
    <3>. QED BY <2>2, <3>3 DEF Starts, ConnectionReported
  <2>3. ASSUME NEW status, ChannelReported(status)
        PROVE  UNCHANGED connections /\ (UNCHANGED thread \/ Starts)
    BY <1>1, <2>3, ChannelStarts DEF ChannelReported
  <2>4. ASSUME NEW l \in Links, LinkCreated(l) PROVE UNCHANGED <<thread, connections>>
    BY <2>4 DEF LinkCreated
  <2>5. ASSUME NEW c \in Conns, UnblockQueue(c) PROVE UNCHANGED <<thread, connections>>
    BY <2>5 DEF UnblockQueue
  <2>6. ASSUME NEW p \in Packages, PackageReported(p) PROVE UNCHANGED <<thread, connections>>
    BY <2>6 DEF PackageReported
  <2>. QED BY <1>4, <2>1, <2>2, <2>3, <2>4, <2>5, <2>6 DEF PluginNext
<1>5. CASE ShutdownNext
  <2>1. CASE CleanupChannels
    BY <1>1, <2>1, ChannelStarts DEF CleanupChannels
  <2>2. CASE BeginShutdown \/ PluginShutdown \/ StopHandler
    BY <2>2 DEF BeginShutdown, PluginShutdown, StopHandler
  <2>. QED BY <1>5, <2>1, <2>2 DEF ShutdownNext
<1>. QED BY <1>2, <1>3, <1>4, <1>5 DEF Next

\* What a step of a callback does to it.
LEMMA StepMoves ==
    ASSUME TypeInv, NEW t \in Threads, ThreadStep(t)
    PROVE  \E cb \in Callback :
               /\ Goes(t, cb) /\ Carries(cb)
               /\ cb.status = "OPEN" => thread[t].status = "OPEN" /\ cb.conn = thread[t].conn
               /\ cb.rest \union ({cb.link} \ {None})
                      \subseteq thread[t].rest \union ({thread[t].link} \ {None})
<1>1. thread[t] \in Callback /\ Carries(thread[t])  BY DEF TypeInv, TypeOK, AllCarry
<1>2. Idle \in Callback /\ Carries(Idle) /\ Idle.status = "CLOSED" /\ Idle.rest = {} /\ Idle.link = None
  BY CallbackTypes DEF Idle, Carries
<1>3. CASE WrapperStep(t) \/ AddConnection(t) \/ RemoveConnection(t) \/ TellConnection(t)
  <2>1. PICK at : \/ Goes(t, Idle)
                  \/ /\ Moves(t, at)
                     /\ \/ thread[t].at = "wrapper" /\ at = "sdk"
                        \/ thread[t].at = "sdk" /\ at = "tell"
                        \/ thread[t].at = "tell" /\ at = "conns" /\ thread[t].link # None
    <3>1. CASE WrapperStep(t)
      <4>1. thread[t].at = "wrapper" /\ (Goes(t, Idle) \/ Moves(t, "sdk"))
        BY <3>1 DEF WrapperStep
      <4>. QED BY <4>1
    <3>2. CASE AddConnection(t) \/ RemoveConnection(t)
      <4>1. thread[t].at = "sdk" /\ (Goes(t, Idle) \/ Moves(t, "tell"))
        BY <3>2 DEF AddConnection, RemoveConnection
      <4>. QED BY <4>1
    <3>3. CASE TellConnection(t)
      <4>1. CASE thread[t].link # None  BY <3>3, <4>1, Zenon DEF TellConnection
      <4>2. CASE thread[t].link = None
        <5>1. thread[t].at = "tell" /\ Goes(t, Idle)  BY <3>3, <4>2 DEF TellConnection
        <5>. QED BY <5>1
      <4>. QED BY <4>1, <4>2
    <3>. QED BY <1>3, <3>1, <3>2, <3>3
  <2>2. CASE Goes(t, Idle)  BY <1>2, <2>2
  <2>3. CASE /\ Moves(t, at)
             /\ \/ thread[t].at = "wrapper" /\ at = "sdk"
                \/ thread[t].at = "sdk" /\ at = "tell"
                \/ thread[t].at = "tell" /\ at = "conns" /\ thread[t].link # None
    <3>. DEFINE old == thread[t]
                cb == [old EXCEPT !.at = at]
    <3>1. cb \in Callback  BY <2>3, StepTypes DEF TypeInv
    <3>. HIDE DEF old
    <3>2. old \in Callback /\ Carries(old)  BY <1>1 DEF old
    <3>3. /\ cb.at = at /\ cb.status = old.status /\ cb.conn = old.conn
          /\ cb.link = old.link /\ cb.rest = old.rest
      BY <3>2 DEF Callback
    <3>4. old.at = "tell" /\ old.link # None => old.link \in Links
      BY <3>2 DEF Callback
    <3>5. Carries(cb)
      <4>. HIDE DEF cb
      <4>. QED BY <2>3, <3>2, <3>3, <3>4 DEF Carries, old
    <3>. QED BY <2>3, <3>1, <3>3, <3>5 DEF Moves, old
  <2>. QED BY <2>1, <2>2, <2>3
<1>4. CASE TakeLink(t)
  <2>1. CASE Goes(t, Idle)  BY <1>2, <2>1
  <2>2. ASSUME NEW l \in thread[t].rest,
               Goes(t, [thread[t] EXCEPT !.at = "conns", !.rest = @ \ {l}, !.link = l,
                            !.todo = ConnectionsOf(l)])
        PROVE  \E cb \in Callback :
                   /\ Goes(t, cb) /\ Carries(cb)
                   /\ cb.status = "OPEN" => thread[t].status = "OPEN" /\ cb.conn = thread[t].conn
                   /\ cb.rest \union ({cb.link} \ {None})
                          \subseteq thread[t].rest \union ({thread[t].link} \ {None})
    <3>. DEFINE old == thread[t]
                cb == [old EXCEPT !.at = "conns", !.rest = @ \ {l}, !.link = l,
                                  !.todo = ConnectionsOf(l)]
    <3>1. ConnectionsOf(l) \in SUBSET Conns /\ l \in Links
      BY <1>1 DEF ConnectionsOf, TypeInv, TypeOK, Callback
    <3>2. cb \in Callback  BY <3>1, StepTypes DEF TypeInv
    <3>0. Goes(t, cb)  BY <2>2
    <3>. HIDE DEF old
    <3>3. old \in Callback /\ Carries(old) /\ l \in old.rest  BY <1>1 DEF old
    <3>4. cb.at = "conns" /\ cb.status = old.status /\ cb.link = l /\ cb.rest = old.rest \ {l}
      BY <3>3 DEF Callback
    <3>5. old.status # "OPEN"  BY <3>3 DEF Carries
    <3>6. Carries(cb)
      <4>. HIDE DEF cb
      <4>. QED BY <3>1, <3>4, <3>5 DEF Carries
    <3>7. cb.status # "OPEN" /\ cb.rest \union ({cb.link} \ {None}) \subseteq old.rest
      BY <3>3, <3>4, <3>5
    <3>. HIDE DEF cb
    <3>. QED BY <3>0, <3>2, <3>6, <3>7 DEF old
  <2>. QED BY <1>4, <2>1, <2>2 DEF TakeLink
<1>5. CASE CloseNext(t)
  <2>1. PICK c \in thread[t].todo :
            Goes(t, [thread[t] EXCEPT !.at = "sdk", !.status = "CLOSED", !.conn = c,
                         !.todo = @ \ {c}])
    BY <1>5 DEF CloseNext
  <2>. DEFINE old == thread[t]
              cb == [old EXCEPT !.at = "sdk", !.status = "CLOSED", !.conn = c, !.todo = @ \ {c}]
  <2>2. c \in Conns  BY <1>1 DEF Callback
  <2>3. cb \in Callback  BY <2>2, StepTypes DEF TypeInv
  <2>. HIDE DEF old
  <2>4. old \in Callback /\ Carries(old)  BY <1>1 DEF old
  <2>5. /\ cb.at = "sdk" /\ cb.status = "CLOSED" /\ cb.conn = c
        /\ cb.link = old.link /\ cb.rest = old.rest
    BY <2>4 DEF Callback
  <2>6. Carries(cb)
    <3>. HIDE DEF cb
    <3>. QED BY <2>2, <2>5 DEF Carries
  <2>. QED BY <2>1, <2>3, <2>5, <2>6 DEF old
<1>6. CASE RemoveLink(t)
  <2>. DEFINE cb == [Idle EXCEPT !.at = "links", !.rest = thread[t].rest]
  <2>1. cb \in Callback  BY StepTypes DEF TypeInv
  <2>2. cb.at = "links" /\ cb.status = "CLOSED" /\ cb.link = None /\ cb.rest = thread[t].rest
    BY DEF Idle
  <2>3. Carries(cb)
    <3>. HIDE DEF cb
    <3>. QED BY <2>2 DEF Carries
  <2>. QED BY <1>6, <2>1, <2>2, <2>3 DEF RemoveLink
<1>. QED BY <1>3, <1>4, <1>5, <1>6 DEF ThreadStep

LEMMA GoesElsewhere ==
    ASSUME TypeOK, NEW t \in Threads, NEW cb, Goes(t, cb)
    PROVE  thread'[t] = cb /\ \A u \in Threads \ {t} : thread'[u] = thread[u]
BY DEF TypeOK, Goes

LEMMA ReportFields ==
    \A c, status, own :
        LET cb == Reporting(c, status, own)
        IN  /\ cb.at = "wrapper" /\ cb.status = status /\ cb.conn = c
            /\ cb.link = None /\ cb.rest = {}
BY DEF Reporting, Idle

LEMMA DestroyFields ==
    \A ls : LET cb == Destroying(ls)
            IN  /\ cb.at = "links" /\ cb.status = "CLOSED" /\ cb.conn = None
                /\ cb.link = None /\ cb.rest = ls
BY DEF Destroying, Idle

LEMMA TypeInvStep ==
    ASSUME ConnectionsAssumption, TypeInv, [Next]_vars
    PROVE  TypeInv'
<1>1. CASE UNCHANGED vars
  BY <1>1 DEF TypeInv, TypeOK, AllCarry, Carries, vars
<1>2. CASE Next
  <2>1. TypeOK'
    <3>1. ASSUME NEW t \in Threads, ThreadStep(t) PROVE TypeOK'
      BY <3>1, ThreadTypes DEF TypeInv, AllCarry, Carries
    <3>. QED BY <1>2, <3>1, CallsTypes, HandlerTypes, PluginTypes, ShutdownTypes DEF Next, TypeInv
  <2>2. AllCarry'
    <3>1. CASE UNCHANGED thread
      BY <3>1 DEF TypeInv, AllCarry, Carries
    <3>2. ASSUME NEW t, NEW c, NEW status, NEW own, StartsReport(t, c, status, own)
          PROVE  AllCarry'
      <4>1. Carries(Reporting(c, status, own))
        <5>. DEFINE cb == Reporting(c, status, own)
        <5>1. /\ cb.at = "wrapper" /\ cb.conn = c /\ cb.link = None /\ cb.rest = {}
          BY ReportFields
        <5>2. c \in Conns  BY <3>2 DEF StartsReport
        <5>. HIDE DEF cb
        <5>3. Carries(cb)  BY <5>1, <5>2 DEF Carries
        <5>. QED BY <5>3 DEF cb
      <4>2. \A u \in Threads : thread'[u] = thread[u] \/ thread'[u] = Reporting(c, status, own)
        BY <3>2, GoesElsewhere DEF StartsReport, TypeInv
      <4>. QED BY <4>1, <4>2, Zenon DEF TypeInv, AllCarry, Carries
    <3>3. ASSUME NEW t, NEW ls, StartsDestroying(t, ls) PROVE AllCarry'
      <4>1. Carries(Destroying(ls))  BY DestroyFields DEF Carries
      <4>2. \A u \in Threads : thread'[u] = thread[u] \/ thread'[u] = Destroying(ls)
        BY <3>3, GoesElsewhere DEF StartsDestroying, TypeInv
      <4>. QED BY <4>1, <4>2, Zenon DEF TypeInv, AllCarry, Carries
    <3>4. ASSUME NEW t \in Threads, ThreadStep(t) PROVE AllCarry'
      <4>1. PICK cb \in Callback : Goes(t, cb) /\ Carries(cb)  BY <3>4, StepMoves
      <4>2. \A u \in Threads : thread'[u] = thread[u] \/ thread'[u] = cb
        BY <4>1, GoesElsewhere DEF TypeInv
      <4>. QED BY <4>1, <4>2, Zenon DEF TypeInv, AllCarry, Carries
    <3>. QED BY <1>2, <3>1, <3>2, <3>3, <3>4, ThreadMoves DEF TypeInv, Starts
  <2>. QED BY <2>1, <2>2 DEF TypeInv
<1>. QED BY <1>1, <1>2

LEMMA TypeInvInit == ASSUME ConnectionsAssumption, Init PROVE TypeInv
<1>1. Idle \in Callback  BY CallbackTypes
<1>2. TypeOK
  <2>1. posted \in Seq(Work) /\ work \in [Conns -> Seq(Packages)]  BY DEF Init
  <2>2. thread \in [Threads -> Callback] /\ via \in [Packages -> Conns \union {None}]
    BY <1>1 DEF Init
  <2>3. /\ pluginLinks \in [Links -> {"none", "asked", "up", "down"}]
        /\ pluginConns \in [Conns -> {"none", "asked", "refused", "up", "down"}]
        /\ nmLinks \in [Links -> {"none", "asked", "CREATED", "DESTROYED"}]
        /\ nmConns \in [Conns -> {"none", "asked", "OPEN", "CLOSED"}]
    BY DEF Init
  <2>4. calls \in 0 .. MaxChannelCalls  BY DEF Init, ConnectionsAssumption
  <2>5. /\ channelStatus \in ChannelStatuses
        /\ activateRequested \in BOOLEAN /\ disableRequested \in BOOLEAN
        /\ state \in {"INITIALIZED", "SHUTDOWN", "GONE"}
        /\ handler \in {"STARTED", "STOPPING", "STOPPED"}
        /\ shutdowns \in {"none", "started", "waiting", "cleaning", "stopping", "done"}
        /\ pluginChannel \in {"down", "asked", "up", "closing"}
    BY DEF Init, ChannelStatuses
  <2>6. /\ channelLinks = {} /\ handleToNewLink = {} /\ linkIdToInfo = {} /\ handleToLink = {}
        /\ connections = {} /\ packageHandles = {} /\ opening = {} /\ timeouts = {}
        /\ queues = {} /\ blocked = {} /\ pluginPackages = {} /\ accepted = {} /\ told = {}
        /\ held = {}
    BY DEF Init
  <2>. QED BY <2>1, <2>2, <2>3, <2>4, <2>5, <2>6 DEF TypeOK
<1>3. Carries(Idle)  BY DEF Idle, Carries
<1>. QED BY <1>2, <1>3 DEF Init, TypeInv, AllCarry

\* What the SDK, its wrapper and the network manager keep of a plugin stays
\* what it is, through every callback and the shutdown.
THEOREM TypeCorrect == Spec => []TypeOK
<1>1. Init => TypeInv  BY ConnectionsAssumption, TypeInvInit
<1>2. TypeInv /\ [Next]_vars => TypeInv'  BY ConnectionsAssumption, TypeInvStep
<1>3. TypeInv => TypeOK  BY DEF TypeInv
<1>. QED BY <1>1, <1>2, <1>3, PTL DEF Spec

(***************************************************************************)
(* Requests: what is posted, and what follows for links and connections.   *)
(***************************************************************************)
\* A link of which the plugin knows nothing goes on so until it is asked for.
LinksMove ==
    \A l \in Links :
        /\ nmLinks'[l] = "none" => nmLinks[l] = "none"
        /\ nmLinks'[l] = "CREATED" /\ nmLinks[l] # "CREATED" => pluginLinks[l] # "none"
        /\ pluginLinks'[l] = "none" => pluginLinks[l] = "none"
        /\ pluginLinks'[l] # "none" /\ pluginLinks[l] = "none" => Takes("create", l)
        /\ pluginLinks[l] \in {"up", "down"} /\ pluginLinks'[l] \notin {"up", "down"} => Takes("create", l)

ConnsMove ==
    \A c \in Conns :
        /\ nmConns'[c] = "none" => nmConns[c] = "none"
        /\ pluginConns'[c] # "none" /\ pluginConns[c] = "none" => Takes("open", c)
        /\ pluginConns'[c] # "down" /\ pluginConns[c] = "down" => Takes("open", c)

Posts(w) ==
    /\ posted' = Append(posted, w)
    /\ \A l \in Links : w = <<"create", l>> => nmLinks[l] = "none" /\ nmLinks'[l] # "none"
    /\ \A c \in Conns :
           w = <<"open", c>> => nmLinks[LinkOf[c]] = "CREATED" /\ nmConns[c] = "none" /\ nmConns'[c] # "none"

PostedMoves ==
    \/ UNCHANGED posted
    \/ \E w \in Work : Posts(w)
    \/ \E op, x : Takes(op, x)

LEMMA HeadPosted ==
    ASSUME TypeOK, NEW op, NEW x, Takes(op, x)
    PROVE  /\ IsPosted(<<op, x>>) /\ posted[1] = <<op, x>> /\ 1 \in DOMAIN posted
           /\ DOMAIN posted' \subseteq Nat
           /\ \A i \in DOMAIN posted' : i + 1 \in DOMAIN posted /\ posted'[i] = posted[i + 1]
<1>1. posted \in Seq(Work) /\ posted # <<>> /\ Head(posted) = <<op, x>> /\ posted' = Tail(posted)
  BY DEF Takes, TypeOK
<1>2. 1 \in DOMAIN posted /\ posted[1] = <<op, x>>  BY <1>1
<1>3. /\ DOMAIN posted' \subseteq Nat
      /\ \A i \in DOMAIN posted' : i + 1 \in DOMAIN posted /\ posted'[i] = posted[i + 1]
  BY <1>1
<1>. QED BY <1>2, <1>3 DEF IsPosted

LEMMA NothingMoves ==
    /\ TypeOK /\ UNCHANGED <<pluginLinks, nmLinks>> => LinksMove
    /\ TypeOK /\ UNCHANGED <<pluginConns, nmConns>> => ConnsMove
    /\ UNCHANGED posted => PostedMoves
BY DEF LinksMove, ConnsMove, PostedMoves

LEMMA CallMoves ==
    ASSUME ConnectionsAssumption, TypeOK, Calls
    PROVE  LinksMove /\ ConnsMove /\ PostedMoves
<1>1. UNCHANGED pluginConns
  BY DEF Calls, ActivateChannel, DeactivateChannel, EnableChannel, DisableChannel, CreateLink,
         OpenConnection, SendPackage, HoldPackage, ShipHeld
<1>2. ASSUME NEW w \in Work, Post(w),
             \A l \in Links : w = <<"create", l>> => nmLinks[l] = "none" /\ nmLinks'[l] # "none",
             \A c \in Conns : w = <<"open", c>> =>
                 nmLinks[LinkOf[c]] = "CREATED" /\ nmConns[c] = "none" /\ nmConns'[c] # "none"
      PROVE  PostedMoves
  BY <1>2 DEF Post, PostedMoves, Posts
<1>3. ASSUME NEW l \in Links, CreateLink(l) PROVE LinksMove /\ ConnsMove /\ PostedMoves
  <2>1. nmLinks[l] = "none" /\ nmLinks' = [nmLinks EXCEPT ![l] = "asked"]
        /\ UNCHANGED <<pluginLinks, nmConns>> /\ Post(<<"create", l>>)
    BY <1>3 DEF CreateLink
  <2>2. LinksMove  BY <2>1 DEF LinksMove, TypeOK
  <2>3. /\ \A m \in Links : <<"create", l>> = <<"create", m>> => nmLinks[m] = "none" /\ nmLinks'[m] # "none"
        /\ \A c \in Conns : <<"create", l>> # <<"open", c>>
    BY <2>1 DEF TypeOK
  <2>4. <<"create", l>> \in Work  BY DEF Work
  <2>. QED BY <1>1, <1>2, <2>1, <2>2, <2>3, <2>4, NothingMoves
<1>4. ASSUME NEW c \in Conns, OpenConnection(c) PROVE LinksMove /\ ConnsMove /\ PostedMoves
  <2>1. nmLinks[LinkOf[c]] = "CREATED" /\ UNCHANGED <<pluginLinks, nmLinks>> /\ Post(<<"open", c>>)
        /\ nmConns[c] = "none"
    BY <1>4 DEF OpenConnection
  <2>2. \A d \in Conns : nmConns'[d] = nmConns[d] \/ (d = c /\ nmConns'[d] \in {"asked", "CLOSED"})
    BY <1>4 DEF OpenConnection, TypeOK
  <2>3. nmConns'[c] # "none"  BY <1>4 DEF OpenConnection, TypeOK
  <2>4. ConnsMove  BY <1>1, <2>2 DEF ConnsMove
  <2>5. /\ \A l \in Links : <<"open", c>> # <<"create", l>>
        /\ \A d \in Conns : <<"open", c>> = <<"open", d>> => d = c
    BY <2>1
  <2>6. <<"open", c>> \in Work  BY DEF Work
  <2>7. PostedMoves  BY <1>2, <2>1, <2>3, <2>5, <2>6
  <2>. QED BY <2>1, <2>4, <2>7, NothingMoves
<1>5. ASSUME ActivateChannel \/ DeactivateChannel \/ DisableChannel
      PROVE  LinksMove /\ ConnsMove /\ PostedMoves
  <2>1. /\ <<"activate", None>> \in Work /\ <<"deactivate", None>> \in Work
        /\ \A l : <<"activate", None>> # <<"create", l>> /\ <<"deactivate", None>> # <<"create", l>>
        /\ \A c : <<"activate", None>> # <<"open", c>> /\ <<"deactivate", None>> # <<"open", c>>
    BY DEF Work
  <2>2. UNCHANGED <<pluginLinks, nmLinks, nmConns>>
        /\ (UNCHANGED posted \/ Post(<<"activate", None>>) \/ Post(<<"deactivate", None>>))
    BY <1>5 DEF ActivateChannel, DeactivateChannel, DisableChannel
  <2>. QED BY <1>1, <1>2, <2>1, <2>2, NothingMoves
<1>6. CASE UNCHANGED <<pluginLinks, nmLinks, nmConns, posted>>
  BY <1>1, <1>6, NothingMoves
<1>7. EnableChannel => UNCHANGED <<pluginLinks, nmLinks, nmConns, posted>>
  BY DEF EnableChannel
<1>8. ASSUME NEW p \in Packages, NEW c \in Conns, SendPackage(p, c) \/ HoldPackage(p, c)
      PROVE  UNCHANGED <<pluginLinks, nmLinks, nmConns, posted>>
  BY <1>8 DEF SendPackage, HoldPackage
<1>9. ASSUME NEW p \in Packages, ShipHeld(p)
      PROVE  UNCHANGED <<pluginLinks, nmLinks, nmConns, posted>>
  BY <1>9 DEF ShipHeld
<1>. QED BY <1>1, <1>3, <1>4, <1>5, <1>6, <1>7, <1>8, <1>9, NothingMoves DEF Calls

LEMMA OtherMoves ==
    ASSUME ConnectionsAssumption, TypeInv,
           HandlerNext \/ PluginNext \/ (\E t \in Threads : ThreadStep(t)) \/ ShutdownNext
    PROVE  LinksMove /\ ConnsMove /\ PostedMoves
<1>. USE DEF TypeInv
<1>1. CASE HandlerNext
  <2>1. ASSUME NEW c \in Conns, RunOpen(c) PROVE LinksMove /\ ConnsMove /\ PostedMoves
    <3>1. Takes("open", c) /\ UNCHANGED <<pluginLinks, nmLinks, nmConns>>
          /\ \A d \in Conns \ {c} : pluginConns'[d] = pluginConns[d]
      BY <2>1 DEF RunOpen, TypeOK
    <3>. QED BY <3>1, NothingMoves DEF ConnsMove, PostedMoves
  <2>2. ASSUME NEW l \in Links, RunCreate(l) PROVE LinksMove /\ ConnsMove /\ PostedMoves
    <3>1. /\ Takes("create", l) /\ UNCHANGED <<pluginConns, nmLinks, nmConns>>
          /\ \A m \in Links \ {l} : pluginLinks'[m] = pluginLinks[m]
          /\ pluginLinks'[l] \in {pluginLinks[l], "asked"}
      BY <2>2 DEF RunCreate, TypeOK
    <3>2. LinksMove  BY <3>1 DEF LinksMove
    <3>. QED BY <3>1, <3>2, NothingMoves DEF PostedMoves
  <2>3. ASSUME NEW op, RunChannel(op) PROVE LinksMove /\ ConnsMove /\ PostedMoves
    BY <2>3, NothingMoves DEF RunChannel, PostedMoves
  <2>4. ASSUME NEW c \in Conns, RunSend(c) \/ Expire(c)
        PROVE  LinksMove /\ ConnsMove /\ PostedMoves
    BY <2>4, NothingMoves DEF RunSend, Expire
  <2>. QED BY <1>1, <2>1, <2>2, <2>3, <2>4 DEF HandlerNext
<1>2. CASE PluginNext
  <2>1. ASSUME NEW l \in Links, LinkCreated(l) PROVE LinksMove /\ ConnsMove /\ PostedMoves
    <3>1. LinksMove  BY <2>1 DEF LinkCreated, LinksMove, TypeOK
    <3>. QED BY <2>1, <3>1, NothingMoves DEF LinkCreated
  <2>2. ASSUME NEW l \in Links, LinkDestroyed(l) PROVE LinksMove /\ ConnsMove /\ PostedMoves
    <3>1. LinksMove  BY <2>2 DEF LinkDestroyed, LinksMove, TypeOK
    <3>2. ConnsMove  BY <2>2 DEF LinkDestroyed, ConnsMove, TypeOK
    <3>. QED BY <2>2, <3>1, <3>2, NothingMoves DEF LinkDestroyed
  <2>3. ASSUME NEW c \in Conns, NEW status \in {"OPEN", "CLOSED"}, NEW own \in BOOLEAN,
               ConnectionReported(c, status, own)
        PROVE  LinksMove /\ ConnsMove /\ PostedMoves
    <3>1. pluginConns[c] # "none"  BY <2>3 DEF ConnectionReported
    <3>2. ConnsMove  BY <2>3, <3>1 DEF ConnectionReported, ConnsMove, TypeOK
    <3>. QED BY <2>3, <3>2, NothingMoves DEF ConnectionReported
  <2>4. ASSUME NEW status, ChannelReported(status) PROVE LinksMove /\ ConnsMove /\ PostedMoves
    BY <2>4, NothingMoves DEF ChannelReported
  <2>5. ASSUME NEW c \in Conns, UnblockQueue(c) PROVE LinksMove /\ ConnsMove /\ PostedMoves
    BY <2>5, NothingMoves DEF UnblockQueue
  <2>6. ASSUME NEW p \in Packages, PackageReported(p) PROVE LinksMove /\ ConnsMove /\ PostedMoves
    BY <2>6, NothingMoves DEF PackageReported
  <2>. QED BY <1>2, <2>1, <2>2, <2>3, <2>4, <2>5, <2>6 DEF PluginNext
<1>3. ASSUME NEW t \in Threads, ThreadStep(t) PROVE LinksMove /\ ConnsMove /\ PostedMoves
  <2>1. CASE RemoveLink(t)
    <3>1. thread[t].link \in Links  BY <2>1 DEF RemoveLink, AllCarry, Carries
    <3>2. LinksMove  BY <2>1, <3>1 DEF RemoveLink, LinksMove, TypeOK
    <3>. QED BY <2>1, <3>2, NothingMoves DEF RemoveLink
  <2>2. CASE TellConnection(t)
    <3>1. UNCHANGED <<pluginLinks, nmLinks, pluginConns, posted>>  BY <2>2 DEF TellConnection
    <3>2. nmConns' = [nmConns EXCEPT ![thread[t].conn] = thread[t].status]
          /\ thread[t].status \in {"OPEN", "CLOSED"}
      BY <2>2 DEF TellConnection, TypeOK, Callback
    <3>3. ConnsMove  BY <3>1, <3>2 DEF ConnsMove, TypeOK
    <3>. QED BY <3>1, <3>3, NothingMoves
  <2>3. CASE ~RemoveLink(t) /\ ~TellConnection(t)
    BY <1>3, <2>3, NothingMoves DEF ThreadStep, WrapperStep, AddConnection, RemoveConnection,
                                    TakeLink, CloseNext
  <2>. QED BY <2>1, <2>2, <2>3
<1>4. CASE ShutdownNext
  <2>1. CASE PluginShutdown
    <3>1. LinksMove  BY <2>1 DEF PluginShutdown, LinksMove, TypeOK
    <3>2. ConnsMove  BY <2>1 DEF PluginShutdown, ConnsMove, TypeOK
    <3>. QED BY <2>1, <3>1, <3>2, NothingMoves DEF PluginShutdown
  <2>2. CASE BeginShutdown \/ CleanupChannels \/ StopHandler
    BY <2>2, NothingMoves DEF BeginShutdown, CleanupChannels, StopHandler
  <2>. QED BY <1>4, <2>1, <2>2 DEF ShutdownNext
<1>. QED BY <1>1, <1>2, <1>3, <1>4

LEMMA RequestsMove ==
    ASSUME ConnectionsAssumption, TypeInv, Next
    PROVE  LinksMove /\ ConnsMove /\ PostedMoves
BY CallMoves, OtherMoves DEF Next, TypeInv

LEMMA AppendPosted ==
    ASSUME TypeOK, NEW w \in Work, posted' = Append(posted, w)
    PROVE  \E n \in DOMAIN posted' :
               /\ posted'[n] = w /\ DOMAIN posted' = DOMAIN posted \union {n} /\ n \notin DOMAIN posted
               /\ \A i \in DOMAIN posted : posted'[i] = posted[i]
<1>1. posted \in Seq(Work)  BY DEF TypeOK
<1>2. WITNESS Len(posted) + 1 \in DOMAIN posted'
<1>. QED BY <1>1

\* What a step does to one kind of work that is posted at most once.
LEMMA PostedStep ==
    ASSUME TypeOK, PostedMoves, NEW op, NEW x, AtMostOnce(<<op, x>>),
           Posts(<<op, x>>) => ~IsPosted(<<op, x>>)
    PROVE  /\ AtMostOnce(<<op, x>>)'
           /\ IsPosted(<<op, x>>)' => IsPosted(<<op, x>>) \/ Posts(<<op, x>>)
           /\ IsPosted(<<op, x>>) => IsPosted(<<op, x>>)' \/ Takes(op, x)
           /\ Takes(op, x) => IsPosted(<<op, x>>) /\ ~IsPosted(<<op, x>>)'
<1>. DEFINE w == <<op, x>>
<1>1. Takes(op, x) => posted # <<>> /\ Head(posted) = w /\ posted' = Tail(posted)  BY DEF Takes
<1>2. posted \in Seq(Work)  BY DEF TypeOK
<1>3. CASE UNCHANGED posted
  <2>1. ~Takes(op, x)  BY <1>1, <1>2, <1>3
  <2>. QED BY <1>3, <2>1 DEF IsPosted, AtMostOnce
<1>4. ASSUME NEW v \in Work, Posts(v)
      PROVE  /\ AtMostOnce(w)' /\ ~Takes(op, x)
             /\ IsPosted(w)' => IsPosted(w) \/ Posts(w)
             /\ IsPosted(w) => IsPosted(w)'
  <2>1. posted' = Append(posted, v)  BY <1>4 DEF Posts
  <2>2. PICK n \in DOMAIN posted' :
            /\ posted'[n] = v /\ DOMAIN posted' = DOMAIN posted \union {n} /\ n \notin DOMAIN posted
            /\ \A i \in DOMAIN posted : posted'[i] = posted[i]
    BY <1>4, <2>1, AppendPosted
  <2>3. ~Takes(op, x)
    <3>1. Len(Append(posted, v)) = Len(posted) + 1 /\ Len(posted) \in Nat  BY <1>2, <1>4
    <3>2. posted # <<>> => Len(Tail(posted)) = Len(posted) - 1  BY <1>2
    <3>. QED BY <1>1, <2>1, <3>1, <3>2
  <2>4. IsPosted(w)' => IsPosted(w) \/ v = w  BY <2>2 DEF IsPosted
  <2>5. IsPosted(w) => IsPosted(w)'  BY <2>2 DEF IsPosted
  <2>6. AtMostOnce(w)'
    <3>1. v = w => ~IsPosted(w)  BY <1>4
    <3>. QED BY <2>2, <3>1 DEF AtMostOnce, IsPosted
  <2>. QED BY <1>4, <2>3, <2>4, <2>5, <2>6
<1>5. ASSUME NEW p, NEW y, Takes(p, y)
      PROVE  /\ AtMostOnce(w)' /\ (IsPosted(w)' => IsPosted(w))
             /\ IsPosted(w) => IsPosted(w)' \/ Takes(op, x)
             /\ Takes(op, x) => IsPosted(w) /\ ~IsPosted(w)'
  <2>1. posted # <<>> /\ posted' = Tail(posted) /\ posted[1] = <<p, y>>
    BY <1>2, <1>5 DEF Takes
  <2>2. /\ DOMAIN posted' \subseteq Nat \ {0} /\ DOMAIN posted \subseteq Nat
        /\ \A i \in DOMAIN posted' : i + 1 \in DOMAIN posted /\ posted'[i] = posted[i + 1]
        /\ \A i \in DOMAIN posted : i = 1 \/ (i - 1 \in DOMAIN posted' /\ posted'[i - 1] = posted[i])
    BY <1>2, <2>1
  <2>3. AtMostOnce(w)'
    <3>1. SUFFICES ASSUME NEW i \in DOMAIN posted', NEW j \in DOMAIN posted',
                          posted'[i] = w, posted'[j] = w
                   PROVE  i = j
      BY DEF AtMostOnce
    <3>2. i + 1 = j + 1  BY <2>2, <3>1 DEF AtMostOnce
    <3>. QED BY <2>2, <3>2
  <2>4. IsPosted(w)' => IsPosted(w)  BY <2>2 DEF IsPosted
  <2>5. IsPosted(w) => IsPosted(w)' \/ Takes(op, x)
    <3>1. <<p, y>> = w => Takes(op, x)  BY <1>5 DEF Takes
    <3>. QED BY <2>1, <2>2, <3>1 DEF IsPosted
  <2>6. Takes(op, x) => IsPosted(w) /\ ~IsPosted(w)'
    <3>1. SUFFICES ASSUME Takes(op, x) PROVE IsPosted(w) /\ ~IsPosted(w)'  OBVIOUS
    <3>2. posted[1] = w /\ 1 \in DOMAIN posted  BY <1>2, <3>1 DEF Takes
    <3>3. ASSUME NEW i \in DOMAIN posted', posted'[i] = w PROVE FALSE
      <4>1. i + 1 = 1  BY <2>2, <3>2, <3>3 DEF AtMostOnce
      <4>. QED BY <2>2, <4>1
    <3>. QED BY <3>2, <3>3 DEF IsPosted
  <2>. QED BY <2>3, <2>4, <2>5, <2>6
<1>. QED BY <1>3, <1>4, <1>5 DEF PostedMoves

LEMMA AskedOnceStep ==
    ASSUME ConnectionsAssumption, TypeInv, AskedOnce, Next
    PROVE  AskedOnce'
<1>1. LinksMove /\ PostedMoves /\ TypeOK  BY RequestsMove DEF TypeInv
<1>2. SUFFICES ASSUME NEW l \in Links
               PROVE  /\ nmLinks'[l] = "none" => pluginLinks'[l] = "none" /\ ~IsPosted(<<"create", l>>)'
                      /\ IsPosted(<<"create", l>>)' => pluginLinks'[l] = "none"
                      /\ AtMostOnce(<<"create", l>>)'
  BY DEF AskedOnce
<1>3. /\ nmLinks[l] = "none" => pluginLinks[l] = "none" /\ ~IsPosted(<<"create", l>>)
      /\ IsPosted(<<"create", l>>) => pluginLinks[l] = "none"
      /\ AtMostOnce(<<"create", l>>)
  BY DEF AskedOnce
<1>4. Posts(<<"create", l>>) => nmLinks[l] = "none" /\ nmLinks'[l] # "none"  BY DEF Posts
<1>5. /\ AtMostOnce(<<"create", l>>)'
      /\ IsPosted(<<"create", l>>)' => IsPosted(<<"create", l>>) \/ Posts(<<"create", l>>)
      /\ Takes("create", l) => IsPosted(<<"create", l>>) /\ ~IsPosted(<<"create", l>>)'
  BY <1>1, <1>3, <1>4, PostedStep
<1>. QED BY <1>1, <1>3, <1>4, <1>5 DEF LinksMove

\* A connection opens in a callback that began for it, with the plugin's answer.
LEMMA OpeningsMove ==
    ASSUME ConnectionsAssumption, TypeInv, Next, NEW c \in Conns, NEW t \in Threads, IsOpening(t, c)'
    PROVE  \/ IsOpening(t, c)
           \/ /\ pluginConns[c] = "asked" /\ pluginConns'[c] = "up"
              /\ thread'[t].at = "wrapper" /\ UNCHANGED connections
<1>1. TypeOK  BY DEF TypeInv
<1>2. CASE UNCHANGED thread  BY <1>2 DEF IsOpening
<1>3. ASSUME NEW u, NEW d, NEW status, NEW own, StartsReport(u, d, status, own)
      PROVE  \/ IsOpening(t, c)
             \/ pluginConns[c] = "asked" /\ pluginConns'[c] = "up" /\ thread'[t].at = "wrapper"
  <2>. DEFINE cb == Reporting(d, status, own)
  <2>1. /\ u \in Threads /\ Goes(u, cb)
        /\ status = "OPEN" => pluginConns[d] = "asked" /\ pluginConns'[d] = "up"
    BY <1>3 DEF StartsReport
  <2>2. cb.status = status /\ cb.conn = d /\ cb.at = "wrapper"  BY ReportFields
  <2>. HIDE DEF cb
  <2>3. thread'[u] = cb /\ \A v \in Threads \ {u} : thread'[v] = thread[v]
    BY <1>1, <2>1, GoesElsewhere
  <2>. QED BY <2>1, <2>2, <2>3 DEF IsOpening
<1>4. ASSUME NEW u, NEW ls, StartsDestroying(u, ls) PROVE IsOpening(t, c)
  <2>1. Destroying(ls).status = "CLOSED"  BY DestroyFields
  <2>2. u \in Threads /\ Goes(u, Destroying(ls))  BY <1>4 DEF StartsDestroying
  <2>3. thread'[u] = Destroying(ls) /\ \A v \in Threads \ {u} : thread'[v] = thread[v]
    BY <1>1, <2>2, GoesElsewhere
  <2>. QED BY <2>1, <2>3 DEF IsOpening
<1>5. ASSUME NEW u \in Threads, ThreadStep(u) PROVE IsOpening(t, c)
  <2>1. PICK cb : Goes(u, cb) /\ (cb.status = "OPEN" => thread[u].status = "OPEN" /\ cb.conn = thread[u].conn)
    BY <1>5, StepMoves
  <2>2. thread'[u] = cb /\ \A v \in Threads \ {u} : thread'[v] = thread[v]
    BY <1>1, <2>1, GoesElsewhere
  <2>. QED BY <2>1, <2>2 DEF IsOpening
<1>6. CASE Starts /\ UNCHANGED connections  BY <1>3, <1>4, <1>6 DEF Starts
<1>. QED BY <1>1, <1>2, <1>5, <1>6, ThreadMoves

LEMMA UntriedStep ==
    ASSUME ConnectionsAssumption, TypeInv, Untried, Next
    PROVE  Untried'
<1>1. LinksMove /\ ConnsMove /\ PostedMoves /\ TypeOK  BY RequestsMove DEF TypeInv
<1>2. \A c \in Conns : LinkOf[c] \in Links  BY DEF ConnectionsAssumption
<1>3. ASSUME NEW c \in Conns, nmLinks[LinkOf[c]] # "CREATED", IsPosted(<<"open", c>>)'
      PROVE  IsPosted(<<"open", c>>)
  <2>1. CASE UNCHANGED posted  BY <1>3, <2>1 DEF IsPosted
  <2>2. ASSUME NEW w \in Work, Posts(w) PROVE IsPosted(<<"open", c>>)
    <3>1. w # <<"open", c>>  BY <1>3, <2>2 DEF Posts
    <3>2. PICK n \in DOMAIN posted' :
              /\ posted'[n] = w /\ DOMAIN posted' = DOMAIN posted \union {n}
              /\ \A i \in DOMAIN posted : posted'[i] = posted[i]
      BY <1>1, <2>2, AppendPosted DEF Posts
    <3>. QED BY <1>3, <3>1, <3>2 DEF IsPosted
  <2>3. ASSUME NEW op, NEW x, Takes(op, x) PROVE IsPosted(<<"open", c>>)
    BY <1>1, <1>3, <2>3, HeadPosted DEF IsPosted
  <2>. QED BY <1>1, <2>1, <2>2, <2>3 DEF PostedMoves
<1>4. ASSUME NEW c \in Conns, NEW t \in Threads, IsOpening(t, c)'
      PROVE  IsOpening(t, c) \/ pluginConns[c] = "asked"
  BY <1>4, OpeningsMove
<1>5. SUFFICES ASSUME NEW l \in Links, pluginLinks'[l] = "none"
               PROVE  /\ nmLinks'[l] # "CREATED"
                      /\ \A c \in Conns : LinkOf[c] = l =>
                             /\ pluginConns'[c] = "none" /\ ~IsPosted(<<"open", c>>)'
                             /\ \A t \in Threads : ~IsOpening(t, c)'
  BY DEF Untried
<1>6. pluginLinks[l] = "none"  BY <1>1, <1>5 DEF LinksMove
<1>7. nmLinks'[l] # "CREATED"  BY <1>1, <1>6 DEF LinksMove, Untried
<1>8. ASSUME NEW c \in Conns, LinkOf[c] = l
      PROVE  /\ pluginConns'[c] = "none" /\ ~IsPosted(<<"open", c>>)'
             /\ \A t \in Threads : ~IsOpening(t, c)'
  <2>1. /\ nmLinks[LinkOf[c]] # "CREATED" /\ pluginConns[c] = "none" /\ ~IsPosted(<<"open", c>>)
        /\ \A t \in Threads : ~IsOpening(t, c)
    BY <1>6, <1>8 DEF Untried
  <2>2. Takes("open", c) => IsPosted(<<"open", c>>)  BY <1>1, HeadPosted
  <2>. QED BY <1>1, <1>3, <1>4, <2>1, <2>2 DEF ConnsMove
<1>. QED BY <1>7, <1>8

LEMMA ApartStep ==
    ASSUME ConnectionsAssumption, Orderly, TypeInv, Apart, Untried, AskedOnce, Next
    PROVE  Apart'
<1>1. TypeOK /\ None \notin Links /\ \A c \in Conns : LinkOf[c] \in Links
  BY DEF TypeInv, ConnectionsAssumption
<1>2. CASE UNCHANGED thread  BY <1>2 DEF Apart, IsOpening, IsDestroying
<1>3. ASSUME NEW u, NEW d, NEW status, NEW own, StartsReport(u, d, status, own)
      PROVE  Apart'
  <2>. DEFINE cb == Reporting(d, status, own)
  <2>1. cb.status = status /\ cb.conn = d /\ cb.link = None /\ cb.rest = {}  BY ReportFields
  <2>2. u \in Threads /\ d \in Conns /\ Goes(u, cb) /\ (status = "OPEN" => MayOpen(d))
    BY <1>3 DEF StartsReport
  <2>. HIDE DEF cb
  <2>3. thread'[u] = cb /\ \A v \in Threads \ {u} : thread'[v] = thread[v]
    BY <1>1, <2>2, GoesElsewhere
  <2>4. SUFFICES ASSUME NEW t \in Threads, NEW v \in Threads, NEW c \in Conns,
                        IsOpening(t, c)', IsDestroying(v, LinkOf[c])'
                 PROVE  FALSE
    BY DEF Apart
  <2>5. IsDestroying(v, LinkOf[c])  BY <1>1, <2>1, <2>3, <2>4 DEF IsDestroying
  <2>6. IsOpening(t, c) \/ (t = u /\ c = d /\ status = "OPEN")  BY <2>1, <2>3, <2>4 DEF IsOpening
  <2>. QED BY <2>2, <2>5, <2>6 DEF Apart, MayOpen
<1>4. ASSUME NEW u, NEW ls, StartsDestroying(u, ls) PROVE Apart'
  <2>. DEFINE cb == Destroying(ls)
  <2>1. cb.status = "CLOSED" /\ cb.link = None /\ cb.rest = ls  BY DestroyFields
  <2>2. u \in Threads /\ ls \subseteq Links /\ Goes(u, cb)  BY <1>4 DEF StartsDestroying
  <2>. HIDE DEF cb
  <2>3. thread'[u] = cb /\ \A v \in Threads \ {u} : thread'[v] = thread[v]
    BY <1>1, <2>2, GoesElsewhere
  <2>4. ASSUME NEW t \in Threads, NEW c \in Conns, LinkOf[c] \in ls PROVE ~IsOpening(t, c)
    <3>1. CASE MayDestroy(ls)  BY <2>4, <3>1 DEF MayDestroy
    <3>2. ASSUME NEW l \in Links, ls = {l}, Takes("create", l) PROVE ~IsOpening(t, c)
      <4>1. IsPosted(<<"create", l>>)  BY <1>1, <3>2, HeadPosted
      <4>2. pluginLinks[l] = "none"  BY <4>1 DEF AskedOnce
      <4>. QED BY <2>4, <3>2, <4>2 DEF Untried
    <3>. QED BY <1>4, <3>1, <3>2 DEF StartsDestroying
  <2>5. SUFFICES ASSUME NEW t \in Threads, NEW v \in Threads, NEW c \in Conns,
                        IsOpening(t, c)', IsDestroying(v, LinkOf[c])'
                 PROVE  FALSE
    BY DEF Apart
  <2>6. IsOpening(t, c)  BY <2>1, <2>3, <2>5 DEF IsOpening
  <2>7. IsDestroying(v, LinkOf[c]) \/ LinkOf[c] \in ls  BY <1>1, <2>1, <2>3, <2>5 DEF IsDestroying
  <2>. QED BY <2>4, <2>6, <2>7 DEF Apart
<1>5. ASSUME NEW u \in Threads, ThreadStep(u) PROVE Apart'
  <2>1. PICK cb : /\ Goes(u, cb)
                  /\ cb.status = "OPEN" => thread[u].status = "OPEN" /\ cb.conn = thread[u].conn
                  /\ cb.rest \union ({cb.link} \ {None})
                         \subseteq thread[u].rest \union ({thread[u].link} \ {None})
    BY <1>5, StepMoves
  <2>2. thread'[u] = cb /\ \A v \in Threads \ {u} : thread'[v] = thread[v]
    BY <1>1, <2>1, GoesElsewhere
  <2>3. SUFFICES ASSUME NEW t \in Threads, NEW v \in Threads, NEW c \in Conns,
                        IsOpening(t, c)', IsDestroying(v, LinkOf[c])'
                 PROVE  FALSE
    BY DEF Apart
  <2>4. IsOpening(t, c)  BY <2>1, <2>2, <2>3 DEF IsOpening
  <2>5. IsDestroying(v, LinkOf[c])  BY <1>1, <2>1, <2>2, <2>3 DEF IsDestroying
  <2>. QED BY <2>4, <2>5 DEF Apart
<1>. QED BY <1>1, <1>2, <1>3, <1>4, <1>5, ThreadMoves DEF Starts

Due(cb) == cb.todo \union (IF cb.at = "sdk" THEN {cb.conn} ELSE {})

LEMMA ListedStep ==
    ASSUME ConnectionsAssumption, TypeInv, Apart, Listed, Next
    PROVE  Listed'
<1>1. TypeOK /\ None \notin Links /\ \A c \in Conns : LinkOf[c] \in Links
  BY DEF TypeInv, ConnectionsAssumption
<1>2. CASE UNCHANGED <<thread, connections>>  BY <1>2 DEF Listed, ConnectionsOf
<1>3. CASE Starts /\ UNCHANGED connections
  <2>1. PICK u \in Threads : \E cb : Goes(u, cb) /\ cb.link = None
    BY <1>3, ReportFields, DestroyFields DEF Starts, StartsReport, StartsDestroying
  <2>2. PICK cb : Goes(u, cb) /\ cb.link = None  BY <2>1
  <2>3. thread'[u] = cb /\ \A v \in Threads \ {u} : thread'[v] = thread[v]
    BY <1>1, <2>2, GoesElsewhere
  <2>. QED BY <1>3, <2>2, <2>3 DEF Listed, ConnectionsOf
<1>4. ASSUME NEW t \in Threads, ThreadStep(t) PROVE Listed'
  <2>. DEFINE old == thread[t]
  <2>1. thread[t] \in Callback /\ Carries(thread[t])  BY DEF TypeInv, TypeOK, AllCarry
  <2>2. ASSUME NEW cb, Goes(t, cb),
               connections' \subseteq connections
                   \/ (connections' = connections \union {old.conn} /\ IsOpening(t, old.conn)
                        /\ old.conn \in Conns /\ cb.link = None),
               cb.link # None =>
                   {c \in connections' : LinkOf[c] = cb.link} \subseteq Due(cb)
        PROVE  Listed'
    <3>1. thread'[t] = cb /\ \A v \in Threads \ {t} : thread'[v] = thread[v]
      BY <1>1, <2>2, GoesElsewhere
    <3>2. ASSUME NEW v \in Threads \ {t}, thread[v].link # None
          PROVE  {c \in connections' : LinkOf[c] = thread[v].link} \subseteq Due(thread[v])
      <4>1. {c \in connections : LinkOf[c] = thread[v].link} \subseteq Due(thread[v])
        BY <3>2 DEF Listed, ConnectionsOf, Due
      <4>2. CASE connections' \subseteq connections  BY <4>1, <4>2
      <4>3. CASE connections' = connections \union {old.conn} /\ IsOpening(t, old.conn) /\ old.conn \in Conns
        <5>1. thread[v].link # LinkOf[old.conn]  BY <4>3 DEF Apart, IsDestroying
        <5>. QED BY <4>1, <4>3, <5>1
      <4>. QED BY <2>2, <4>2, <4>3
    <3>. QED BY <2>2, <3>1, <3>2 DEF Listed, ConnectionsOf, Due
  <2>3. CASE WrapperStep(t)
    <3>1. UNCHANGED connections  BY <2>3 DEF WrapperStep
    <3>2. old.link = None  BY <2>1, <2>3 DEF WrapperStep, Carries
    <3>3. Goes(t, Idle) \/ Moves(t, "sdk")  BY <2>3 DEF WrapperStep
    <3>4. Idle.link = None /\ [old EXCEPT !.at = "sdk"].link = old.link  BY <2>1 DEF Idle, Callback
    <3>. QED BY <2>2, <3>1, <3>2, <3>3, <3>4 DEF Moves
  <2>4. CASE AddConnection(t)
    <3>1. old.status = "OPEN" /\ old.at = "sdk"  BY <2>4 DEF AddConnection
    <3>2. old.link = None /\ old.conn \in Conns  BY <2>1, <3>1 DEF Carries
    <3>3. IsOpening(t, old.conn)  BY <3>1 DEF IsOpening
    <3>4. Idle.link = None /\ [old EXCEPT !.at = "tell"].link = old.link  BY <2>1 DEF Idle, Callback
    <3>5. /\ Goes(t, Idle) \/ Goes(t, [old EXCEPT !.at = "tell"])
          /\ connections' = connections \union {old.conn} \/ UNCHANGED connections
      BY <2>4 DEF AddConnection, Moves
    <3>. QED BY <2>2, <3>2, <3>3, <3>4, <3>5
  <2>5. CASE RemoveConnection(t)
    <3>. DEFINE cb == [old EXCEPT !.at = "tell"]
    <3>1. connections' = connections \ {old.conn} /\ old.at = "sdk" /\ Goes(t, cb)
      BY <2>5 DEF RemoveConnection, Moves
    <3>2. cb.link = old.link /\ cb.todo = old.todo /\ cb.at = "tell"  BY <2>1 DEF Callback
    <3>3. old.link # None => {c \in connections : LinkOf[c] = old.link} \subseteq old.todo \union {old.conn}
      BY <3>1 DEF Listed, ConnectionsOf
    <3>. HIDE DEF cb
    <3>. QED BY <2>2, <3>1, <3>2, <3>3 DEF Due
  <2>6. CASE TellConnection(t)
    <3>. DEFINE cb == [old EXCEPT !.at = "conns"]
    <3>1. UNCHANGED connections /\ old.at = "tell" /\ (Goes(t, Idle) \/ Goes(t, cb))
      BY <2>6 DEF TellConnection, Moves
    <3>2. cb.link = old.link /\ cb.todo = old.todo /\ cb.at = "conns" /\ Idle.link = None
      BY <2>1 DEF Callback, Idle
    <3>3. old.link # None => {c \in connections : LinkOf[c] = old.link} \subseteq old.todo
      BY <3>1 DEF Listed, ConnectionsOf
    <3>. HIDE DEF cb
    <3>. QED BY <2>2, <3>1, <3>2, <3>3 DEF Due
  <2>7. CASE TakeLink(t)
    <3>1. UNCHANGED connections  BY <2>7 DEF TakeLink
    <3>2. CASE Goes(t, Idle)
      <4>1. Idle.link = None  BY DEF Idle
      <4>. QED BY <2>2, <3>1, <3>2, <4>1
    <3>3. ASSUME NEW l \in old.rest,
                 Goes(t, [old EXCEPT !.at = "conns", !.rest = @ \ {l}, !.link = l,
                              !.todo = ConnectionsOf(l)])
          PROVE  Listed'
      <4>. DEFINE cb == [old EXCEPT !.at = "conns", !.rest = @ \ {l}, !.link = l,
                              !.todo = ConnectionsOf(l)]
      <4>1. cb.link = l /\ cb.todo = ConnectionsOf(l)  BY <2>1 DEF Callback
      <4>2. Goes(t, cb)  BY <3>3
      <4>. HIDE DEF cb
      <4>. QED BY <2>2, <3>1, <4>1, <4>2 DEF Due, ConnectionsOf
    <3>. QED BY <2>7, <3>2, <3>3 DEF TakeLink
  <2>8. CASE CloseNext(t)
    <3>1. UNCHANGED connections /\ old.at = "conns"  BY <2>8 DEF CloseNext
    <3>2. PICK c \in old.todo :
              Goes(t, [old EXCEPT !.at = "sdk", !.status = "CLOSED", !.conn = c, !.todo = @ \ {c}])
      BY <2>8 DEF CloseNext
    <3>. DEFINE cb == [old EXCEPT !.at = "sdk", !.status = "CLOSED", !.conn = c, !.todo = @ \ {c}]
    <3>3. cb.link = old.link /\ cb.todo = old.todo \ {c} /\ cb.at = "sdk" /\ cb.conn = c
      BY <2>1 DEF Callback
    <3>4. Goes(t, cb)  BY <3>2
    <3>5. old.link # None => {d \in connections : LinkOf[d] = old.link} \subseteq old.todo
      BY <3>1 DEF Listed, ConnectionsOf
    <3>. HIDE DEF cb
    <3>. QED BY <2>2, <3>1, <3>3, <3>4, <3>5 DEF Due
  <2>9. CASE RemoveLink(t)
    <3>. DEFINE cb == [Idle EXCEPT !.at = "links", !.rest = old.rest]
    <3>1. connections' \subseteq connections /\ Goes(t, cb)  BY <2>9 DEF RemoveLink
    <3>2. cb.link = None  BY DEF Idle
    <3>. QED BY <2>2, <3>1, <3>2
  <2>. QED BY <1>4, <2>3, <2>4, <2>5, <2>6, <2>7, <2>8, <2>9 DEF ThreadStep
<1>. QED BY <1>1, <1>2, <1>3, <1>4, ThreadMoves

LEMMA SameCovered ==
    ASSUME PackagesCovered, UNCHANGED <<via, connections>>,
           accepted' \ told' \subseteq accepted \ told,
           packageHandles \ told' \subseteq packageHandles'
    PROVE  PackagesCovered'
BY DEF PackagesCovered

LEMMA ShipCovers ==
    ASSUME TypeOK, PackagesCovered, NEW p \in Packages, NEW c \in Conns,
           Ship(p, c), c \in connections, via'[p] = c, UNCHANGED connections,
           \A q \in Packages \ {p} : via'[q] = via[q]
    PROVE  PackagesCovered'
<1>1. accepted' \subseteq Packages  BY DEF Ship, TypeOK
<1>2. /\ told \subseteq told' /\ accepted' \subseteq accepted \union {p}
      /\ p \in packageHandles' \/ p \in told'
      /\ packageHandles \ {p} \subseteq packageHandles'
  BY DEF Ship, Tell
<1>3. ASSUME NEW q \in accepted' \ told' PROVE q \in packageHandles' /\ via'[q] \in connections'
  <2>1. CASE q = p  BY <1>2, <1>3, <2>1
  <2>2. CASE q # p  BY <1>1, <1>2, <1>3, <2>2 DEF PackagesCovered
  <2>. QED BY <2>1, <2>2
<1>. QED BY <1>3 DEF PackagesCovered

LEMMA CoveredStep ==
    ASSUME ConnectionsAssumption, TypeInv, Listed, PackagesCovered, Next
    PROVE  PackagesCovered'
<1>. USE DEF TypeInv
<1>1. /\ None \notin Links \union Conns /\ connections \subseteq Conns /\ via \in [Packages -> Conns \union {None}]
      /\ accepted \subseteq Packages
  BY DEF ConnectionsAssumption, TypeOK
<1>2. CASE UNCHANGED <<via, connections, accepted, told, packageHandles>>
  BY <1>2, SameCovered
<1>3. CASE Calls
  <2>1. ASSUME NEW p \in Packages, NEW c \in Conns, SendPackage(p, c) PROVE PackagesCovered'
    <3>1. /\ Ship(p, c) /\ c \in connections /\ UNCHANGED connections
          /\ via' = [via EXCEPT ![p] = c]
      BY <2>1 DEF SendPackage
    <3>2. via'[p] = c /\ \A q \in Packages \ {p} : via'[q] = via[q]  BY <1>1, <3>1
    <3>. QED BY <3>1, <3>2, ShipCovers
  <2>2. ASSUME NEW p \in Packages, NEW c \in Conns, HoldPackage(p, c) PROVE PackagesCovered'
    <3>1. /\ accepted' = accepted \union {p} /\ packageHandles' = packageHandles \union {p}
          /\ UNCHANGED <<told, connections>> /\ c \in connections
          /\ via'[p] = c /\ \A q \in Packages \ {p} : via'[q] = via[q]
      BY <1>1, <2>2 DEF HoldPackage
    <3>. QED BY <1>1, <3>1 DEF PackagesCovered
  <2>3. ASSUME NEW p \in Packages, ShipHeld(p) PROVE PackagesCovered'
    <3>1. CASE via[p] \in connections /\ Ship(p, via[p])
      <4>1. UNCHANGED <<via, connections>>  BY <2>3 DEF ShipHeld
      <4>. QED BY <1>1, <3>1, <4>1, ShipCovers
    <3>2. CASE UNCHANGED <<packageHandles, accepted, told, work>>
      BY <1>2, <2>3, <3>2 DEF ShipHeld
    <3>. QED BY <2>3, <3>1, <3>2 DEF ShipHeld
  <2>4. CASE ActivateChannel \/ DeactivateChannel \/ EnableChannel \/ DisableChannel
             \/ (\E l \in Links : CreateLink(l)) \/ (\E c \in Conns : OpenConnection(c))
    BY <1>2, <2>4 DEF ActivateChannel, DeactivateChannel, EnableChannel, DisableChannel,
                      CreateLink, OpenConnection
  <2>. QED BY <1>3, <2>1, <2>2, <2>3, <2>4 DEF Calls
<1>4. CASE HandlerNext
  <2>1. ASSUME NEW c \in Conns, RunSend(c) \/ Expire(c) PROVE PackagesCovered'
    <3>1. UNCHANGED <<via, connections, accepted>>  BY <2>1 DEF RunSend, Expire
    <3>2. told \subseteq told' /\ packageHandles \ told' \subseteq packageHandles'
      BY <2>1 DEF RunSend, Expire, Tell
    <3>. QED BY <3>1, <3>2, SameCovered
  <2>2. ASSUME NEW c \in Conns, RunOpen(c) PROVE PackagesCovered'  BY <1>2, <2>2 DEF RunOpen
  <2>3. ASSUME NEW l \in Links, RunCreate(l) PROVE PackagesCovered'  BY <1>2, <2>3 DEF RunCreate
  <2>4. ASSUME NEW op, RunChannel(op) PROVE PackagesCovered'  BY <1>2, <2>4 DEF RunChannel
  <2>. QED BY <1>4, <2>1, <2>2, <2>3, <2>4 DEF HandlerNext
<1>5. CASE PluginNext
  <2>1. ASSUME NEW p \in Packages, PackageReported(p) PROVE PackagesCovered'
    <3>1. UNCHANGED <<via, connections, accepted>>  BY <2>1 DEF PackageReported
    <3>2. told \subseteq told' /\ packageHandles \ told' \subseteq packageHandles'
      BY <2>1 DEF PackageReported, Tell
    <3>. QED BY <3>1, <3>2, SameCovered
  <2>2. ASSUME NEW l \in Links, LinkCreated(l) \/ LinkDestroyed(l) PROVE PackagesCovered'
    BY <1>2, <2>2 DEF LinkCreated, LinkDestroyed
  <2>3. ASSUME NEW c \in Conns, UnblockQueue(c) PROVE PackagesCovered'
    BY <1>2, <2>3 DEF UnblockQueue
  <2>4. ASSUME NEW c \in Conns, NEW status, NEW own, ConnectionReported(c, status, own)
        PROVE  PackagesCovered'
    BY <1>2, <2>4 DEF ConnectionReported
  <2>5. ASSUME NEW status, ChannelReported(status) PROVE PackagesCovered'
    BY <1>2, <2>5 DEF ChannelReported
  <2>. QED BY <1>5, <2>1, <2>2, <2>3, <2>4, <2>5 DEF PluginNext
<1>6. ASSUME NEW t \in Threads, ThreadStep(t) PROVE PackagesCovered'
  <2>1. CASE AddConnection(t)
    <3>1. connections \subseteq connections' /\ UNCHANGED <<via, accepted, told, packageHandles>>
      BY <2>1 DEF AddConnection
    <3>. QED BY <3>1 DEF PackagesCovered
  <2>2. CASE RemoveConnection(t)
    <3>. DEFINE c == thread[t].conn
    <3>1. /\ connections' = connections \ {c} /\ UNCHANGED <<via, accepted>>
          /\ told' = told \union CachedHandles(c) /\ packageHandles' = packageHandles \ CachedHandles(c)
      BY <2>2 DEF RemoveConnection, Tell
    <3>. HIDE DEF c
    <3>2. SUFFICES ASSUME NEW p \in accepted' \ told'
                   PROVE  p \in packageHandles' /\ via'[p] \in connections'
      BY DEF PackagesCovered
    <3>3. p \in packageHandles /\ via[p] \in connections /\ p \notin CachedHandles(c)
      BY <3>1, <3>2 DEF PackagesCovered
    <3>. QED BY <3>1, <3>3 DEF CachedHandles
  <2>3. CASE RemoveLink(t)
    <3>. DEFINE lost == {c \in connections : LinkOf[c] = thread[t].link}
    <3>1. thread[t].link \in Links /\ thread[t].at = "conns" /\ thread[t].todo = {}
      BY <2>3 DEF RemoveLink, AllCarry, Carries
    <3>2. lost = {}  BY <1>1, <3>1 DEF Listed, ConnectionsOf
    <3>3. /\ connections' = connections \ lost
          /\ packageHandles' = {p \in packageHandles : via[p] \notin lost}
          /\ UNCHANGED <<via, accepted, told>>
      BY <2>3 DEF RemoveLink
    <3>. HIDE DEF lost
    <3>. QED BY <1>2, <3>2, <3>3
  <2>4. CASE WrapperStep(t) \/ TellConnection(t) \/ TakeLink(t) \/ CloseNext(t)
    BY <1>2, <2>4 DEF WrapperStep, TellConnection, TakeLink, CloseNext
  <2>. QED BY <1>6, <2>1, <2>2, <2>3, <2>4 DEF ThreadStep
<1>7. CASE ShutdownNext
  BY <1>2, <1>7 DEF ShutdownNext, BeginShutdown, PluginShutdown, CleanupChannels, StopHandler
<1>. QED BY <1>3, <1>4, <1>5, <1>6, <1>7 DEF Next

LEMMA CInvInit == ASSUME ConnectionsAssumption, Init PROVE CInv
<1>1. TypeInv  BY TypeInvInit
<1>2. Idle.status = "CLOSED" /\ Idle.link = None  BY DEF Idle
<1>3. Apart /\ Listed  BY <1>2 DEF Init, Apart, IsOpening, Listed
<1>4. \A w : ~IsPosted(w)  BY DEF Init, IsPosted
<1>5. Untried  BY <1>2, <1>4 DEF Init, Untried, IsOpening
<1>6. AskedOnce  BY <1>4 DEF Init, AskedOnce, IsPosted, AtMostOnce
<1>7. PackagesCovered  BY DEF Init, PackagesCovered
<1>. QED BY <1>1, <1>3, <1>5, <1>6, <1>7 DEF CInv

LEMMA CInvStep ==
    ASSUME ConnectionsAssumption, Orderly, CInv, [Next]_vars
    PROVE  CInv'
<1>1. CASE Next
  BY <1>1, TypeInvStep, ApartStep, ListedStep, UntriedStep, AskedOnceStep, CoveredStep DEF CInv
<1>2. CASE UNCHANGED vars
  <2>1. TypeInv'  BY <1>2, TypeInvStep DEF CInv
  <2>2. /\ UNCHANGED <<thread, connections, posted, pluginLinks, pluginConns, nmLinks>>
        /\ UNCHANGED <<accepted, told, packageHandles, via>>
    BY <1>2 DEF vars
  <2>3. Apart' /\ Listed'
    BY <2>2 DEF CInv, Apart, Listed, IsOpening, IsDestroying, ConnectionsOf
  <2>4. Untried' /\ AskedOnce'
    BY <2>2 DEF CInv, Untried, AskedOnce, IsPosted, AtMostOnce, IsOpening
  <2>5. PackagesCovered'  BY <2>2 DEF CInv, PackagesCovered
  <2>. QED BY <2>1, <2>3, <2>4, <2>5 DEF CInv
<1>. QED BY <1>1, <1>2

\* A package that sendEncryptedPackage took is reported, or stays cached under a
\* connection the SDK has, which reports it when it closes: if the plugin opens
\* connections and destroys links in the order Orderly asks for.
THEOREM PackagesCoveredCorrect == Orderly => (Spec => []PackagesCovered)
<1>1. Init => CInv  BY ConnectionsAssumption, CInvInit
<1>2. Orderly /\ CInv /\ [Next]_vars => CInv'  BY ConnectionsAssumption, CInvStep
<1>3. CInv => PackagesCovered  BY DEF CInv
<1>4. SUFFICES ASSUME Orderly PROVE Spec => []PackagesCovered  OBVIOUS
<1>5. CInv /\ [Next]_vars => CInv'  BY <1>2, <1>4
<1>. QED BY <1>1, <1>3, <1>5, PTL DEF Spec

(***************************************************************************)
(* What the network manager is told, and what can be sent on.  A callback  *)
(* that opens a connection is alone with it: the plugin has just brought   *)
(* it up, and whoever closes it does so after it went down, or because its *)
(* link is destroyed.                                                      *)
(***************************************************************************)
Closing(t, c) ==
    thread[t].at \in {"wrapper", "sdk", "tell"} /\ thread[t].status = "CLOSED" /\ thread[t].conn = c
Ends(l) == nmLinks[l] = "DESTROYED" \/ \E t \in Threads : IsDestroying(t, l)
Over == shutdowns \in {"cleaning", "stopping", "done"}

\* The plugin was asked for it and cannot be asked again.
LinkPast(l) == \/ pluginLinks[l] \in {"up", "down"}
               \/ pluginLinks[l] = "none" /\ nmLinks[l] # "none" /\ ~IsPosted(<<"create", l>>)
ConnPast(c) == \/ pluginConns[c] = "down"
               \/ pluginConns[c] = "none" /\ nmConns[c] # "none" /\ ~IsPosted(<<"open", c>>)

OpenedOnce ==
    \A c \in Conns :
        /\ nmConns[c] = "none" => pluginConns[c] = "none" /\ ~IsPosted(<<"open", c>>)
        /\ IsPosted(<<"open", c>>) => pluginConns[c] = "none"
        /\ AtMostOnce(<<"open", c>>)

GoneLast == state = "GONE" \/ handler = "STOPPED" => shutdowns = "done"

OwnLink ==
    \A t \in Threads :
        /\ thread[t].link # None =>
               /\ \A c \in thread[t].todo : LinkOf[c] = thread[t].link
               /\ thread[t].at \in {"sdk", "tell"} => LinkOf[thread[t].conn] = thread[t].link
        /\ thread[t].link = None /\ thread[t].at # "links" => thread[t].rest = {}

OpenUp == \A t \in Threads, c \in Conns : IsOpening(t, c) => pluginConns[c] = "up"
ClosedPast ==
    \A t \in Threads, c \in Conns : Closing(t, c) /\ thread[t].link = None => ConnPast(c)

AInv == CInv /\ OpenedOnce /\ GoneLast /\ OwnLink /\ OpenUp /\ ClosedPast

LEMMA OpenedOnceStep ==
    ASSUME ConnectionsAssumption, TypeInv, OpenedOnce, Next
    PROVE  OpenedOnce'
<1>1. ConnsMove /\ PostedMoves /\ TypeOK  BY RequestsMove DEF TypeInv
<1>2. SUFFICES ASSUME NEW c \in Conns
               PROVE  /\ nmConns'[c] = "none" => pluginConns'[c] = "none" /\ ~IsPosted(<<"open", c>>)'
                      /\ IsPosted(<<"open", c>>)' => pluginConns'[c] = "none"
                      /\ AtMostOnce(<<"open", c>>)'
  BY DEF OpenedOnce
<1>3. /\ nmConns[c] = "none" => pluginConns[c] = "none" /\ ~IsPosted(<<"open", c>>)
      /\ IsPosted(<<"open", c>>) => pluginConns[c] = "none"
      /\ AtMostOnce(<<"open", c>>)
  BY DEF OpenedOnce
<1>4. Posts(<<"open", c>>) => nmConns[c] = "none" /\ nmConns'[c] # "none"  BY DEF Posts
<1>5. /\ AtMostOnce(<<"open", c>>)'
      /\ IsPosted(<<"open", c>>)' => IsPosted(<<"open", c>>) \/ Posts(<<"open", c>>)
      /\ Takes("open", c) => IsPosted(<<"open", c>>) /\ ~IsPosted(<<"open", c>>)'
  BY <1>1, <1>3, <1>4, PostedStep
<1>. QED BY <1>1, <1>3, <1>4, <1>5 DEF ConnsMove

\* What is past stays past, and work that is taken is past.
LEMMA ConnPastStays ==
    ASSUME ConnectionsAssumption, TypeInv, OpenedOnce, Next, NEW c \in Conns,
           ConnPast(c) \/ pluginConns'[c] = "down" \/ (Takes("open", c) /\ UNCHANGED pluginConns)
    PROVE  ConnPast(c)'
<1>1. ConnsMove /\ PostedMoves /\ TypeOK  BY RequestsMove DEF TypeInv
<1>2. /\ nmConns[c] = "none" => ~IsPosted(<<"open", c>>)
      /\ IsPosted(<<"open", c>>) => pluginConns[c] = "none"
      /\ AtMostOnce(<<"open", c>>)
  BY DEF OpenedOnce
<1>3. Posts(<<"open", c>>) => nmConns[c] = "none"  BY DEF Posts
<1>4. /\ IsPosted(<<"open", c>>)' => IsPosted(<<"open", c>>) \/ Posts(<<"open", c>>)
      /\ Takes("open", c) => IsPosted(<<"open", c>>) /\ ~IsPosted(<<"open", c>>)'
  BY <1>1, <1>2, <1>3, PostedStep
<1>. QED BY <1>1, <1>2, <1>3, <1>4 DEF ConnsMove, ConnPast

LEMMA LinkPastStays ==
    ASSUME ConnectionsAssumption, TypeInv, AskedOnce, Next, NEW l \in Links,
           LinkPast(l) \/ pluginLinks'[l] = "down" \/ (Takes("create", l) /\ UNCHANGED pluginLinks)
    PROVE  LinkPast(l)'
<1>1. LinksMove /\ PostedMoves /\ TypeOK  BY RequestsMove DEF TypeInv
<1>2. /\ nmLinks[l] = "none" => ~IsPosted(<<"create", l>>)
      /\ IsPosted(<<"create", l>>) => pluginLinks[l] = "none"
      /\ AtMostOnce(<<"create", l>>)
  BY DEF AskedOnce
<1>3. Posts(<<"create", l>>) => nmLinks[l] = "none"  BY DEF Posts
<1>4. /\ IsPosted(<<"create", l>>)' => IsPosted(<<"create", l>>) \/ Posts(<<"create", l>>)
      /\ Takes("create", l) => IsPosted(<<"create", l>>) /\ ~IsPosted(<<"create", l>>)'
  BY <1>1, <1>2, <1>3, PostedStep
<1>. QED BY <1>1, <1>2, <1>3, <1>4 DEF LinksMove, LinkPast

\* The fields of a callback after a step of it, one by one.
Becomes(t, at, status, conn, link, todo, rest) ==
    /\ thread'[t].at = at /\ thread'[t].status = status /\ thread'[t].conn = conn
    /\ thread'[t].link = link /\ thread'[t].todo = todo /\ thread'[t].rest = rest

Ended(t) == Becomes(t, "idle", "CLOSED", None, None, {}, {})
GoesOn(t, at) ==
    Becomes(t, at, thread[t].status, thread[t].conn, thread[t].link, thread[t].todo, thread[t].rest)

LEMMA Steps ==
    ASSUME TypeInv, NEW t \in Threads, ThreadStep(t)
    PROVE  /\ \A u \in Threads \ {t} : thread'[u] = thread[u]
           /\ WrapperStep(t) => IF thread[t].status = "CLOSED" \/ thread[t].conn \in opening
                                THEN GoesOn(t, "sdk") ELSE Ended(t)
           /\ AddConnection(t) =>
                  IF thread[t].conn \in handleToLink /\ LinkOf[thread[t].conn] \in linkIdToInfo
                  THEN GoesOn(t, "tell") ELSE Ended(t)
           /\ RemoveConnection(t) => GoesOn(t, "tell")
           /\ TellConnection(t) => IF thread[t].link # None THEN GoesOn(t, "conns") ELSE Ended(t)
           /\ TakeLink(t) =>
                  \/ thread[t].rest = {} /\ Ended(t)
                  \/ \E l \in thread[t].rest :
                         Becomes(t, "conns", thread[t].status, thread[t].conn, l, ConnectionsOf(l),
                                 thread[t].rest \ {l})
           /\ CloseNext(t) =>
                  \E c \in thread[t].todo :
                      Becomes(t, "sdk", "CLOSED", c, thread[t].link, thread[t].todo \ {c},
                              thread[t].rest)
           /\ RemoveLink(t) => Becomes(t, "links", "CLOSED", None, None, {}, thread[t].rest)
<1>. DEFINE old == thread[t]
<1>1. TypeOK /\ old \in Callback  BY DEF TypeInv, TypeOK
<1>2. \A u \in Threads \ {t} : thread'[u] = thread[u]
  <2>1. PICK cb : Goes(t, cb)  BY StepMoves
  <2>. QED BY <1>1, <2>1, GoesElsewhere
<1>3. Goes(t, Idle) => Ended(t)
  <2>1. ASSUME Goes(t, Idle) PROVE Ended(t)
    <3>1. thread'[t] = Idle  BY <1>1, <2>1, GoesElsewhere
    <3>. QED BY <3>1 DEF Idle, Ended, Becomes
  <2>. QED BY <2>1
<1>4. ASSUME NEW at, Moves(t, at) PROVE GoesOn(t, at)
  <2>. DEFINE cb == [old EXCEPT !.at = at]
  <2>1. thread'[t] = cb  BY <1>1, <1>4, GoesElsewhere DEF Moves
  <2>2. /\ cb.at = at /\ cb.status = old.status /\ cb.conn = old.conn /\ cb.link = old.link
        /\ cb.todo = old.todo /\ cb.rest = old.rest
    BY <1>1 DEF Callback
  <2>. HIDE DEF cb
  <2>. QED BY <2>1, <2>2 DEF GoesOn, Becomes
<1>5. WrapperStep(t) => IF old.status = "CLOSED" \/ old.conn \in opening
                        THEN GoesOn(t, "sdk") ELSE Ended(t)
  <2>1. ASSUME WrapperStep(t), old.status = "CLOSED" \/ old.conn \in opening PROVE Moves(t, "sdk")
    BY <2>1 DEF WrapperStep
  <2>2. ASSUME WrapperStep(t), ~(old.status = "CLOSED" \/ old.conn \in opening) PROVE Goes(t, Idle)
    <3>1. old.status = "OPEN" /\ old.conn \notin opening  BY <1>1, <2>2 DEF Callback
    <3>. QED BY <2>2, <3>1 DEF WrapperStep
  <2>. QED BY <1>3, <1>4, <2>1, <2>2
<1>6. AddConnection(t) => IF old.conn \in handleToLink /\ LinkOf[old.conn] \in linkIdToInfo
                          THEN GoesOn(t, "tell") ELSE Ended(t)
  BY <1>3, <1>4 DEF AddConnection
<1>7. RemoveConnection(t) => GoesOn(t, "tell")  BY <1>4 DEF RemoveConnection
<1>8. TellConnection(t) => IF old.link # None THEN GoesOn(t, "conns") ELSE Ended(t)
  <2>1. ASSUME TellConnection(t), old.link # None PROVE Moves(t, "conns")
    BY <2>1 DEF TellConnection
  <2>2. ASSUME TellConnection(t), old.link = None PROVE Goes(t, Idle)
    BY <2>2 DEF TellConnection
  <2>. QED BY <1>3, <1>4, <2>1, <2>2
<1>9. TakeLink(t) =>
          \/ old.rest = {} /\ Ended(t)
          \/ \E l \in old.rest :
                 Becomes(t, "conns", old.status, old.conn, l, ConnectionsOf(l), old.rest \ {l})
  <2>1. ASSUME NEW l \in old.rest,
               Goes(t, [old EXCEPT !.at = "conns", !.rest = @ \ {l}, !.link = l,
                            !.todo = ConnectionsOf(l)])
        PROVE  Becomes(t, "conns", old.status, old.conn, l, ConnectionsOf(l), old.rest \ {l})
    <3>. DEFINE cb == [old EXCEPT !.at = "conns", !.rest = @ \ {l}, !.link = l,
                                  !.todo = ConnectionsOf(l)]
    <3>1. thread'[t] = cb  BY <1>1, <2>1, GoesElsewhere
    <3>2. /\ cb.at = "conns" /\ cb.status = old.status /\ cb.conn = old.conn /\ cb.link = l
          /\ cb.todo = ConnectionsOf(l) /\ cb.rest = old.rest \ {l}
      BY <1>1 DEF Callback
    <3>. HIDE DEF cb
    <3>. QED BY <3>1, <3>2 DEF Becomes
  <2>. QED BY <1>3, <2>1 DEF TakeLink
<1>10. CloseNext(t) =>
           \E c \in old.todo : Becomes(t, "sdk", "CLOSED", c, old.link, old.todo \ {c}, old.rest)
  <2>1. ASSUME NEW c \in old.todo,
               Goes(t, [old EXCEPT !.at = "sdk", !.status = "CLOSED", !.conn = c, !.todo = @ \ {c}])
        PROVE  Becomes(t, "sdk", "CLOSED", c, old.link, old.todo \ {c}, old.rest)
    <3>. DEFINE cb == [old EXCEPT !.at = "sdk", !.status = "CLOSED", !.conn = c, !.todo = @ \ {c}]
    <3>1. thread'[t] = cb  BY <1>1, <2>1, GoesElsewhere
    <3>2. /\ cb.at = "sdk" /\ cb.status = "CLOSED" /\ cb.conn = c /\ cb.link = old.link
          /\ cb.todo = old.todo \ {c} /\ cb.rest = old.rest
      BY <1>1 DEF Callback
    <3>. HIDE DEF cb
    <3>. QED BY <3>1, <3>2 DEF Becomes
  <2>. QED BY <2>1 DEF CloseNext
<1>11. RemoveLink(t) => Becomes(t, "links", "CLOSED", None, None, {}, old.rest)
  <2>. DEFINE cb == [Idle EXCEPT !.at = "links", !.rest = old.rest]
  <2>1. RemoveLink(t) => thread'[t] = cb
    <3>1. RemoveLink(t) => Goes(t, cb)  BY DEF RemoveLink
    <3>. QED BY <1>1, <3>1, GoesElsewhere
  <2>2. /\ cb.at = "links" /\ cb.status = "CLOSED" /\ cb.conn = None /\ cb.link = None
        /\ cb.todo = {} /\ cb.rest = old.rest
    BY DEF Idle
  <2>. HIDE DEF cb
  <2>. QED BY <2>1, <2>2 DEF Becomes
<1>. QED BY <1>2, <1>5, <1>6, <1>7, <1>8, <1>9, <1>10, <1>11

\* What begins a callback leaves the others alone, and the connections.
LEMMA Begun ==
    ASSUME TypeInv, Starts
    PROVE  \E t \in Threads :
               /\ \A u \in Threads \ {t} : thread'[u] = thread[u]
               /\ thread[t].at = "idle" /\ thread[t].link = None
               /\ \/ \E c \in Conns : \E status, own :
                         /\ StartsReport(t, c, status, own)
                         /\ thread'[t].at = "wrapper" /\ thread'[t].status = status
                         /\ thread'[t].conn = c /\ thread'[t].link = None /\ thread'[t].rest = {}
                  \/ \E ls :
                         /\ StartsDestroying(t, ls)
                         /\ thread'[t].at = "links" /\ thread'[t].status = "CLOSED"
                         /\ thread'[t].conn = None /\ thread'[t].link = None /\ thread'[t].rest = ls
<1>1. TypeOK  BY DEF TypeInv
<1>2. Idle.at = "idle" /\ Idle.link = None  BY DEF Idle
<1>3. ASSUME NEW t, NEW c, NEW status, NEW own, StartsReport(t, c, status, own)
      PROVE  /\ t \in Threads /\ c \in Conns /\ \A u \in Threads \ {t} : thread'[u] = thread[u]
             /\ thread[t].at = "idle" /\ thread[t].link = None
             /\ thread'[t].at = "wrapper" /\ thread'[t].status = status
             /\ thread'[t].conn = c /\ thread'[t].link = None /\ thread'[t].rest = {}
  <2>. DEFINE cb == Reporting(c, status, own)
  <2>1. t \in Threads /\ c \in Conns /\ Goes(t, cb) /\ thread[t] = Idle
    BY <1>3 DEF StartsReport, Free
  <2>2. cb.status = status /\ cb.conn = c /\ cb.at = "wrapper" /\ cb.link = None /\ cb.rest = {}
    BY ReportFields
  <2>. HIDE DEF cb
  <2>3. thread'[t] = cb /\ \A v \in Threads \ {t} : thread'[v] = thread[v]
    BY <1>1, <2>1, GoesElsewhere
  <2>. QED BY <1>2, <2>1, <2>2, <2>3
<1>4. ASSUME NEW t, NEW ls, StartsDestroying(t, ls)
      PROVE  /\ t \in Threads /\ \A u \in Threads \ {t} : thread'[u] = thread[u]
             /\ thread[t].at = "idle" /\ thread[t].link = None
             /\ thread'[t].at = "links" /\ thread'[t].status = "CLOSED"
             /\ thread'[t].conn = None /\ thread'[t].link = None /\ thread'[t].rest = ls
  <2>. DEFINE cb == Destroying(ls)
  <2>1. t \in Threads /\ Goes(t, cb) /\ thread[t] = Idle
    BY <1>4 DEF StartsDestroying, Free
  <2>2. cb.status = "CLOSED" /\ cb.conn = None /\ cb.at = "links" /\ cb.link = None /\ cb.rest = ls
    BY DestroyFields
  <2>. HIDE DEF cb
  <2>3. thread'[t] = cb /\ \A v \in Threads \ {t} : thread'[v] = thread[v]
    BY <1>1, <2>1, GoesElsewhere
  <2>. QED BY <1>2, <2>1, <2>2, <2>3
<1>. QED BY <1>3, <1>4 DEF Starts

\* The shutdown goes one way, and only its end makes the wrapper go.
LEMMA ShutdownMoves ==
    ASSUME TypeOK, GoneLast, Next
    PROVE  GoneLast' /\ (Over => Over') /\ (state = "GONE" => state' = "GONE")
<1>1. CASE UNCHANGED <<state, handler, shutdowns>>  BY <1>1 DEF GoneLast, Over
<1>2. Answers => (shutdowns \in {"cleaning", "stopping", "done"} => UNCHANGED shutdowns)
  BY DEF Answers
<1>3. CASE Calls
  BY <1>1, <1>3 DEF Calls, ActivateChannel, DeactivateChannel, EnableChannel, DisableChannel, CreateLink,
     OpenConnection, SendPackage, HoldPackage, ShipHeld, Post
<1>4. ASSUME UNCHANGED <<state, handler>>, Answers \/ UNCHANGED shutdowns
      PROVE  GoneLast' /\ (Over => Over') /\ (state = "GONE" => state' = "GONE")
  BY <1>2, <1>4 DEF GoneLast, Over
<1>5. CASE HandlerNext
  <2>1. UNCHANGED <<state, handler>> /\ (Answers \/ UNCHANGED shutdowns)
    BY <1>5 DEF HandlerNext, RunOpen, RunSend, Expire, RunCreate, RunChannel, Takes
  <2>. QED BY <1>4, <2>1
<1>6. CASE PluginNext
  BY <1>1, <1>6 DEF PluginNext, LinkCreated, LinkDestroyed, UnblockQueue, ConnectionReported,
     ChannelReported, PackageReported
<1>7. ASSUME NEW t \in Threads, ThreadStep(t) PROVE UNCHANGED <<state, handler, shutdowns>>
  BY <1>7 DEF ThreadStep, WrapperStep, AddConnection, RemoveConnection, TellConnection, TakeLink,
     CloseNext, RemoveLink
<1>8. CASE ShutdownNext
  BY <1>8 DEF ShutdownNext, BeginShutdown, PluginShutdown, CleanupChannels, StopHandler, GoneLast,
     Over
<1>. QED BY <1>1, <1>3, <1>5, <1>6, <1>7, <1>8 DEF Next

LEMMA OwnLinkStep ==
    ASSUME ConnectionsAssumption, TypeInv, OwnLink, Next
    PROVE  OwnLink'
<1>1. TypeOK /\ None \notin Links  BY DEF TypeInv, ConnectionsAssumption
<1>2. CASE UNCHANGED thread  BY <1>2 DEF OwnLink
<1>3. CASE Starts
  <2>1. PICK t \in Threads :
            /\ \A u \in Threads \ {t} : thread'[u] = thread[u]
            /\ thread'[t].link = None /\ (thread'[t].rest = {} \/ thread'[t].at = "links")
    BY <1>3, Begun
  <2>. QED BY <2>1 DEF OwnLink
<1>4. ASSUME NEW t \in Threads, ThreadStep(t) PROVE OwnLink'
  <2>. DEFINE old == thread[t]
  <2>1. \A u \in Threads \ {t} : thread'[u] = thread[u]  BY <1>4, Steps
  <2>2. Carries(old)  BY DEF TypeInv, AllCarry
  <2>3. SUFFICES
            /\ thread'[t].link # None =>
                   /\ \A c \in thread'[t].todo : LinkOf[c] = thread'[t].link
                   /\ thread'[t].at \in {"sdk", "tell"} => LinkOf[thread'[t].conn] = thread'[t].link
            /\ thread'[t].link = None /\ thread'[t].at # "links" => thread'[t].rest = {}
    BY <2>1 DEF OwnLink
  <2>4. /\ old.link # None =>
               /\ \A c \in old.todo : LinkOf[c] = old.link
               /\ old.at \in {"sdk", "tell"} => LinkOf[old.conn] = old.link
        /\ old.link = None /\ old.at # "links" => old.rest = {}
    BY DEF OwnLink
  <2>5. CASE WrapperStep(t)
    <3>1. old.at = "wrapper" /\ old.link = None  BY <2>2, <2>5 DEF WrapperStep, Carries
    <3>2. Ended(t) \/ GoesOn(t, "sdk")  BY <1>4, <2>5, Steps
    <3>. QED BY <2>4, <3>1, <3>2 DEF Ended, GoesOn, Becomes
  <2>6. CASE AddConnection(t) \/ RemoveConnection(t)
    <3>1. old.at = "sdk"  BY <2>6 DEF AddConnection, RemoveConnection
    <3>2. Ended(t) \/ GoesOn(t, "tell")  BY <1>4, <2>6, Steps
    <3>. QED BY <2>4, <3>1, <3>2 DEF Ended, GoesOn, Becomes
  <2>7. CASE TellConnection(t)
    <3>1. Ended(t) \/ (old.link # None /\ GoesOn(t, "conns"))  BY <1>4, <2>7, Steps
    <3>. QED BY <2>4, <3>1 DEF Ended, GoesOn, Becomes
  <2>8. CASE TakeLink(t)
    <3>1. Ended(t) \/ \E l \in old.rest : thread'[t].at = "conns" /\ thread'[t].link = l
                                            /\ thread'[t].todo = ConnectionsOf(l)
      BY <1>4, <2>8, Steps DEF Becomes
    <3>2. old.rest \subseteq Links  BY <1>1 DEF TypeOK, Callback
    <3>. QED BY <1>1, <3>1, <3>2 DEF Ended, Becomes, ConnectionsOf
  <2>9. CASE CloseNext(t)
    <3>1. old.link # None  BY <1>1, <2>2, <2>9 DEF CloseNext, Carries
    <3>2. PICK c \in old.todo :
              Becomes(t, "sdk", "CLOSED", c, old.link, old.todo \ {c}, old.rest)
      BY <1>4, <2>9, Steps
    <3>. QED BY <2>4, <3>1, <3>2 DEF Becomes
  <2>10. CASE RemoveLink(t)
    <3>1. thread'[t].at = "links" /\ thread'[t].link = None  BY <1>4, <2>10, Steps DEF Becomes
    <3>. QED BY <3>1
  <2>. QED BY <1>4, <2>5, <2>6, <2>7, <2>8, <2>9, <2>10 DEF ThreadStep
<1>. QED BY <1>1, <1>2, <1>3, <1>4, ThreadMoves

\* While a connection opens, its plugin keeps it up.
LEMMA UpStays ==
    ASSUME ConnectionsAssumption, Orderly, TypeInv, OpenedOnce, Next,
           NEW c \in Conns, NEW t \in Threads, IsOpening(t, c), pluginConns[c] = "up"
    PROVE  pluginConns'[c] = "up"
<1>1. TypeOK  BY DEF TypeInv
<1>2. ASSUME NEW d \in Conns, RunOpen(d) PROVE pluginConns'[c] = "up"
  <2>1. IsPosted(<<"open", d>>)  BY <1>1, <1>2, HeadPosted DEF RunOpen
  <2>2. d # c  BY <2>1 DEF OpenedOnce
  <2>. QED BY <1>1, <1>2, <2>2 DEF RunOpen, TypeOK
<1>3. ASSUME NEW l \in Links, LinkDestroyed(l) PROVE pluginConns'[c] = "up"
  <2>1. LinkOf[c] # l  BY <1>3 DEF LinkDestroyed, MayDestroy
  <2>. QED BY <1>3, <2>1 DEF LinkDestroyed
<1>4. ASSUME NEW d \in Conns, NEW status \in {"OPEN", "CLOSED"}, NEW own \in BOOLEAN,
             ConnectionReported(d, status, own)
      PROVE  pluginConns'[c] = "up"
  <2>1. d # c
    <3>1. CASE status = "OPEN"  BY <1>4, <3>1 DEF ConnectionReported
    <3>2. CASE status = "CLOSED" /\ own  BY <1>4, <3>2 DEF ConnectionReported
    <3>3. CASE status = "CLOSED" /\ ~own
      <4>1. MayClose(d)  BY <1>4, <3>3 DEF ConnectionReported
      <4>. QED BY <4>1 DEF MayClose
    <3>. QED BY <3>1, <3>2, <3>3
  <2>. QED BY <1>1, <1>4, <2>1 DEF ConnectionReported, TypeOK
<1>5. CASE Calls
  BY <1>5 DEF Calls, ActivateChannel, DeactivateChannel, EnableChannel, DisableChannel, CreateLink,
     OpenConnection, SendPackage, HoldPackage, ShipHeld
<1>6. CASE HandlerNext
  <2>1. CASE \E d \in Conns : RunSend(d) \/ Expire(d)  BY <2>1 DEF RunSend, Expire
  <2>2. CASE \E l \in Links : RunCreate(l)  BY <2>2 DEF RunCreate
  <2>3. CASE RunChannel("activate") \/ RunChannel("deactivate")  BY <2>3 DEF RunChannel
  <2>. QED BY <1>2, <1>6, <2>1, <2>2, <2>3 DEF HandlerNext
<1>7. CASE PluginNext
  <2>1. CASE \E l \in Links : LinkCreated(l)  BY <2>1 DEF LinkCreated
  <2>2. CASE \E d \in Conns : UnblockQueue(d)  BY <2>2 DEF UnblockQueue
  <2>3. CASE \E status \in {"AVAILABLE", "UNAVAILABLE", "FAILED"} : ChannelReported(status)
    BY <2>3 DEF ChannelReported
  <2>4. CASE \E p \in Packages : PackageReported(p)  BY <2>4 DEF PackageReported
  <2>. QED BY <1>3, <1>4, <1>7, <2>1, <2>2, <2>3, <2>4 DEF PluginNext
<1>8. ASSUME NEW u \in Threads, ThreadStep(u) PROVE pluginConns'[c] = "up"
  BY <1>8 DEF ThreadStep, WrapperStep, AddConnection, RemoveConnection, TellConnection, TakeLink,
     CloseNext, RemoveLink
<1>9. CASE ShutdownNext
  <2>1. ~PluginShutdown  BY DEF PluginShutdown
  <2>. QED BY <1>9, <2>1 DEF ShutdownNext, BeginShutdown, CleanupChannels, StopHandler
<1>. QED BY <1>5, <1>6, <1>7, <1>8, <1>9 DEF Next

LEMMA OpenUpStep ==
    ASSUME ConnectionsAssumption, Orderly, TypeInv, OpenedOnce, OpenUp, Next
    PROVE  OpenUp'
<1>1. SUFFICES ASSUME NEW t \in Threads, NEW c \in Conns, IsOpening(t, c)'
               PROVE  pluginConns'[c] = "up"
  BY DEF OpenUp
<1>. QED BY <1>1, OpeningsMove, UpStays DEF OpenUp

\* A callback that closes a connection began with the plugin's answer, or
\* destroys a link that has it.
LEMMA ClosingsMove ==
    ASSUME ConnectionsAssumption, TypeInv, Next, NEW t \in Threads, NEW c \in Conns,
           Closing(t, c)', thread'[t].link = None
    PROVE  \/ Closing(t, c) /\ thread[t].link = None
           \/ pluginConns'[c] = "down" \/ (Takes("open", c) /\ UNCHANGED pluginConns)
<1>1. TypeOK /\ None \notin Links  BY DEF TypeInv, ConnectionsAssumption
<1>2. CASE UNCHANGED thread  BY <1>2 DEF Closing
<1>3. CASE Starts
  <2>1. PICK u \in Threads :
            /\ \A v \in Threads \ {u} : thread'[v] = thread[v]
            /\ \/ \E d \in Conns : \E status, own :
                      /\ StartsReport(u, d, status, own)
                      /\ thread'[u].status = status /\ thread'[u].conn = d
               \/ thread'[u].at = "links"
    BY <1>3, Begun
  <2>. QED BY <2>1 DEF Closing, StartsReport
<1>4. ASSUME NEW u \in Threads, ThreadStep(u) PROVE Closing(t, c) /\ thread[t].link = None
  <2>1. \A v \in Threads \ {u} : thread'[v] = thread[v]  BY <1>4, Steps
  <2>2. Carries(thread[u])  BY DEF TypeInv, AllCarry
  <2>3. CASE t # u  BY <2>1, <2>3 DEF Closing
  <2>4. CASE t = u
    <3>1. CASE WrapperStep(u) \/ AddConnection(u) \/ RemoveConnection(u)
      <4>1. thread[u].at \in {"wrapper", "sdk"}
        BY <3>1 DEF WrapperStep, AddConnection, RemoveConnection
      <4>2. Ended(u) \/ GoesOn(u, "sdk") \/ GoesOn(u, "tell")  BY <1>4, <3>1, Steps
      <4>. QED BY <2>4, <4>1, <4>2 DEF Closing, Ended, GoesOn, Becomes
    <3>2. CASE TellConnection(u) \/ TakeLink(u) \/ RemoveLink(u)
      <4>1. thread'[u].at \in {"idle", "conns", "links"}
        BY <1>4, <3>2, Steps DEF Ended, GoesOn, Becomes
      <4>. QED BY <2>4, <4>1 DEF Closing
    <3>3. CASE CloseNext(u)
      <4>1. thread[u].link # None  BY <1>1, <2>2, <3>3 DEF CloseNext, Carries
      <4>2. thread'[u].link = thread[u].link  BY <1>4, <3>3, Steps DEF Becomes
      <4>. QED BY <2>4, <4>1, <4>2
    <3>. QED BY <1>4, <3>1, <3>2, <3>3 DEF ThreadStep
  <2>. QED BY <2>3, <2>4
<1>. QED BY <1>1, <1>2, <1>3, <1>4, ThreadMoves

LEMMA ClosedPastStep ==
    ASSUME ConnectionsAssumption, TypeInv, OpenedOnce, ClosedPast, Next
    PROVE  ClosedPast'
<1>1. SUFFICES ASSUME NEW t \in Threads, NEW c \in Conns, Closing(t, c)', thread'[t].link = None
               PROVE  ConnPast(c)'
  BY DEF ClosedPast
<1>2. \/ ConnPast(c)
      \/ pluginConns'[c] = "down" \/ (Takes("open", c) /\ UNCHANGED pluginConns)
  BY <1>1, ClosingsMove DEF ClosedPast
<1>. QED BY <1>2, ConnPastStays

LEMMA AInvInit == ASSUME ConnectionsAssumption, Init PROVE AInv
<1>1. CInv  BY CInvInit
<1>2. /\ Idle.status = "CLOSED" /\ Idle.link = None /\ Idle.at = "idle" /\ Idle.rest = {}
  BY DEF Idle
<1>3. \A t \in Threads : thread[t] = Idle  BY DEF Init
<1>4. \A w : ~IsPosted(w) /\ AtMostOnce(w)  BY DEF Init, IsPosted, AtMostOnce
<1>5. OpenedOnce  BY <1>4 DEF Init, OpenedOnce
<1>6. GoneLast  BY DEF Init, GoneLast
<1>7. OwnLink /\ OpenUp /\ ClosedPast
  BY <1>2, <1>3 DEF OwnLink, OpenUp, IsOpening, ClosedPast, Closing
<1>. QED BY <1>1, <1>5, <1>6, <1>7 DEF AInv

LEMMA AInvStep ==
    ASSUME ConnectionsAssumption, Orderly, AInv, [Next]_vars
    PROVE  AInv'
<1>1. CInv /\ TypeInv /\ TypeOK /\ CInv'  BY CInvStep DEF AInv, CInv, TypeInv
<1>2. CASE Next
  BY <1>1, <1>2, OpenedOnceStep, ShutdownMoves, OwnLinkStep, OpenUpStep, ClosedPastStep DEF AInv
<1>3. CASE UNCHANGED vars
  <2>1. UNCHANGED <<thread, posted, pluginConns, nmConns, state, handler, shutdowns>>
    BY <1>3 DEF vars
  <2>2. OpenedOnce' /\ GoneLast' /\ OwnLink'
    BY <2>1 DEF AInv, OpenedOnce, GoneLast, OwnLink, IsPosted, AtMostOnce
  <2>3. OpenUp' /\ ClosedPast'
    BY <2>1 DEF AInv, OpenUp, IsOpening, ClosedPast, Closing, ConnPast, IsPosted
  <2>. QED BY <1>1, <2>2, <2>3 DEF AInv
<1>. QED BY <1>2, <1>3

\* So whoever opens a connection is alone with it.
LEMMA Alone ==
    ASSUME ConnectionsAssumption, AInv, NEW t \in Threads, NEW u \in Threads, NEW c \in Conns,
           IsOpening(t, c), Closing(u, c)
    PROVE  FALSE
<1>1. CASE thread[u].link = None
  BY <1>1 DEF AInv, OpenUp, ClosedPast, ConnPast
<1>2. CASE thread[u].link # None
  <2>1. LinkOf[c] = thread[u].link
    <3>1. thread[u].at # "wrapper"  BY <1>2 DEF AInv, CInv, TypeInv, AllCarry, Carries
    <3>. QED BY <1>2, <3>1 DEF AInv, OwnLink, Closing
  <2>2. IsDestroying(u, LinkOf[c])  BY <2>1 DEF IsDestroying
  <2>. QED BY <2>2 DEF AInv, CInv, Apart
<1>. QED BY <1>1, <1>2

\* A callback that is about to tell has just made true what it tells...
ToldLast ==
    \A t \in Threads, c \in Conns :
        thread[t].at = "tell" /\ thread[t].conn = c => (c \in connections <=> thread[t].status = "OPEN")

\* ...and one about to add a connection has prepared its queue and its timeout.
Prepared ==
    \A t \in Threads, c \in Conns :
        IsOpening(t, c) /\ thread[t].at = "sdk" => state = "GONE" \/ c \in queues \intersect timeouts

ViewOfOpen ==
    \A c \in Conns :
        /\ nmConns[c] = "OPEN" => c \in connections \/ \E t \in Threads : AboutToTell(t, c, "CLOSED")
        /\ c \in connections => nmConns[c] = "OPEN" \/ \E t \in Threads : AboutToTell(t, c, "OPEN")

\* A link that goes takes no connection with it: they were closed before.
LEMMA LinkGoesEmpty ==
    ASSUME ConnectionsAssumption, CInv, NEW t \in Threads, RemoveLink(t)
    PROVE  UNCHANGED connections
<1>. DEFINE lost == {c \in connections : LinkOf[c] = thread[t].link}
<1>1. thread[t].link \in Links /\ thread[t].at = "conns" /\ thread[t].todo = {} /\ None \notin Links
  BY DEF RemoveLink, CInv, TypeInv, AllCarry, Carries, ConnectionsAssumption
<1>2. lost = {}  BY <1>1 DEF CInv, Listed, ConnectionsOf
<1>3. connections' = connections \ lost  BY DEF RemoveLink
<1>. HIDE DEF lost
<1>. QED BY <1>2, <1>3

\* What a step of a callback does to one connection.
LEMMA KnownMoves ==
    ASSUME ConnectionsAssumption, CInv, NEW t \in Threads, ThreadStep(t), NEW c \in Conns
    PROVE  /\ c \in connections' => \/ c \in connections
                                    \/ AddConnection(t) /\ thread[t].conn = c /\ GoesOn(t, "tell")
           /\ c \in connections => \/ c \in connections'
                                   \/ RemoveConnection(t) /\ thread[t].conn = c /\ GoesOn(t, "tell")
<1>1. CASE AddConnection(t)
  <2>1. CASE thread[t].conn \in handleToLink /\ LinkOf[thread[t].conn] \in linkIdToInfo
    <3>1. connections' = connections \union {thread[t].conn} /\ GoesOn(t, "tell")
      BY <1>1, <2>1, Steps DEF AddConnection, CInv
    <3>. QED BY <1>1, <3>1
  <2>2. CASE ~(thread[t].conn \in handleToLink /\ LinkOf[thread[t].conn] \in linkIdToInfo)
    BY <1>1, <2>2 DEF AddConnection
  <2>. QED BY <2>1, <2>2
<1>2. CASE RemoveConnection(t)
  <2>1. connections' = connections \ {thread[t].conn} /\ GoesOn(t, "tell")
    BY <1>2, Steps DEF RemoveConnection, CInv
  <2>. QED BY <1>2, <2>1
<1>3. CASE RemoveLink(t)  BY <1>3, LinkGoesEmpty
<1>4. CASE WrapperStep(t) \/ TellConnection(t) \/ TakeLink(t) \/ CloseNext(t)
  BY <1>4 DEF WrapperStep, TellConnection, TakeLink, CloseNext
<1>. QED BY <1>1, <1>2, <1>3, <1>4 DEF ThreadStep

\* The callbacks that are about to tell, after a step of one.
LEMMA TellsMove ==
    ASSUME TypeInv, NEW t \in Threads, ThreadStep(t)
    PROVE  /\ thread'[t].at = "tell" =>
                  /\ GoesOn(t, "tell")
                  /\ \/ AddConnection(t) /\ thread[t].conn \in connections'
                     \/ RemoveConnection(t) /\ thread[t].conn \notin connections'
           /\ thread[t].at = "tell" => TellConnection(t)
<1>1. CASE AddConnection(t)
  <2>1. CASE thread[t].conn \in handleToLink /\ LinkOf[thread[t].conn] \in linkIdToInfo
    <3>1. connections' = connections \union {thread[t].conn} /\ GoesOn(t, "tell") /\ thread[t].at = "sdk"
      BY <1>1, <2>1, Steps DEF AddConnection
    <3>. QED BY <1>1, <3>1
  <2>2. CASE ~(thread[t].conn \in handleToLink /\ LinkOf[thread[t].conn] \in linkIdToInfo)
    <3>1. thread'[t].at = "idle" /\ thread[t].at = "sdk"
      BY <1>1, <2>2, Steps DEF AddConnection, Ended, Becomes
    <3>. QED BY <3>1
  <2>. QED BY <2>1, <2>2
<1>2. CASE RemoveConnection(t)
  <2>1. connections' = connections \ {thread[t].conn} /\ GoesOn(t, "tell") /\ thread[t].at = "sdk"
    BY <1>2, Steps DEF RemoveConnection
  <2>. QED BY <1>2, <2>1
<1>3. CASE WrapperStep(t)
  <2>1. thread'[t].at \in {"idle", "sdk"} /\ thread[t].at = "wrapper"
    BY <1>3, Steps DEF WrapperStep, Ended, GoesOn, Becomes
  <2>. QED BY <2>1
<1>4. CASE TellConnection(t)
  <2>1. thread'[t].at \in {"idle", "conns"}
    BY <1>4, Steps DEF Ended, GoesOn, Becomes
  <2>. QED BY <1>4, <2>1
<1>5. CASE TakeLink(t) \/ CloseNext(t) \/ RemoveLink(t)
  <2>1. thread'[t].at \in {"idle", "conns", "sdk", "links"}
    BY <1>5, Steps DEF Ended, Becomes
  <2>2. thread[t].at \in {"links", "conns"}  BY <1>5 DEF TakeLink, CloseNext, RemoveLink
  <2>. QED BY <2>1, <2>2
<1>. QED BY <1>1, <1>2, <1>3, <1>4, <1>5 DEF ThreadStep

LEMMA ToldLastStep ==
    ASSUME ConnectionsAssumption, AInv, ToldLast, Next
    PROVE  ToldLast'
<1>1. CInv /\ TypeInv /\ TypeOK  BY DEF AInv, CInv, TypeInv
<1>2. CASE UNCHANGED <<thread, connections>>  BY <1>2 DEF ToldLast
<1>3. CASE Starts /\ UNCHANGED connections
  <2>1. PICK u \in Threads : /\ \A v \in Threads \ {u} : thread'[v] = thread[v]
                             /\ thread'[u].at # "tell"
    BY <1>1, <1>3, Begun
  <2>. QED BY <1>3, <2>1 DEF ToldLast
<1>4. ASSUME NEW u \in Threads, ThreadStep(u) PROVE ToldLast'
  <2>1. SUFFICES ASSUME NEW t \in Threads, NEW c \in Conns,
                        thread'[t].at = "tell", thread'[t].conn = c
                 PROVE  c \in connections' <=> thread'[t].status = "OPEN"
    BY DEF ToldLast
  <2>2. CASE t = u
    <3>1. thread'[u].conn = thread[u].conn /\ thread'[u].status = thread[u].status
      BY <1>1, <1>4, <2>1, <2>2, TellsMove DEF GoesOn, Becomes
    <3>2. \/ AddConnection(u) /\ c \in connections'
          \/ RemoveConnection(u) /\ c \notin connections'
      BY <1>1, <1>4, <2>1, <2>2, <3>1, TellsMove
    <3>. QED BY <2>2, <3>1, <3>2 DEF AddConnection, RemoveConnection
  <2>3. CASE t # u
    <3>1. thread'[t] = thread[t]  BY <1>1, <1>4, <2>3, Steps
    <3>2. /\ thread[t].at = "tell" /\ thread[t].conn = c
          /\ c \in connections <=> thread[t].status = "OPEN"
          /\ thread[t].status \in {"OPEN", "CLOSED"}
      BY <1>1, <2>1, <3>1 DEF ToldLast, TypeOK, Callback
    <3>3. thread[t].status = "OPEN" => IsOpening(t, c)  BY <3>2 DEF IsOpening
    <3>4. thread[t].status = "CLOSED" => Closing(t, c)  BY <3>2 DEF Closing
    <3>5. AddConnection(u) /\ thread[u].conn = c => IsOpening(u, c)
      BY DEF AddConnection, IsOpening
    <3>6. RemoveConnection(u) /\ thread[u].conn = c => Closing(u, c)
      BY DEF RemoveConnection, Closing
    <3>7. c \in connections' <=> c \in connections
      BY <1>1, <1>4, <3>2, <3>3, <3>4, <3>5, <3>6, KnownMoves, Alone
    <3>. QED BY <3>1, <3>2, <3>7
  <2>. QED BY <2>2, <2>3
<1>. QED BY <1>1, <1>2, <1>3, <1>4, ThreadMoves

\* Only the callback that closes a connection takes its queue or its timeout.
LEMMA QueuesMove ==
    ASSUME TypeOK, GoneLast, Next, NEW c \in Conns, state = "GONE" \/ c \in queues \intersect timeouts
    PROVE  \/ state' = "GONE" \/ c \in queues' \intersect timeouts'
           \/ \E t \in Threads : WrapperStep(t) /\ thread[t].status = "CLOSED" /\ thread[t].conn = c
<1>1. CASE state = "GONE"  BY <1>1, ShutdownMoves
<1>2. CASE UNCHANGED <<queues, timeouts>> /\ state # "GONE"  BY <1>2
<1>3. CASE Calls /\ state # "GONE"
  <2>1. UNCHANGED <<queues, timeouts>>
    BY <1>3 DEF Calls, ActivateChannel, DeactivateChannel, EnableChannel, DisableChannel,
       CreateLink, OpenConnection, SendPackage, HoldPackage, ShipHeld
  <2>. QED BY <1>2, <1>3, <2>1
<1>4. CASE HandlerNext /\ state # "GONE"
  <2>1. UNCHANGED <<queues, timeouts>>
    BY <1>4 DEF HandlerNext, RunOpen, RunSend, Expire, RunCreate, RunChannel
  <2>. QED BY <1>2, <1>4, <2>1
<1>5. CASE PluginNext /\ state # "GONE"
  <2>1. UNCHANGED <<queues, timeouts>>
    BY <1>5 DEF PluginNext, LinkCreated, LinkDestroyed, UnblockQueue, ConnectionReported,
       ChannelReported, PackageReported
  <2>. QED BY <1>2, <1>5, <2>1
<1>6. ASSUME NEW t \in Threads, ThreadStep(t), state # "GONE"
      PROVE  \/ c \in queues' \intersect timeouts'
             \/ WrapperStep(t) /\ thread[t].status = "CLOSED" /\ thread[t].conn = c
  <2>1. CASE WrapperStep(t)
    <3>1. thread[t].status \in {"OPEN", "CLOSED"}  BY DEF TypeOK, Callback
    <3>2. CASE thread[t].status = "OPEN"
      <4>1. queues \subseteq queues' /\ timeouts \subseteq timeouts'
        BY <2>1, <3>2 DEF WrapperStep, TimeoutsAfter
      <4>. QED BY <1>6, <4>1
    <3>3. CASE thread[t].status = "CLOSED" /\ thread[t].conn # c
      <4>1. /\ queues' = queues \/ queues' = queues \ {thread[t].conn}
            /\ timeouts' = timeouts \ {thread[t].conn}
        BY <2>1, <3>3 DEF WrapperStep, TimeoutsAfter
      <4>. QED BY <1>6, <3>3, <4>1
    <3>. QED BY <2>1, <3>1, <3>2, <3>3
  <2>2. CASE ~WrapperStep(t)
    <3>1. UNCHANGED <<queues, timeouts>>
      BY <1>6, <2>2 DEF ThreadStep, AddConnection, RemoveConnection, TellConnection, TakeLink,
         CloseNext, RemoveLink
    <3>. QED BY <1>6, <3>1
  <2>. QED BY <2>1, <2>2
<1>7. CASE ShutdownNext /\ state # "GONE"
  <2>1. state' = "GONE" \/ UNCHANGED <<queues, timeouts>>
    BY <1>7 DEF ShutdownNext, BeginShutdown, PluginShutdown, CleanupChannels, StopHandler
  <2>. QED BY <1>7, <2>1
<1>. QED BY <1>1, <1>3, <1>4, <1>5, <1>6, <1>7 DEF Next

LEMMA PreparedStep ==
    ASSUME ConnectionsAssumption, AInv, Prepared, Next
    PROVE  Prepared'
<1>1. CInv /\ TypeInv /\ TypeOK /\ GoneLast  BY DEF AInv, CInv, TypeInv
<1>2. SUFFICES ASSUME NEW t \in Threads, NEW c \in Conns, IsOpening(t, c)', thread'[t].at = "sdk"
               PROVE  state' = "GONE" \/ c \in queues' \intersect timeouts'
  BY DEF Prepared
<1>3. IsOpening(t, c)  BY <1>1, <1>2, OpeningsMove
<1>4. CASE thread[t].at = "sdk"
  <2>1. state = "GONE" \/ c \in queues \intersect timeouts  BY <1>3, <1>4 DEF Prepared
  <2>2. ASSUME NEW u \in Threads, WrapperStep(u), thread[u].status = "CLOSED", thread[u].conn = c
        PROVE  FALSE
    <3>1. Closing(u, c)  BY <2>2 DEF WrapperStep, Closing
    <3>. QED BY <1>3, <3>1, Alone
  <2>. QED BY <1>1, <2>1, <2>2, QueuesMove
<1>5. CASE thread[t].at # "sdk"
  <2>1. ~UNCHANGED thread  BY <1>2, <1>5
  <2>2. ASSUME Starts PROVE FALSE
    <3>1. PICK u \in Threads : /\ \A v \in Threads \ {u} : thread'[v] = thread[v]
                               /\ thread'[u].at # "sdk"
      BY <1>1, <2>2, Begun
    <3>. QED BY <1>2, <1>5, <3>1
  <2>3. PICK u \in Threads : ThreadStep(u)  BY <1>1, <2>1, <2>2, ThreadMoves
  <2>4. t = u  BY <1>1, <1>2, <1>5, <2>3, Steps
  <2>5. CASE WrapperStep(t)
    <3>1. thread[t].status = "OPEN" /\ thread[t].conn = c  BY <1>3 DEF IsOpening
    <3>2. c \in opening
      <4>1. c \notin opening => Ended(t)  BY <1>1, <2>3, <2>4, <2>5, <3>1, Steps
      <4>. QED BY <1>2, <4>1 DEF Ended, Becomes
    <3>. QED BY <2>5, <3>1, <3>2 DEF WrapperStep, TimeoutsAfter
  <2>6. CASE ~WrapperStep(t)
    <3>1. CASE AddConnection(t) \/ RemoveConnection(t)
      BY <1>5, <3>1 DEF AddConnection, RemoveConnection
    <3>2. CASE TellConnection(t) \/ TakeLink(t) \/ RemoveLink(t)
      <4>1. thread'[t].at \in {"idle", "conns", "links"}
        BY <1>1, <2>3, <2>4, <3>2, Steps DEF Ended, GoesOn, Becomes
      <4>. QED BY <1>2, <4>1
    <3>3. CASE CloseNext(t)
      <4>1. thread'[t].status = "CLOSED"  BY <1>1, <2>3, <2>4, <3>3, Steps DEF Becomes
      <4>. QED BY <1>2, <4>1 DEF IsOpening
    <3>. QED BY <2>3, <2>4, <2>6, <3>1, <3>2, <3>3 DEF ThreadStep
  <2>. QED BY <2>5, <2>6
<1>. QED BY <1>4, <1>5

\* Who closes a connection and has passed the wrapper.
Withdraws(t, c) == thread[t].at = "sdk" /\ thread[t].conn = c /\ thread[t].status = "CLOSED"

LEMMA SendableStep ==
    ASSUME ConnectionsAssumption, AInv, Prepared, SendableWhileOpen, Next
    PROVE  SendableWhileOpen'
<1>1. CInv /\ TypeInv /\ TypeOK /\ GoneLast  BY DEF AInv, CInv, TypeInv
<1>2. SUFFICES ASSUME NEW c \in Conns, c \in connections'
               PROVE  \/ state' = "GONE" \/ c \in queues' \intersect timeouts'
                      \/ \E t \in Threads : Withdraws(t, c)'
  <2>1. TypeOK'  BY <1>1, TypeInvStep DEF TypeInv
  <2>2. connections' \subseteq Conns  BY <2>1 DEF TypeOK
  <2>. QED BY <2>2 DEF SendableWhileOpen, Withdraws
<1>3. ASSUME NEW t \in Threads, WrapperStep(t), thread[t].status = "CLOSED", thread[t].conn = c
      PROVE  Withdraws(t, c)'
  <2>1. GoesOn(t, "sdk")  BY <1>1, <1>3, Steps DEF ThreadStep
  <2>. QED BY <1>3, <2>1 DEF Withdraws, GoesOn, Becomes
<1>4. CASE c \notin connections
  <2>1. PICK t \in Threads : ThreadStep(t)  BY <1>1, <1>2, <1>4, ThreadMoves
  <2>2. AddConnection(t) /\ thread[t].conn = c  BY <1>1, <1>2, <1>4, <2>1, KnownMoves
  <2>3. IsOpening(t, c) /\ thread[t].at = "sdk"  BY <2>2 DEF AddConnection, IsOpening
  <2>4. UNCHANGED <<state, queues, timeouts>>  BY <2>2 DEF AddConnection
  <2>. QED BY <2>3, <2>4 DEF Prepared
<1>5. CASE state = "GONE" \/ c \in queues \intersect timeouts
  BY <1>1, <1>3, <1>5, QueuesMove
<1>6. ASSUME NEW t \in Threads, Withdraws(t, c) PROVE Withdraws(t, c)'
  <2>1. CASE UNCHANGED thread  BY <1>6, <2>1 DEF Withdraws
  <2>2. CASE Starts
    <3>1. PICK u \in Threads : /\ \A v \in Threads \ {u} : thread'[v] = thread[v]
                               /\ thread[u].at = "idle"
      BY <1>1, <2>2, Begun
    <3>. QED BY <1>6, <3>1 DEF Withdraws
  <2>3. ASSUME NEW u \in Threads, ThreadStep(u) PROVE Withdraws(t, c)'
    <3>1. CASE t # u
      <4>1. thread'[t] = thread[t]  BY <1>1, <2>3, <3>1, Steps
      <4>. QED BY <1>6, <4>1 DEF Withdraws
    <3>2. CASE t = u
      <4>1. RemoveConnection(t)
        BY <1>6, <2>3, <3>2 DEF Withdraws, ThreadStep, WrapperStep, AddConnection, RemoveConnection,
           TellConnection, TakeLink, CloseNext, RemoveLink
      <4>2. c \notin connections'  BY <1>6, <4>1 DEF RemoveConnection, Withdraws
      <4>. QED BY <1>2, <4>2
    <3>. QED BY <3>1, <3>2
  <2>. QED BY <1>1, <2>1, <2>2, <2>3, ThreadMoves
<1>. QED BY <1>1, <1>4, <1>5, <1>6 DEF SendableWhileOpen, Withdraws

LEMMA ViewOfOpenStep ==
    ASSUME ConnectionsAssumption, AInv, ToldLast, ViewOfOpen, Next
    PROVE  ViewOfOpen'
<1>1. CInv /\ TypeInv /\ TypeOK /\ GoneLast  BY DEF AInv, CInv, TypeInv
<1>2. SUFFICES ASSUME NEW c \in Conns
               PROVE  /\ nmConns'[c] = "OPEN" =>
                             c \in connections' \/ \E t \in Threads : AboutToTell(t, c, "CLOSED")'
                      /\ c \in connections' =>
                             nmConns'[c] = "OPEN" \/ \E t \in Threads : AboutToTell(t, c, "OPEN")'
  BY DEF ViewOfOpen
<1>3. /\ nmConns[c] = "OPEN" => c \in connections \/ \E t \in Threads : AboutToTell(t, c, "CLOSED")
      /\ c \in connections => nmConns[c] = "OPEN" \/ \E t \in Threads : AboutToTell(t, c, "OPEN")
  BY DEF ViewOfOpen
<1>4. ASSUME NEW t \in Threads, NEW status, AboutToTell(t, c, status), UNCHANGED thread \/ Starts
      PROVE  AboutToTell(t, c, status)'
  <2>1. CASE UNCHANGED thread  BY <1>4, <2>1 DEF AboutToTell
  <2>2. CASE Starts
    <3>1. PICK u \in Threads : /\ \A v \in Threads \ {u} : thread'[v] = thread[v]
                               /\ thread[u].at = "idle"
      BY <1>1, <2>2, Begun
    <3>. QED BY <1>4, <3>1 DEF AboutToTell
  <2>. QED BY <1>4, <2>1, <2>2
<1>5. CASE UNCHANGED connections /\ (UNCHANGED thread \/ Starts) /\ ~(\E t \in Threads : ThreadStep(t))
  <2>1. nmConns'[c] = nmConns[c] \/ (nmConns[c] = "none" /\ nmConns'[c] # "OPEN")
    <3>1. CASE \E d \in Conns : OpenConnection(d)
      <4>1. PICK d \in Conns : OpenConnection(d)  BY <3>1
      <4>2. /\ nmConns[d] = "none"
            /\ nmConns' = [nmConns EXCEPT ![d] = "asked"] \/ nmConns' = [nmConns EXCEPT ![d] = "CLOSED"]
        BY <4>1 DEF OpenConnection
      <4>3. nmConns \in [Conns -> {"none", "asked", "OPEN", "CLOSED"}]  BY <1>1 DEF TypeOK
      <4>. QED BY <4>2, <4>3
    <3>2. CASE ~\E d \in Conns : OpenConnection(d)
      <4>1. CASE Calls
        BY <3>2, <4>1 DEF Calls, ActivateChannel, DeactivateChannel, EnableChannel, DisableChannel,
           CreateLink, SendPackage, HoldPackage, ShipHeld
      <4>2. CASE HandlerNext
        BY <4>2 DEF HandlerNext, RunOpen, RunSend, Expire, RunCreate, RunChannel
      <4>3. CASE PluginNext
        BY <4>3 DEF PluginNext, LinkCreated, LinkDestroyed, UnblockQueue, ConnectionReported,
           ChannelReported, PackageReported
      <4>4. CASE ShutdownNext
        BY <4>4 DEF ShutdownNext, BeginShutdown, PluginShutdown, CleanupChannels, StopHandler
      <4>. QED BY <1>5, <4>1, <4>2, <4>3, <4>4 DEF Next
    <3>. QED BY <3>1, <3>2
  <2>. QED BY <1>3, <1>4, <1>5, <2>1
<1>6. ASSUME NEW u \in Threads, ThreadStep(u)
      PROVE  /\ nmConns'[c] = "OPEN" =>
                    c \in connections' \/ \E t \in Threads : AboutToTell(t, c, "CLOSED")'
             /\ c \in connections' =>
                    nmConns'[c] = "OPEN" \/ \E t \in Threads : AboutToTell(t, c, "OPEN")'
  <2>1. CASE TellConnection(u)
    <3>. DEFINE d == thread[u].conn
    <3>1. /\ UNCHANGED connections /\ thread[u].at = "tell"
          /\ nmConns' = [nmConns EXCEPT ![d] = thread[u].status]
      BY <2>1 DEF TellConnection
    <3>2. /\ nmConns \in [Conns -> {"none", "asked", "OPEN", "CLOSED"}]
          /\ thread[u].status \in {"OPEN", "CLOSED"}
      BY <1>1 DEF TypeOK, Callback
    <3>3. CASE d = c
      <4>1. nmConns'[c] = thread[u].status  BY <3>1, <3>2, <3>3
      <4>2. c \in connections <=> thread[u].status = "OPEN"  BY <3>1, <3>3 DEF ToldLast
      <4>. QED BY <3>1, <3>2, <4>1, <4>2
    <3>4. CASE d # c
      <4>1. nmConns'[c] = nmConns[c]  BY <3>1, <3>2, <3>4
      <4>2. \A t \in Threads : \A status : AboutToTell(t, c, status) => AboutToTell(t, c, status)'
        <5>1. \A t \in Threads \ {u} : thread'[t] = thread[t]  BY <1>1, <1>6, Steps
        <5>. QED BY <3>4, <5>1 DEF AboutToTell
      <4>. QED BY <1>3, <3>1, <4>1, <4>2
    <3>. QED BY <3>3, <3>4
  <2>2. CASE ~TellConnection(u)
    <3>1. UNCHANGED nmConns
      BY <1>6, <2>2 DEF ThreadStep, WrapperStep, AddConnection, RemoveConnection, TakeLink,
         CloseNext, RemoveLink
    <3>2. ASSUME NEW t \in Threads, NEW status, AboutToTell(t, c, status) PROVE AboutToTell(t, c, status)'
      <4>1. t # u  BY <1>1, <1>6, <2>2, <3>2, TellsMove DEF AboutToTell
      <4>2. thread'[t] = thread[t]  BY <1>1, <1>6, <4>1, Steps
      <4>. QED BY <3>2, <4>2 DEF AboutToTell
    <3>3. c \in connections /\ c \notin connections' => AboutToTell(u, c, "CLOSED")'
      <4>1. SUFFICES ASSUME c \in connections, c \notin connections' PROVE AboutToTell(u, c, "CLOSED")'
        OBVIOUS
      <4>2. RemoveConnection(u) /\ thread[u].conn = c /\ GoesOn(u, "tell")
        BY <1>1, <1>6, <4>1, KnownMoves
      <4>. QED BY <4>2 DEF RemoveConnection, GoesOn, Becomes, AboutToTell
    <3>4. c \notin connections /\ c \in connections' => AboutToTell(u, c, "OPEN")'
      <4>1. SUFFICES ASSUME c \notin connections, c \in connections' PROVE AboutToTell(u, c, "OPEN")'
        OBVIOUS
      <4>2. AddConnection(u) /\ thread[u].conn = c /\ GoesOn(u, "tell")
        BY <1>1, <1>6, <4>1, KnownMoves
      <4>. QED BY <4>2 DEF AddConnection, GoesOn, Becomes, AboutToTell
    <3>. QED BY <1>3, <3>1, <3>2, <3>3, <3>4
  <2>. QED BY <2>1, <2>2
<1>. QED BY <1>1, <1>5, <1>6, ThreadMoves

SInv == AInv /\ ToldLast /\ Prepared /\ SendableWhileOpen /\ ViewOfOpen

LEMMA SInvInit == ASSUME ConnectionsAssumption, Init PROVE SInv
<1>1. AInv  BY AInvInit
<1>2. Idle.status = "CLOSED" /\ Idle.at = "idle"  BY DEF Idle
<1>3. \A t \in Threads : thread[t] = Idle  BY DEF Init
<1>4. ToldLast /\ Prepared  BY <1>2, <1>3 DEF ToldLast, Prepared, IsOpening
<1>5. SendableWhileOpen /\ ViewOfOpen  BY DEF Init, SendableWhileOpen, ViewOfOpen
<1>. QED BY <1>1, <1>4, <1>5 DEF SInv

LEMMA SInvStep ==
    ASSUME ConnectionsAssumption, Orderly, SInv, [Next]_vars
    PROVE  SInv'
<1>1. AInv'  BY AInvStep DEF SInv
<1>2. CASE Next
  BY <1>1, <1>2, ToldLastStep, PreparedStep, SendableStep, ViewOfOpenStep DEF SInv
<1>3. CASE UNCHANGED vars
  <2>1. UNCHANGED <<thread, connections, nmConns, state, queues, timeouts>>  BY <1>3 DEF vars
  <2>2. ToldLast' /\ Prepared'  BY <2>1 DEF SInv, ToldLast, Prepared, IsOpening
  <2>3. SendableWhileOpen' /\ ViewOfOpen'
    BY <2>1 DEF SInv, SendableWhileOpen, ViewOfOpen, AboutToTell
  <2>. QED BY <1>1, <2>2, <2>3 DEF SInv
<1>. QED BY <1>2, <1>3

\* CommsWrapper::onConnectionStatusChanged prepares the queue and the send timeout
\* of a connection before RaceSdk adds it, and takes them only in the callback that
\* then removes it: with a plugin that keeps the order Orderly asks for, a
\* connection the SDK has can be sent on.
THEOREM SendableCorrect == Orderly => (Spec => []SendableWhileOpen)
<1>1. Init => SInv  BY ConnectionsAssumption, SInvInit
<1>2. Orderly /\ SInv /\ [Next]_vars => SInv'  BY ConnectionsAssumption, SInvStep
<1>3. SInv => SendableWhileOpen  BY DEF SInv
<1>4. SUFFICES ASSUME Orderly PROVE Spec => []SendableWhileOpen  OBVIOUS
<1>5. SInv /\ [Next]_vars => SInv'  BY <1>2, <1>4
<1>. QED BY <1>1, <1>3, <1>5, PTL DEF Spec

(***************************************************************************)
(* No request is forgotten.  A link that ends does so for good, since it   *)
(* was asked for once; of a request on any other, the answer is on its     *)
(* way until the network manager has it.                                   *)
(***************************************************************************)
LinksPast == \A l \in Links : Ends(l) \/ l \in channelLinks => LinkPast(l)

LinksKnown ==
    /\ \A l \in Links : nmLinks[l] = "CREATED" => l \in linkIdToInfo
    /\ \A c \in Conns : nmConns[c] = "asked" => nmLinks[LinkOf[c]] \in {"CREATED", "DESTROYED"}

\* The plugin has the request or will get it, or its answer has just begun...
Requested(c) ==
    \/ IsPosted(<<"open", c>>) \/ pluginConns[c] \in {"asked", "refused"}
    \/ \E t \in Threads : IsOpening(t, c) /\ thread[t].at = "wrapper"

\* ...or a callback that cannot fail any more will give it.
Answering(c) == \E t \in Threads : Closing(t, c) \/ (IsOpening(t, c) /\ thread[t].at = "tell")

AnswerComes ==
    \A c \in Conns :
        nmConns[c] = "asked" =>
            \/ Over \/ Ends(LinkOf[c]) \/ Answering(c)
            \/ /\ c \in handleToLink
               /\ \/ \E t \in Threads : IsOpening(t, c) /\ thread[t].at = "sdk"
                  \/ c \in opening /\ Requested(c)

\* Of the network manager's calls, the request changes what it knows of a link.
LEMMA CallsLeaveLinks ==
    ASSUME Calls PROVE nmLinks' = nmLinks \/ \E m \in Links : CreateLink(m)
<1>1. CASE ActivateChannel \/ DeactivateChannel \/ EnableChannel \/ DisableChannel
  BY <1>1 DEF ActivateChannel, DeactivateChannel, EnableChannel, DisableChannel
<1>2. ASSUME NEW c \in Conns, OpenConnection(c) PROVE nmLinks' = nmLinks  BY <1>2 DEF OpenConnection
<1>3. ASSUME NEW p \in Packages, NEW c \in Conns, SendPackage(p, c) \/ HoldPackage(p, c)
      PROVE  nmLinks' = nmLinks
  BY <1>3 DEF SendPackage, HoldPackage
<1>4. ASSUME NEW p \in Packages, ShipHeld(p) PROVE nmLinks' = nmLinks  BY <1>4 DEF ShipHeld
<1>. QED BY <1>1, <1>2, <1>3, <1>4 DEF Calls

\* The links that end, after a step.
LEMMA EndsMove ==
    ASSUME ConnectionsAssumption, TypeInv, Next, NEW l \in Links, Ends(l)'
    PROVE  \/ Ends(l) \/ l \in channelLinks \/ pluginLinks'[l] = "down"
           \/ Takes("create", l) /\ UNCHANGED pluginLinks
<1>1. TypeOK /\ None \notin Links  BY DEF TypeInv, ConnectionsAssumption
<1>2. ASSUME NEW t \in Threads, ThreadStep(t) PROVE Ends(l)
  <2>1. ASSUME NEW v \in Threads, IsDestroying(v, l)' PROVE Ends(l)
    <3>1. PICK cb : /\ Goes(t, cb)
                    /\ cb.rest \union ({cb.link} \ {None})
                           \subseteq thread[t].rest \union ({thread[t].link} \ {None})
      BY <1>2, StepMoves
    <3>2. thread'[t] = cb /\ \A u \in Threads \ {t} : thread'[u] = thread[u]
      BY <1>1, <3>1, GoesElsewhere
    <3>3. IsDestroying(v, l)  BY <1>1, <2>1, <3>1, <3>2 DEF IsDestroying
    <3>. QED BY <3>3 DEF Ends
  <2>2. ASSUME nmLinks'[l] = "DESTROYED", nmLinks[l] # "DESTROYED" PROVE Ends(l)
    <3>1. RemoveLink(t)
      BY <1>2, <2>2 DEF ThreadStep, WrapperStep, AddConnection, RemoveConnection, TellConnection,
         TakeLink, CloseNext
    <3>2. thread[t].link = l  BY <1>1, <2>2, <3>1 DEF RemoveLink, TypeOK
    <3>. QED BY <3>2 DEF Ends, IsDestroying
  <2>. QED BY <2>1, <2>2 DEF Ends
<1>3. CASE ~\E t \in Threads : ThreadStep(t)
  <2>1. nmLinks'[l] = "DESTROYED" => nmLinks[l] = "DESTROYED"
    <3>1. CASE Calls
      <4>1. nmLinks' = nmLinks \/ \E m \in Links : CreateLink(m)
        BY <3>1, CallsLeaveLinks
      <4>2. ASSUME NEW m \in Links, CreateLink(m) PROVE nmLinks'[l] = "DESTROYED" => nmLinks[l] = "DESTROYED"
        BY <1>1, <4>2 DEF CreateLink, TypeOK
      <4>. QED BY <4>1, <4>2
    <3>2. CASE HandlerNext
      BY <3>2 DEF HandlerNext, RunOpen, RunSend, Expire, RunCreate, RunChannel
    <3>3. CASE PluginNext
      <4>1. ASSUME NEW m \in Links, LinkCreated(m) PROVE nmLinks'[l] = "DESTROYED" => nmLinks[l] = "DESTROYED"
        BY <1>1, <4>1 DEF LinkCreated, TypeOK
      <4>2. CASE ~\E m \in Links : LinkCreated(m)
        BY <3>3, <4>2 DEF PluginNext, LinkDestroyed, UnblockQueue, ConnectionReported,
           ChannelReported, PackageReported
      <4>. QED BY <4>1, <4>2
    <3>4. CASE ShutdownNext
      BY <3>4 DEF ShutdownNext, BeginShutdown, PluginShutdown, CleanupChannels, StopHandler
    <3>. QED BY <1>3, <3>1, <3>2, <3>3, <3>4 DEF Next
  <2>2. CASE UNCHANGED thread  BY <1>3, <2>1, <2>2 DEF Ends, IsDestroying
  <2>3. CASE Starts
    <3>1. PICK u \in Threads :
              /\ \A v \in Threads \ {u} : thread'[v] = thread[v]
              /\ thread'[u].link = None
              /\ thread'[u].rest = {} \/ StartsDestroying(u, thread'[u].rest)
      BY <2>3, Begun
    <3>2. ASSUME NEW v \in Threads, IsDestroying(v, l)'
          PROVE  IsDestroying(v, l) \/ (StartsDestroying(u, thread'[u].rest) /\ l \in thread'[u].rest)
      BY <1>1, <3>1, <3>2 DEF IsDestroying
    <3>3. StartsDestroying(u, thread'[u].rest) /\ l \in thread'[u].rest =>
              \/ l \in channelLinks \/ pluginLinks'[l] = "down"
              \/ Takes("create", l) /\ UNCHANGED pluginLinks
      BY DEF StartsDestroying
    <3>. QED BY <2>1, <3>2, <3>3 DEF Ends
  <2>. QED BY <1>1, <1>3, <2>2, <2>3, ThreadMoves
<1>. QED BY <1>2, <1>3

LEMMA LinksPastStep ==
    ASSUME ConnectionsAssumption, CInv, LinksPast, Next
    PROVE  LinksPast'
<1>1. TypeInv /\ TypeOK /\ AskedOnce  BY DEF CInv, TypeInv
<1>2. SUFFICES ASSUME NEW l \in Links, Ends(l)' \/ l \in channelLinks' PROVE LinkPast(l)'
  BY DEF LinksPast
<1>3. CASE Ends(l)'
  <2>1. \/ LinkPast(l) \/ pluginLinks'[l] = "down"
        \/ Takes("create", l) /\ UNCHANGED pluginLinks
    BY <1>1, <1>3, EndsMove DEF LinksPast
  <2>. QED BY <1>1, <2>1, LinkPastStays
<1>4. CASE l \in channelLinks
  BY <1>1, <1>4, LinkPastStays DEF LinksPast
<1>5. CASE l \notin channelLinks /\ l \in channelLinks'
  <2>1. LinkCreated(l)
    <3>1. CASE Calls
      BY <1>5, <3>1 DEF Calls, ActivateChannel, DeactivateChannel, EnableChannel, DisableChannel,
         ChannelChanges, CreateLink, OpenConnection, SendPackage, HoldPackage, ShipHeld
    <3>2. CASE HandlerNext
      BY <1>5, <3>2 DEF HandlerNext, RunOpen, RunSend, Expire, RunCreate, RunChannel
    <3>3. CASE PluginNext
      <4>1. ASSUME NEW m \in Links, LinkCreated(m) PROVE m = l  BY <1>5, <4>1 DEF LinkCreated
      <4>2. CASE ~\E m \in Links : LinkCreated(m)
        BY <1>5, <3>3, <4>2 DEF PluginNext, LinkDestroyed, UnblockQueue, ConnectionReported,
           ChannelReported, ChannelChanges, PackageReported
      <4>. QED BY <4>1, <4>2
    <3>4. CASE ShutdownNext
      BY <1>5, <3>4 DEF ShutdownNext, BeginShutdown, PluginShutdown, CleanupChannels,
         ChannelChanges, StopHandler
    <3>5. ASSUME NEW t \in Threads, ThreadStep(t) PROVE FALSE
      BY <1>5, <3>5 DEF ThreadStep, WrapperStep, AddConnection, RemoveConnection, TellConnection,
         TakeLink, CloseNext, RemoveLink
    <3>. QED BY <3>1, <3>2, <3>3, <3>4, <3>5 DEF Next
  <2>2. pluginLinks'[l] = "up"  BY <1>1, <2>1 DEF LinkCreated, TypeOK
  <2>. QED BY <2>2 DEF LinkPast
<1>. QED BY <1>2, <1>3, <1>4, <1>5

\* A link that ends goes on ending: the callback removes it, and it is not created again.
LEMMA EndsStays ==
    ASSUME ConnectionsAssumption, AInv, LinksPast, Next, NEW l \in Links, Ends(l)
    PROVE  Ends(l)'
<1>1. TypeInv /\ TypeOK /\ None \notin Links  BY DEF AInv, CInv, TypeInv, ConnectionsAssumption
<1>2. CASE nmLinks[l] = "DESTROYED"
  <2>1. pluginLinks[l] # "asked"  BY DEF LinksPast, LinkPast
  <2>2. nmLinks'[l] = "DESTROYED"
    <3>1. CASE Calls
      <4>1. nmLinks' = nmLinks \/ \E m \in Links : CreateLink(m)
        BY <3>1, CallsLeaveLinks
      <4>2. ASSUME NEW m \in Links, CreateLink(m) PROVE nmLinks'[l] = "DESTROYED"
        <5>1. nmLinks[m] = "none" /\ nmLinks' = [nmLinks EXCEPT ![m] = "asked"]
          BY <4>2 DEF CreateLink
        <5>. QED BY <1>1, <1>2, <5>1 DEF TypeOK
      <4>. QED BY <1>2, <4>1, <4>2
    <3>2. CASE HandlerNext
      BY <1>2, <3>2 DEF HandlerNext, RunOpen, RunSend, Expire, RunCreate, RunChannel
    <3>3. CASE PluginNext
      <4>1. nmLinks' = nmLinks \/ \E m \in Links : LinkCreated(m)
        BY <3>3 DEF PluginNext, LinkDestroyed, UnblockQueue, ConnectionReported, ChannelReported,
           PackageReported
      <4>2. ASSUME NEW m \in Links, LinkCreated(m) PROVE nmLinks'[l] = "DESTROYED"
        <5>1. pluginLinks[m] = "asked" /\ nmLinks' = [nmLinks EXCEPT ![m] = "CREATED"]
          BY <4>2 DEF LinkCreated
        <5>2. m # l  BY <2>1, <5>1
        <5>. QED BY <1>2, <5>1, <5>2, <1>1 DEF TypeOK
      <4>. QED BY <1>2, <4>1, <4>2
    <3>4. CASE ShutdownNext
      BY <1>2, <3>4 DEF ShutdownNext, BeginShutdown, PluginShutdown, CleanupChannels, StopHandler
    <3>5. ASSUME NEW t \in Threads, ThreadStep(t) PROVE nmLinks'[l] = "DESTROYED"
      BY <1>1, <1>2, <3>5 DEF ThreadStep, WrapperStep, AddConnection, RemoveConnection,
         TellConnection, TakeLink, CloseNext, RemoveLink, TypeOK
    <3>. QED BY <3>1, <3>2, <3>3, <3>4, <3>5 DEF Next
  <2>. QED BY <2>2 DEF Ends
<1>3. ASSUME NEW t \in Threads, IsDestroying(t, l) PROVE Ends(l)'
  <2>1. Carries(thread[t]) /\ (thread[t].link = None /\ thread[t].at # "links" => thread[t].rest = {})
    BY <1>1 DEF AInv, OwnLink, TypeInv, AllCarry
  <2>2. ~(thread[t].link = None /\ thread[t].at # "links")
    BY <1>1, <1>3, <2>1 DEF IsDestroying
  <2>3. CASE thread'[t] = thread[t]  BY <1>3, <2>3 DEF Ends, IsDestroying
  <2>4. CASE Starts
    <3>1. PICK u \in Threads : /\ \A v \in Threads \ {u} : thread'[v] = thread[v]
                               /\ thread[u].at = "idle" /\ thread[u].link = None
      BY <1>1, <2>4, Begun
    <3>. QED BY <2>2, <2>3, <3>1
  <2>5. CASE ThreadStep(t)
    <3>1. thread[t].at \notin {"wrapper", "idle"}  BY <2>1, <2>2 DEF Carries
    <3>2. CASE AddConnection(t)
      <4>1. thread[t].link = None /\ thread[t].at = "sdk"  BY <2>1, <3>2 DEF AddConnection, Carries
      <4>. QED BY <2>2, <4>1
    <3>3. CASE RemoveConnection(t) \/ CloseNext(t)
      <4>1. thread'[t].link = thread[t].link /\ thread'[t].rest = thread[t].rest
        BY <1>1, <2>5, <3>3, Steps DEF GoesOn, Becomes
      <4>. QED BY <1>3, <4>1 DEF Ends, IsDestroying
    <3>4. CASE TellConnection(t)
      <4>1. thread[t].link # None  BY <2>2, <3>4 DEF TellConnection
      <4>2. thread'[t].link = thread[t].link /\ thread'[t].rest = thread[t].rest
        BY <1>1, <2>5, <3>4, <4>1, Steps DEF GoesOn, Becomes
      <4>. QED BY <1>3, <4>2 DEF Ends, IsDestroying
    <3>5. CASE TakeLink(t)
      <4>1. l \in thread[t].rest  BY <1>1, <1>3, <2>1, <3>5 DEF TakeLink, Carries, IsDestroying
      <4>2. PICK m \in thread[t].rest :
                thread'[t].link = m /\ thread'[t].rest = thread[t].rest \ {m}
        BY <1>1, <2>5, <3>5, <4>1, Steps DEF Becomes
      <4>. QED BY <4>1, <4>2 DEF Ends, IsDestroying
    <3>6. CASE RemoveLink(t)
      <4>1. thread'[t].rest = thread[t].rest  BY <1>1, <2>5, <3>6, Steps DEF Becomes
      <4>2. thread[t].link = l => nmLinks'[l] = "DESTROYED"
        BY <1>1, <3>6 DEF RemoveLink, TypeOK
      <4>. QED BY <1>3, <4>1, <4>2 DEF Ends, IsDestroying
    <3>7. ~WrapperStep(t)  BY <3>1 DEF WrapperStep
    <3>. QED BY <2>5, <3>2, <3>3, <3>4, <3>5, <3>6, <3>7 DEF ThreadStep
  <2>6. CASE UNCHANGED thread  BY <2>3, <2>6
  <2>7. ASSUME NEW u \in Threads \ {t}, ThreadStep(u) PROVE Ends(l)'
    <3>1. thread'[t] = thread[t]  BY <1>1, <2>7, Steps
    <3>. QED BY <2>3, <3>1
  <2>. QED BY <1>1, <2>4, <2>5, <2>6, <2>7, ThreadMoves
<1>. QED BY <1>2, <1>3 DEF Ends

\* A link the network manager may open connections on is one the SDK has.
LEMMA LinksKnownStep ==
    ASSUME ConnectionsAssumption, TypeInv, LinksKnown, Next
    PROVE  LinksKnown'
<1>1. TypeOK /\ \A c \in Conns : LinkOf[c] \in Links  BY DEF TypeInv, ConnectionsAssumption
<1>2. CASE UNCHANGED <<nmLinks, nmConns, linkIdToInfo>>  BY <1>2 DEF LinksKnown
<1>3. ASSUME NEW l \in Links, CreateLink(l) PROVE LinksKnown'
  <2>1. /\ nmLinks[l] = "none" /\ nmLinks' = [nmLinks EXCEPT ![l] = "asked"]
        /\ UNCHANGED <<nmConns, linkIdToInfo>>
    BY <1>3 DEF CreateLink
  <2>. QED BY <1>1, <2>1 DEF LinksKnown, TypeOK
<1>4. ASSUME NEW c \in Conns, OpenConnection(c) PROVE LinksKnown'
  <2>1. /\ nmLinks[LinkOf[c]] = "CREATED" /\ UNCHANGED <<nmLinks, linkIdToInfo>>
        /\ \A d \in Conns : nmConns'[d] = "asked" => nmConns[d] = "asked" \/ d = c
    BY <1>1, <1>4 DEF OpenConnection, TypeOK
  <2>. QED BY <2>1 DEF LinksKnown
<1>5. ASSUME NEW l \in Links, LinkCreated(l) PROVE LinksKnown'
  <2>1. /\ nmLinks' = [nmLinks EXCEPT ![l] = "CREATED"] /\ linkIdToInfo' = linkIdToInfo \union {l}
        /\ UNCHANGED nmConns
    BY <1>5 DEF LinkCreated
  <2>. QED BY <1>1, <2>1 DEF LinksKnown, TypeOK
<1>6. ASSUME NEW t \in Threads, TellConnection(t) PROVE LinksKnown'
  <2>1. UNCHANGED <<nmLinks, linkIdToInfo>>  BY <1>6 DEF TellConnection
  <2>2. \A d \in Conns : nmConns'[d] = "asked" => nmConns[d] = "asked"
    BY <1>1, <1>6 DEF TellConnection, TypeOK, Callback
  <2>. QED BY <2>1, <2>2 DEF LinksKnown
<1>7. ASSUME NEW t \in Threads, RemoveLink(t) PROVE LinksKnown'
  <2>. DEFINE l == thread[t].link
  <2>1. /\ nmLinks' = [nmLinks EXCEPT ![l] = "DESTROYED"] /\ linkIdToInfo' = linkIdToInfo \ {l}
        /\ UNCHANGED nmConns
    BY <1>7 DEF RemoveLink
  <2>. HIDE DEF l
  <2>. QED BY <1>1, <2>1 DEF LinksKnown, TypeOK
<1>8. CASE Calls
  BY <1>2, <1>3, <1>4, <1>8 DEF Calls, ActivateChannel, DeactivateChannel, EnableChannel,
     DisableChannel, SendPackage, HoldPackage, ShipHeld
<1>9. CASE HandlerNext
  BY <1>2, <1>9 DEF HandlerNext, RunOpen, RunSend, Expire, RunCreate, RunChannel
<1>10. CASE PluginNext
  BY <1>2, <1>5, <1>10 DEF PluginNext, LinkDestroyed, UnblockQueue, ConnectionReported,
     ChannelReported, PackageReported
<1>11. ASSUME NEW t \in Threads, ThreadStep(t) PROVE LinksKnown'
  BY <1>2, <1>6, <1>7, <1>11 DEF ThreadStep, WrapperStep, AddConnection, RemoveConnection, TakeLink,
     CloseNext
<1>12. CASE ShutdownNext
  BY <1>2, <1>12 DEF ShutdownNext, BeginShutdown, PluginShutdown, CleanupChannels, StopHandler
<1>. QED BY <1>8, <1>9, <1>10, <1>11, <1>12 DEF Next

\* Work stays posted until it is run.
LEMMA PostedStays ==
    ASSUME TypeOK, NEW w, IsPosted(w),
           \/ UNCHANGED posted
           \/ \E v \in Work : Post(v)
           \/ \E op, x : Takes(op, x) /\ <<op, x>> # w
    PROVE  IsPosted(w)'
<1>1. posted \in Seq(Work)  BY DEF TypeOK
<1>2. CASE UNCHANGED posted  BY <1>2 DEF IsPosted
<1>3. ASSUME NEW v \in Work, posted' = Append(posted, v) PROVE IsPosted(w)'
  <2>1. PICK n \in DOMAIN posted' : /\ DOMAIN posted' = DOMAIN posted \union {n}
                                    /\ \A i \in DOMAIN posted : posted'[i] = posted[i]
    BY <1>3, AppendPosted
  <2>. QED BY <2>1 DEF IsPosted
<1>4. ASSUME NEW op, NEW x, Takes(op, x), <<op, x>> # w PROVE IsPosted(w)'
  <2>1. posted # <<>> /\ posted' = Tail(posted) /\ posted[1] = <<op, x>>
    BY <1>1, <1>4 DEF Takes
  <2>2. \A i \in DOMAIN posted : i = 1 \/ (i - 1 \in DOMAIN posted' /\ posted'[i - 1] = posted[i])
    BY <1>1, <2>1
  <2>. QED BY <1>4, <2>1, <2>2 DEF IsPosted
<1>. QED BY <1>2, <1>3, <1>4 DEF Post

\* What the plugin has of a request it has, or answers.
LEMMA RequestGoesOn ==
    ASSUME ConnectionsAssumption, TypeInv, Next, NEW c \in Conns,
           IsPosted(<<"open", c>>) \/ pluginConns[c] \in {"asked", "refused"}
    PROVE  \/ IsPosted(<<"open", c>>)' \/ pluginConns'[c] \in {"asked", "refused"} \/ Over'
           \/ \E t \in Threads : Closing(t, c)' \/ (IsOpening(t, c)' /\ thread'[t].at = "wrapper")
<1>1. TypeOK /\ HandlerThread \in Threads /\ PluginThreads \subseteq Threads
  BY DEF TypeInv, ConnectionsAssumption, PluginThreads
<1>2. CASE UNCHANGED pluginConns /\ (UNCHANGED posted \/ \E v \in Work : Post(v))
  BY <1>1, <1>2, PostedStays
<1>3. ASSUME NEW t \in Threads, NEW status \in {"OPEN", "CLOSED"}, NEW own,
             Goes(t, Reporting(c, status, own))
      PROVE  Closing(t, c)' \/ (IsOpening(t, c)' /\ thread'[t].at = "wrapper")
  <2>. DEFINE cb == Reporting(c, status, own)
  <2>1. cb.at = "wrapper" /\ cb.status = status /\ cb.conn = c  BY ReportFields
  <2>2. Goes(t, cb)  BY <1>3
  <2>. HIDE DEF cb
  <2>3. thread'[t] = cb  BY <1>1, <2>2, GoesElsewhere
  <2>. QED BY <2>1, <2>3 DEF Closing, IsOpening
<1>4. CASE Calls
  <2>1. UNCHANGED pluginConns
    BY <1>4 DEF Calls, ActivateChannel, DeactivateChannel, EnableChannel, DisableChannel, CreateLink,
       OpenConnection, SendPackage, HoldPackage, ShipHeld
  <2>2. /\ <<"activate", None>> \in Work /\ <<"deactivate", None>> \in Work
        /\ \A l \in Links : <<"create", l>> \in Work
        /\ \A d \in Conns : <<"open", d>> \in Work
    BY DEF Work
  <2>3. UNCHANGED posted \/ \E v \in Work : Post(v)
    BY <1>4, <2>2 DEF Calls, ActivateChannel, DeactivateChannel, EnableChannel, DisableChannel,
       CreateLink, OpenConnection, SendPackage, HoldPackage, ShipHeld
  <2>. QED BY <1>2, <2>1, <2>3
<1>5. CASE HandlerNext
  <2>1. CASE RunOpen(c)
    <3>1. CASE Goes(HandlerThread, Reporting(c, "CLOSED", TRUE))  BY <1>1, <1>3, <3>1
    <3>2. CASE pluginConns' = [pluginConns EXCEPT
                  ![c] = IF pluginLinks[LinkOf[c]] = "up" THEN "asked" ELSE "refused"]
      <4>1. pluginConns'[c] \in {"asked", "refused"}  BY <1>1, <3>2 DEF TypeOK
      <4>. QED BY <4>1
    <3>. QED BY <2>1, <3>1, <3>2 DEF RunOpen
  <2>2. ASSUME NEW d \in Conns \ {c}, RunOpen(d)
        PROVE  IsPosted(<<"open", c>>)' \/ pluginConns'[c] \in {"asked", "refused"}
    <3>1. pluginConns'[c] = pluginConns[c]  BY <1>1, <2>2 DEF RunOpen, TypeOK
    <3>2. Takes("open", d) /\ <<"open", d>> # <<"open", c>>  BY <2>2 DEF RunOpen
    <3>. QED BY <1>1, <3>1, <3>2, PostedStays
  <2>3. ASSUME NEW op, NEW x, op # "open", Takes(op, x), UNCHANGED pluginConns
        PROVE  IsPosted(<<"open", c>>)' \/ pluginConns'[c] \in {"asked", "refused"}
    <3>1. <<op, x>> # <<"open", c>>  BY <2>3
    <3>. QED BY <1>1, <2>3, <3>1, PostedStays
  <2>4. ASSUME NEW l \in Links, RunCreate(l)
        PROVE  IsPosted(<<"open", c>>)' \/ pluginConns'[c] \in {"asked", "refused"}
    BY <2>3, <2>4 DEF RunCreate
  <2>5. ASSUME NEW op \in {"activate", "deactivate"}, RunChannel(op)
        PROVE  IsPosted(<<"open", c>>)' \/ pluginConns'[c] \in {"asked", "refused"}
    BY <2>3, <2>5 DEF RunChannel
  <2>6. ASSUME NEW d \in Conns, RunSend(d) \/ Expire(d) PROVE UNCHANGED <<pluginConns, posted>>
    BY <2>6 DEF RunSend, Expire
  <2>. QED BY <1>2, <1>5, <2>1, <2>2, <2>4, <2>5, <2>6 DEF HandlerNext
<1>6. CASE PluginNext
  <2>1. UNCHANGED posted
    BY <1>6 DEF PluginNext, LinkCreated, LinkDestroyed, UnblockQueue, ConnectionReported,
       ChannelReported, PackageReported
  <2>2. ASSUME NEW l \in Links, LinkDestroyed(l), pluginConns[c] \in {"asked", "refused"}
        PROVE  pluginConns'[c] \in {"asked", "refused"}
    BY <2>2 DEF LinkDestroyed
  <2>3. ASSUME NEW d \in Conns, NEW status \in {"OPEN", "CLOSED"}, NEW own \in BOOLEAN,
               ConnectionReported(d, status, own)
        PROVE  \/ pluginConns'[c] = pluginConns[c]
               \/ \E t \in Threads : Closing(t, c)' \/ (IsOpening(t, c)' /\ thread'[t].at = "wrapper")
    <3>1. CASE d # c  BY <1>1, <2>3, <3>1 DEF ConnectionReported, TypeOK
    <3>2. CASE d = c
      <4>1. PICK t \in Threads : Goes(t, Reporting(c, status, own))
        BY <1>1, <2>3, <3>2 DEF ConnectionReported
      <4>. QED BY <1>3, <4>1
    <3>. QED BY <3>1, <3>2
  <2>4. CASE UNCHANGED pluginConns  BY <1>2, <2>1, <2>4
  <2>5. IsPosted(<<"open", c>>) => IsPosted(<<"open", c>>)'  BY <2>1 DEF IsPosted
  <2>. QED BY <1>6, <2>2, <2>3, <2>4, <2>5 DEF PluginNext, LinkCreated, UnblockQueue,
       ChannelReported, PackageReported
<1>7. ASSUME NEW t \in Threads, ThreadStep(t) PROVE UNCHANGED <<pluginConns, posted>>
  BY <1>7 DEF ThreadStep, WrapperStep, AddConnection, RemoveConnection, TellConnection, TakeLink,
     CloseNext, RemoveLink
<1>8. CASE ShutdownNext
  <2>1. CASE PluginShutdown  BY <2>1 DEF PluginShutdown, Over
  <2>2. CASE ~PluginShutdown
    <3>1. UNCHANGED <<pluginConns, posted>>
      BY <1>8, <2>2 DEF ShutdownNext, BeginShutdown, CleanupChannels, StopHandler
    <3>. QED BY <1>2, <3>1
  <2>. QED BY <2>1, <2>2
<1>. QED BY <1>2, <1>4, <1>5, <1>6, <1>7, <1>8 DEF Next

\* Only callbacks take a request back, and they go on while others begin.
LEMMA NothingTaken ==
    ASSUME TypeInv, Next, ~\E t \in Threads : ThreadStep(t)
    PROVE  /\ handleToLink \subseteq handleToLink' /\ opening \subseteq opening'
           /\ \A c \in Conns :
                  nmConns'[c] = "asked" =>
                      \/ nmConns[c] = "asked"
                      \/ c \in handleToLink' \intersect opening' /\ IsPosted(<<"open", c>>)'
<1>1. TypeOK  BY DEF TypeInv
<1>2. ASSUME NEW d \in Conns, OpenConnection(d)
      PROVE  /\ handleToLink \subseteq handleToLink' /\ opening \subseteq opening'
             /\ \A c \in Conns :
                    nmConns'[c] = "asked" =>
                        \/ nmConns[c] = "asked"
                        \/ c \in handleToLink' \intersect opening' /\ IsPosted(<<"open", c>>)'
  <2>1. /\ handleToLink' = handleToLink \union {d}
        /\ \/ /\ state = "INITIALIZED" /\ opening' = opening \union {d}
              /\ nmConns' = [nmConns EXCEPT ![d] = "asked"]
           \/ opening' = opening /\ nmConns' = [nmConns EXCEPT ![d] = "CLOSED"]
        /\ state = "INITIALIZED" => posted' = Append(posted, <<"open", d>>)
    BY <1>2 DEF OpenConnection, Post
  <2>2. \A c \in Conns : nmConns'[c] = "asked" =>
            nmConns[c] = "asked" \/ (c = d /\ d \in opening' /\ state = "INITIALIZED")
    BY <1>1, <2>1 DEF TypeOK
  <2>3. state = "INITIALIZED" => IsPosted(<<"open", d>>)'
    <3>1. <<"open", d>> \in Work  BY DEF Work
    <3>2. ASSUME state = "INITIALIZED" PROVE \E n \in DOMAIN posted' : posted'[n] = <<"open", d>>
      BY <1>1, <2>1, <3>1, <3>2, AppendPosted
    <3>. QED BY <3>2 DEF IsPosted
  <2>. QED BY <2>1, <2>2, <2>3
<1>3. CASE ~\E d \in Conns : OpenConnection(d)
  <2>1. UNCHANGED <<handleToLink, opening, nmConns>>
    <3>1. CASE Calls
      BY <1>3, <3>1 DEF Calls, ActivateChannel, DeactivateChannel, EnableChannel, DisableChannel,
         CreateLink, SendPackage, HoldPackage, ShipHeld
    <3>2. CASE HandlerNext
      BY <3>2 DEF HandlerNext, RunOpen, RunSend, Expire, RunCreate, RunChannel
    <3>3. CASE PluginNext
      BY <3>3 DEF PluginNext, LinkCreated, LinkDestroyed, UnblockQueue, ConnectionReported,
         ChannelReported, PackageReported
    <3>4. CASE ShutdownNext
      BY <3>4 DEF ShutdownNext, BeginShutdown, PluginShutdown, CleanupChannels, StopHandler
    <3>. QED BY <3>1, <3>2, <3>3, <3>4 DEF Next
  <2>. QED BY <2>1
<1>. QED BY <1>2, <1>3

\* A callback that answers goes on until it has told the network manager.
LEMMA AnsweringStays ==
    ASSUME ConnectionsAssumption, TypeInv, Next, NEW c \in Conns, Answering(c), nmConns'[c] = "asked"
    PROVE  Answering(c)'
<1>1. TypeOK  BY DEF TypeInv
<1>2. PICK t \in Threads : Closing(t, c) \/ (IsOpening(t, c) /\ thread[t].at = "tell")
  BY DEF Answering
<1>3. thread[t].at \in {"wrapper", "sdk", "tell"} /\ thread[t].conn = c  BY <1>2 DEF Closing, IsOpening
<1>4. CASE thread'[t] = thread[t]  BY <1>2, <1>4 DEF Answering, Closing, IsOpening
<1>5. CASE Starts
  <2>1. PICK u \in Threads : /\ \A v \in Threads \ {u} : thread'[v] = thread[v]
                             /\ thread[u].at = "idle"
    BY <1>1, <1>5, Begun
  <2>. QED BY <1>3, <1>4, <2>1
<1>6. ASSUME NEW u \in Threads, ThreadStep(u) PROVE Answering(c)'
  <2>1. CASE u # t  BY <1>4, <1>6, <2>1, Steps
  <2>2. CASE u = t
    <3>1. ~TellConnection(t)
      <4>1. ASSUME TellConnection(t) PROVE nmConns'[c] = thread[t].status
        BY <1>1, <1>3, <4>1 DEF TellConnection, TypeOK
      <4>2. thread[t].status # "asked"  BY <1>1 DEF TypeOK, Callback
      <4>. QED BY <4>1, <4>2
    <3>2. thread[t].at # "tell"  BY <1>6, <2>2, <3>1, TellsMove
    <3>3. Closing(t, c)  BY <1>2, <3>2
    <3>4. WrapperStep(t) \/ RemoveConnection(t)
      BY <1>3, <1>6, <2>2, <3>1, <3>3 DEF ThreadStep, AddConnection, TakeLink, CloseNext, RemoveLink,
         Closing
    <3>5. GoesOn(t, "sdk") \/ GoesOn(t, "tell")  BY <1>6, <2>2, <3>3, <3>4, Steps DEF Closing
    <3>. QED BY <3>3, <3>5 DEF Answering, Closing, GoesOn, Becomes
  <2>. QED BY <2>1, <2>2
<1>7. CASE UNCHANGED thread  BY <1>4, <1>7
<1>. QED BY <1>1, <1>5, <1>6, <1>7, ThreadMoves

\* A request that is on its way to the plugin or back is, after a step, or ends
\* with its link, or the callback that takes it answers it.
LEMMA RequestStep ==
    ASSUME ConnectionsAssumption, CInv, LinksKnown, NEW u \in Threads, ThreadStep(u), NEW c \in Conns,
           nmConns[c] = "asked", c \in handleToLink,
           \/ \E t \in Threads : IsOpening(t, c) /\ thread[t].at = "sdk"
           \/ c \in opening /\ Requested(c)
    PROVE  \/ Ends(LinkOf[c]) \/ Answering(c)'
           \/ /\ c \in handleToLink'
              /\ \/ \E t \in Threads : IsOpening(t, c)' /\ thread'[t].at = "sdk"
                 \/ c \in opening' /\ Requested(c)'
<1>1. TypeInv /\ TypeOK /\ LinkOf[c] \in Links  BY DEF CInv, TypeInv, ConnectionsAssumption
<1>2. \A v \in Threads \ {u} : thread'[v] = thread[v]  BY <1>1, Steps
<1>3. UNCHANGED <<pluginConns, posted>>
  BY DEF ThreadStep, WrapperStep, AddConnection, RemoveConnection, TellConnection, TakeLink,
     CloseNext, RemoveLink
<1>4. thread[u].status \in {"OPEN", "CLOSED"}  BY <1>1 DEF TypeOK, Callback
<1>5. CASE AddConnection(u) /\ thread[u].conn = c
  <2>1. CASE LinkOf[c] \in linkIdToInfo
    <3>1. GoesOn(u, "tell")  BY <1>1, <1>5, <2>1, Steps
    <3>2. IsOpening(u, c)' /\ thread'[u].at = "tell"
      BY <1>5, <3>1 DEF AddConnection, GoesOn, Becomes, IsOpening
    <3>. QED BY <3>2 DEF Answering
  <2>2. CASE LinkOf[c] \notin linkIdToInfo
    BY <1>1, <2>2 DEF LinksKnown, Ends
  <2>. QED BY <2>1, <2>2
<1>6. CASE RemoveConnection(u) /\ thread[u].conn = c
  <2>1. GoesOn(u, "tell")  BY <1>1, <1>6, Steps
  <2>2. Closing(u, c)'  BY <1>6, <2>1 DEF RemoveConnection, GoesOn, Becomes, Closing
  <2>. QED BY <2>2 DEF Answering
<1>7. CASE WrapperStep(u) /\ thread[u].conn = c
  <2>1. UNCHANGED handleToLink  BY <1>7 DEF WrapperStep
  <2>2. CASE thread[u].status = "CLOSED"
    <3>1. GoesOn(u, "sdk")  BY <1>1, <1>7, <2>2, Steps
    <3>2. Closing(u, c)'  BY <1>7, <2>2, <3>1 DEF GoesOn, Becomes, Closing
    <3>. QED BY <3>2 DEF Answering
  <2>3. CASE thread[u].status = "OPEN" /\ c \in opening
    <3>1. GoesOn(u, "sdk")  BY <1>1, <1>7, <2>3, Steps
    <3>2. IsOpening(u, c)' /\ thread'[u].at = "sdk"
      BY <1>7, <2>3, <3>1 DEF GoesOn, Becomes, IsOpening
    <3>. QED BY <2>1, <3>2
  <2>4. CASE c \notin opening
    <3>1. PICK t \in Threads : IsOpening(t, c) /\ thread[t].at = "sdk"  BY <2>4
    <3>2. t # u  BY <1>7, <3>1 DEF WrapperStep
    <3>3. IsOpening(t, c)' /\ thread'[t].at = "sdk"  BY <1>2, <3>1, <3>2 DEF IsOpening
    <3>. QED BY <2>1, <3>3
  <2>. QED BY <1>4, <2>2, <2>3, <2>4
<1>8. CASE ~((AddConnection(u) \/ RemoveConnection(u) \/ WrapperStep(u)) /\ thread[u].conn = c)
  <2>1. c \in handleToLink' /\ (c \in opening => c \in opening')
    BY <1>8 DEF ThreadStep, WrapperStep, AddConnection, RemoveConnection, TellConnection, TakeLink,
       CloseNext, RemoveLink
  <2>2. ASSUME NEW t \in Threads, IsOpening(t, c), thread[t].at \in {"wrapper", "sdk"}
        PROVE  IsOpening(t, c)' /\ thread'[t].at = thread[t].at
    <3>1. t # u
      BY <1>8, <2>2 DEF IsOpening, ThreadStep, TellConnection, TakeLink, CloseNext, RemoveLink
    <3>. QED BY <1>2, <2>2, <3>1 DEF IsOpening
  <2>3. IsPosted(<<"open", c>>) => IsPosted(<<"open", c>>)'  BY <1>3 DEF IsPosted
  <2>4. Requested(c) => Requested(c)'
    <3>1. ASSUME NEW t \in Threads, IsOpening(t, c), thread[t].at = "wrapper" PROVE Requested(c)'
      BY <2>2, <3>1 DEF Requested
    <3>. QED BY <1>3, <2>3, <3>1 DEF Requested
  <2>. QED BY <2>1, <2>2, <2>4
<1>. QED BY <1>5, <1>6, <1>7, <1>8

LEMMA AnswerComesStep ==
    ASSUME ConnectionsAssumption, AInv, LinksPast, LinksKnown, AnswerComes, Next
    PROVE  AnswerComes'
<1>1. CInv /\ TypeInv /\ TypeOK /\ GoneLast /\ \A c \in Conns : LinkOf[c] \in Links
  BY DEF AInv, CInv, TypeInv, ConnectionsAssumption
<1>2. SUFFICES ASSUME NEW c \in Conns, nmConns'[c] = "asked"
               PROVE  \/ Over' \/ Ends(LinkOf[c])' \/ Answering(c)'
                      \/ /\ c \in handleToLink'
                         /\ \/ \E t \in Threads : IsOpening(t, c)' /\ thread'[t].at = "sdk"
                            \/ c \in opening' /\ Requested(c)'
  BY DEF AnswerComes
<1>3. CASE nmConns[c] # "asked"
  <2>1. ASSUME NEW t \in Threads, ThreadStep(t) PROVE nmConns'[c] # "asked"
    BY <1>1, <1>3, <2>1 DEF ThreadStep, WrapperStep, AddConnection, RemoveConnection,
       TellConnection, TakeLink, CloseNext, RemoveLink, TypeOK, Callback
  <2>2. c \in handleToLink' \intersect opening' /\ IsPosted(<<"open", c>>)'
    BY <1>1, <1>2, <1>3, <2>1, NothingTaken
  <2>. QED BY <2>2 DEF Requested
<1>4. CASE Over  BY <1>1, <1>4, ShutdownMoves
<1>5. CASE Ends(LinkOf[c])  BY <1>1, <1>5, EndsStays
<1>6. CASE Answering(c)  BY <1>1, <1>2, <1>6, AnsweringStays
<1>7. CASE /\ nmConns[c] = "asked" /\ c \in handleToLink
           /\ \/ \E t \in Threads : IsOpening(t, c) /\ thread[t].at = "sdk"
              \/ c \in opening /\ Requested(c)
  <2>1. ASSUME NEW u \in Threads, ThreadStep(u)
        PROVE  \/ Ends(LinkOf[c]) \/ Answering(c)'
               \/ /\ c \in handleToLink'
                  /\ \/ \E t \in Threads : IsOpening(t, c)' /\ thread'[t].at = "sdk"
                     \/ c \in opening' /\ Requested(c)'
    BY <1>1, <1>7, <2>1, RequestStep
  <2>2. CASE ~\E t \in Threads : ThreadStep(t)
    <3>1. c \in handleToLink' /\ (c \in opening => c \in opening')
      BY <1>1, <1>7, <2>2, NothingTaken
    <3>2. ASSUME NEW t \in Threads, IsOpening(t, c), thread[t].at \in {"wrapper", "sdk"}
          PROVE  IsOpening(t, c)' /\ thread'[t].at = thread[t].at
      <4>1. CASE UNCHANGED thread  BY <3>2, <4>1 DEF IsOpening
      <4>2. CASE Starts
        <5>1. PICK u \in Threads : /\ \A v \in Threads \ {u} : thread'[v] = thread[v]
                                   /\ thread[u].at = "idle"
          BY <1>1, <4>2, Begun
        <5>. QED BY <3>2, <5>1 DEF IsOpening
      <4>. QED BY <1>1, <2>2, <4>1, <4>2, ThreadMoves
    <3>3. CASE \E t \in Threads : IsOpening(t, c) /\ thread[t].at = "sdk"
      BY <3>1, <3>2, <3>3
    <3>4. CASE c \in opening /\ Requested(c)
      <4>1. CASE \E t \in Threads : IsOpening(t, c) /\ thread[t].at = "wrapper"
        <5>1. Requested(c)'  BY <3>2, <4>1 DEF Requested
        <5>. QED BY <3>1, <3>4, <5>1
      <4>2. CASE IsPosted(<<"open", c>>) \/ pluginConns[c] \in {"asked", "refused"}
        <5>1. Over' \/ Answering(c)' \/ Requested(c)'
          BY <1>1, <4>2, RequestGoesOn DEF Answering, Requested
        <5>. QED BY <3>1, <3>4, <5>1
      <4>. QED BY <3>4, <4>1, <4>2 DEF Requested
    <3>. QED BY <1>7, <3>3, <3>4
  <2>. QED BY <1>1, <2>1, <2>2, EndsStays
<1>. QED BY <1>3, <1>4, <1>5, <1>6, <1>7 DEF AnswerComes

VInv == SInv /\ LinksPast /\ LinksKnown /\ AnswerComes

LEMMA VInvInit == ASSUME ConnectionsAssumption, Init PROVE VInv
<1>1. SInv  BY SInvInit
<1>2. Idle.link = None /\ Idle.rest = {} /\ None \notin Links
  BY DEF Idle, ConnectionsAssumption
<1>3. \A l \in Links : ~Ends(l) /\ l \notin channelLinks
  BY <1>2 DEF Init, Ends, IsDestroying
<1>4. LinksPast  BY <1>3 DEF LinksPast
<1>5. LinksKnown /\ AnswerComes  BY DEF Init, LinksKnown, AnswerComes
<1>. QED BY <1>1, <1>4, <1>5 DEF VInv

LEMMA VInvStep ==
    ASSUME ConnectionsAssumption, Orderly, VInv, [Next]_vars
    PROVE  VInv'
<1>1. SInv' /\ AInv /\ CInv /\ TypeInv  BY SInvStep DEF VInv, SInv, AInv, CInv
<1>2. CASE Next
  BY <1>1, <1>2, LinksPastStep, LinksKnownStep, AnswerComesStep DEF VInv
<1>3. CASE UNCHANGED vars
  <2>1. /\ UNCHANGED <<thread, posted, pluginLinks, pluginConns, nmLinks, nmConns, channelLinks>>
        /\ UNCHANGED <<linkIdToInfo, handleToLink, opening, shutdowns>>
    BY <1>3 DEF vars
  <2>2. LinksPast' /\ LinksKnown'
    BY <2>1 DEF VInv, LinksPast, LinksKnown, Ends, IsDestroying, LinkPast, IsPosted
  <2>3. AnswerComes'
    BY <2>1 DEF VInv, AnswerComes, Over, Ends, IsDestroying, Answering, Closing, IsOpening,
       Requested, IsPosted
  <2>. QED BY <1>1, <2>2, <2>3 DEF VInv
<1>. QED BY <1>2, <1>3

LEMMA VInvSuffices == ASSUME ConnectionsAssumption, VInv PROVE NmViewRight
<1>1. SUFFICES ASSUME NEW c \in Conns, nmConns[c] = "asked" PROVE Owed(c)
  BY DEF VInv, SInv, ViewOfOpen, NmViewRight
<1>2. CASE Over  BY <1>2 DEF Over, Owed
<1>3. CASE Ends(LinkOf[c])  BY <1>3 DEF Ends, Owed
<1>4. CASE \E t \in Threads : thread[t].conn = c /\ thread[t].at # "idle"  BY <1>4 DEF Owed
<1>5. CASE Answering(c) \/ \E t \in Threads : IsOpening(t, c) /\ thread[t].at \in {"wrapper", "sdk"}
  BY <1>4, <1>5 DEF Answering, Closing, IsOpening
<1>6. CASE IsPosted(<<"open", c>>) \/ pluginConns[c] \in {"asked", "refused"}
  <2>1. handler = "STOPPED" => Over  BY DEF VInv, SInv, AInv, GoneLast, Over
  <2>. QED BY <1>2, <1>6, <2>1 DEF IsPosted, Owed
<1>. QED BY <1>1, <1>2, <1>3, <1>5, <1>6 DEF VInv, AnswerComes, Requested

\* Callbacks of one plugin answer from any thread and hold no lock from the SDK to
\* the network manager, yet what RaceSdk::onConnectionStatusChanged tells it last
\* is what the SDK knows, and no openConnection is left without an answer: with a
\* plugin that keeps the order Orderly asks for.
THEOREM ViewCorrect == Orderly => (Spec => []NmViewRight)
<1>1. Init => VInv  BY ConnectionsAssumption, VInvInit
<1>2. Orderly /\ VInv /\ [Next]_vars => VInv'  BY ConnectionsAssumption, VInvStep
<1>3. VInv => NmViewRight  BY ConnectionsAssumption, VInvSuffices
<1>4. SUFFICES ASSUME Orderly PROVE Spec => []NmViewRight  OBVIOUS
<1>5. VInv /\ [Next]_vars => VInv'  BY <1>2, <1>4
<1>. QED BY <1>1, <1>3, <1>5, PTL DEF Spec

=============================================================================
