# RACE core: a TLA+ development

This directory specifies the core of the RACE SDK (`src/racesdk/core`) and the routing of its
network manager plugins (`src/plugin-network-manager-twosix-cpp`), checks the specifications with
TLC on small instances, and proves theorems about them with TLAPS for every value of their
constants. Every action is translated from the C++ source;
`PROJECT.json` maps each definition to the lines it stands for.

## 1. The system

RACE sends messages between nodes through exchangeable *plugins*: a network manager plugin
decides what is sent to whom, comms plugins move packages over channels, artifact managers fetch
files. The SDK sits in between. Each plugin is driven by a *wrapper* that owns a **Handler**: a
work thread with named, prioritised queues, so that a plugin that is slow, blocked or broken
cannot hold up its callers. Calls from the application and from plugins arrive on arbitrary
threads, go through `RaceSdk` (which keeps links, connections, channels and bootstraps, under
its own locks) and end as work posted to another wrapper's Handler.

| component | state it keeps | operations | what is hard | what makes it correct |
|---|---|---|---|---|
| **Handler** (`Handler.h/.cpp`) | queues by name and by priority level, flags, counters, iterators, timed work, state | post, create/remove/unblock queue, start, stop, stop_immediate; work thread; timeout thread | callbacks run unlocked while lists and counters change; counters stand for scans; expiry races execution; stops race everything | counters tell the truth, FIFO and priority order, no lost unblock or wake-up, told of the timeout or run but not both, stops that wait and return |
| **Send path** (`CommsWrapper`, `RaceSdk::send*/ship*`, `RaceLinks`) | connections, package handles, per-connection timeouts, two reader-writer locks | open/close connection, sendPackage, status callbacks | callbacks from plugin threads; locks held across blocking posts; a connection closed with packages queued | one final status per package, a queue per open connection, no deadlock |
| **BootstrapManager/Thread** | list of bootstraps with their state and handles | start, link created, NM ready, connection opened/closed, package received, cancel | every event from another thread, in any order, some twice | one final callback, only from a legal state, nothing left behind |
| **VoaThread** | priority queue by hold time, rules | process, rules, stop | the head is run unlocked, then "the head" is popped | each item once, not early |
| **RaceChannels** | status and role of each channel | activate, update, roles | status updates in any order | no two active channels share a mechanical tag |
| **decomposed comms** | actions, packages and fragments, lifetimes of three components | timeline updates, send, receive, activate | fragments reordered or lost, actions cancelled while encoding, pointers between managers | every package ends once and truly, only whole packages are handed up |
| **network manager routing** | memories of messages (`staleUuids`, `floodedUuids`, `seenMessages`), ranked connections, what to send again | message submitted, package received, package failed, connection opened/closed | copies by rings, committees and resends; memories that forget; late failures of packages that arrived | copies die out, each message is presented once, none vanishes silently |
| **NMWrapper, AppWrapper, shutdown** | a Handler each, user-input handles | post to plugin; shutdown | order of shutdown across threads | no post after stop, shutdown ends |
| RaceConfig, helper, artifact manager, plugin loading, test harness | configuration, files | parse, load, fetch | I/O only | not modelled |
| plugins, daemon, registry, apps, utilities | outside the SDK | | | environment |

The hazards the code is exposed to, each at its line, are in `PROJECT.json` under `hazards`.

## 2. Handler

### Correspondence

`Handler.tla` has one variable per data member of `Handler` (the flags of work and queues become
sets, `timeoutQueue` and `timedOutQueue` sets of work), plus the position of each thread. Every
action is one critical section of `data_mutex`; the callback, which runs with no lock, is an
action of its own, so every other thread can step before, during and after it.

| actions | code |
|---|---|
| `PostBegin`, `PostFails`, `PostWaits`, `PostWakes`, `PostInserts` | `post`: the checks before the lock (with its only look at `state`), then the condition of `post_signaler`, then the insertion |
| `Start`, `CreateQueue`, `RemoveQueue`, `UnblockQueue` | the functions of those names |
| `WorkUnblocks`, `WorkExits`, `RemoveTimedOut`, `RunWork`, `RemoveQueueInternal` | one turn of `runWorkThread`, in its order of precedence; `IsNext` is `get_next_queue_with_work` with both its loops |
| `WorkIsLost` | that function never ending, or starting from an iterator that `clear` destroyed |
| `Callback`, `PopQueue`, `BlockQueue` | the unlocked callback and what follows it |
| `TimerExpires`, `TimerExits` | `runTimeoutThread` |
| `StopBegins`, `StopImmediateBegins`, `Joins`, `JoinTimesOut`, `Clear` | `stop`, `stop_immediate`, the two joins with their five seconds, `clear` |
| `ResourceChanges` | the environment: what makes callbacks on a queue fail comes and goes; whoever brings it back owes an `unblock_queue` |

Abstractions: a deadline is not a number (any work that has one may expire at any pass of the
timeout thread, which includes every real timing); an id of a work is used again after that work
is over; `total_work`, which nothing reads, and the futures of the callers are left out; the
condition variables of the two threads are their guards (each notify of the code is made under
the lock by the action that makes a guard true; a wake-up with nothing to do changes nothing).
`size_t` counters keep their width: they live in `0 .. SizeMod-1` and wrap.
`unblock_list` is a set: unblocking a queue twice in one pass does what doing it once does.
When the code's loops would run for ever or touch destroyed memory, `worker` becomes `"spin"` or
`"undefined"`; the first keeps `data_mutex`, the second and `std::terminate` end the behaviour.
Such final states are why deadlock is not checked.

`HandlerContract.tla` is what the header promises callers, with three variables: FIFO queues,
one running work taken from the front of an unblocked queue that no queue of higher priority with
work precedes, and four ways for work to end. `Handler` implements it under the refinement
`pending <- queue, running <- cur`.

### Runs

| run | instance | shows |
|---|---|---|
| `handler` | 3 works of sizes 2, 1, 1 (one with a deadline, one patient) on 2 levels, limits 2 and 3; a blocking queue; one stopping thread; `SizeMod` 8 | counters, flags, order, wake-ups, unblocks, expiry, stop, and the refinement, under the callers' discipline of section 3 |
| `handler_open` | 2 works, 2 queues of one level, any work anywhere, queues marked twice, two stops at once, `SizeMod` 7 | lists and sizes are right even when the counters are not |
| `handler_live` | 2 works that refill one queue and one work on a blocking queue of the same level | service and termination under fairness |
| `handler_expiry` | 1 work, 2 queues | the counters wrap: expiry in a blocked queue (finding) |
| `handler_stops` | 2 works, 2 queues, 2 stopping threads | `clear` under a running callback (finding) |

Bounds. Three works are enough for a queue with two and another with one, for one waiting while
two fill the handler, and for one to expire while another runs; two levels, or two queues of a
level, exercise each of the two loops of the scheduler; queue names are created again after
removal; a work is posted again without limit. `SizeMod` 7 or 8 is larger than twice the limits
and than the number of works, as `SizeAssumption` asks (a 64-bit `size_t` is), so that a wrap is
always an error and never a coincidence. `MarkBound` is the only bound in a guard: it caps how often
a queue already marked is removed again.

Fairness (`FairSpec`): the work thread, the timeout thread's exit, `start`, the posting threads
inside `post`, whoever owes an `unblock_queue`, and a stopping thread are weakly fair. The
code justifies it: each is a thread that is runnable whenever its guard holds, and callbacks are
assumed to end. No new post, no deadline, no resource and no stop is forced, and a join may always
time out. `Served` asks for it only if the resource stays; `StopReturns` only if `unblock_queue` is
not called without end, because the work thread serves `unblock_list` before it looks at the state.

## 3. What the code silently needs

`CountersExact` (`UnblockedExact` and `MarkedExact`), `WorkerNotLost`, `ClearedAfterWork` and the refinement hold under
a discipline of the callers that nothing in the code enforces:

1. work with a deadline is not posted to a queue whose callbacks may block (the `Timed` works'
   `Targets` avoid `MayBlock`). Otherwise `remove_work_internal` takes work out of counters that
   a blocked queue had left: run `handler_expiry`. The wrappers of comms plugins do post such
   work: `sendPackage` has a deadline when the connection has a send timeout, and `PLUGIN_TEMP_ERROR`
   blocks the queue;
2. `remove_queue` is not called on a queue already marked (`MarkBound = 0`). Otherwise
   `total_marked` counts it twice and the scheduler looks for ever for the second one;
3. no `stop` or `stop_immediate` begins while another is in progress (`SerialStops`). Otherwise the
   second one clears the lists under the work thread: run `handler_stops`.

Two more facts the model shows and no property demands: a post that read the state before a stop
inserts its work after `clear`, gets `OK`, and the work never runs; `clear` does not wake
posters that wait for room.

## 4. VoaThread

When "voice of adversary" rules are enabled, `RaceSdk::sendEncryptedPackage` may drop, delay,
corrupt or replay a package. `VoaThread` holds the copies in a priority queue by time, and its
thread ships each (`RaceSdk::shipPackage`) when it is due.

### Correspondence

`VoaThread.tla` has the clock in seconds, the queue as the set of its items with its `top`, the time
each item is due, what each sender of a package is doing, the thread's position and the item it
copied, and the stopping threads. Two variables are history: `ran` counts callbacks, and `overtaken`
says that an item was pushed while the callback of one due later was running.

| actions | code |
|---|---|
| `GetsQueue` | `sendEncryptedPackage` up to `getVoaPkgQueue`: times are computed from the clock with no lock of the thread |
| `TurnedAway`, `Process` | `shipVoaItems` (which looks at `isShuttingDown` once) and `process` |
| `Waits`, `TimesOut`, `SpuriousWakeUp`, `GoesBack` | the two waits of `runVoaThread`, their ends, and the two `continue`s |
| `TakesItem`, `Callback`, `Pop` | the copy of `top()`, the unlocked callback, and `pop()` under the lock again |
| `StartThread`, `Exits`, `ShutdownBegins`, `StopThread`, `JoinTimesOut` | `startThread`, the two looks at the state, `cleanShutdown` and `stopThread` with its join of five seconds |
| `Tick` | time passes |

Abstractions: which rule applies to a package is a choice, given by `Copies` (2 or more for
"replay") and `Holds` (0 for "tamper"); a dropped package never reaches the queue and is left out;
what a copy holds is left out, so "tamper" is a delay of 0. A heap is a set with a top: an item stays
on top when another with the same time is pushed, and after a pop any that is first may be next.
The clock does not go back, although `system_clock` may. `VoaConfig`'s rule state is not modelled.

### Runs

| run | instance | shows |
|---|---|---|
| `voa_thread` | 3 packages, one replayed; holds 0 to 2, instants 0 to 2; one stop; fairness | types, never early, in order, each copy once until one is overtaken, nothing after the stop; one item is removed per callback, and what is lost is lost in exchange for a second run of an item due later; what is pushed is delivered, and the stop ends; 0.5 million states |
| `voa_copies` | 2 packages, one replayed; instants 0 to 3; no stop | the lost package (finding) |

`MaxTime` bounds the clock: a copy whose time would be later is not sent. Three instants and holds of
0, 1 and 2 let an item be due before, at and after another that was pushed earlier, and let the clock
pass a deadline while the thread is waiting for another; three packages with four copies are one
to run, one to overtake it and two behind. The stopped thread may stop for good with nothing to do,
hence deadlock is not checked.

Fairness: the clock, the thread (callbacks end) and a stop that has begun. A spurious wake-up
is never counted on: `Delivered` rests on `notify_one`.

What the code silently needs: `ExactlyOnce` and `Delivered` hold until an item is pushed, while a
callback runs, that is due before the item being run (`overtaken`). The code does not exclude it: two senders read the clock and call `process` in either order, so
an item that is due earlier may come later; a package to be tampered with, or the first copy of a
replay, is due at the time the sender read, which may lie before that of the item that is running. Run
`voa_copies` shows what then happens. `StoppedForGood` needs a single thread that shuts down: a
second `stopThread` finds `STOPPED` and returns while the first is joining.

## 5. Bootstrap

A node introduces a new one: the application asks for it, a comms plugin makes a link, the network
manager writes configurations, a thread bundles files and has the plugin serve them, the plugin opens
a connection on which the new node's package arrives, and the connection is closed again. Every step
is answered on some other thread, or fails, or is cancelled.

### Correspondence

`Bootstrap.tla` has the fields of `BootstrapInfo` that steer this as functions of the bootstrap, the
vector of pending ones as a set and an `age`, the queue of `BootstrapThread` with the position in
its one long task, the directories, and what the plugin and `RaceLinks` know of links and
connections. `told`, `accepted` and `closing` are history: what the network manager heard, and what
became of the request to close.

| actions | code |
|---|---|
| `PrepareToBootstrap`, `CancelBootstrap` | the application's calls |
| `LinkCreated`, `LinkDestroyed` | `RaceSdk::onLinkStatusChanged` and what the manager does with it |
| `BootstrapDevice`, `BootstrapFailed` | the network manager's answers |
| `PluginOpens`, `PluginRefuses`, `PluginCloses`, `PluginClosesOnItsOwn`, `AnotherConnectionCloses` | the plugin's calls of `RaceSdk::onConnectionStatusChanged`, up to where it tells the manager; the last two come with the null handle, as the plugins of the repository send them |
| `OnConnectionStatusChanged` | the manager's part, later: a package may arrive in between |
| `OnReceiveEncPkg` | a package of the SDK on the connection |
| `FetchArtifacts`, `StartBundling`, `Bundled`, `SeesCancelled`, `BundlingFails`, `OpenConnection`, `RemoveFiles` | the three kinds of tasks of the thread, with the first look at `CANCELLED`, before the bundle is made, and the last, before the connection |
| `Ends`, `Cleanup`, `CloseConnection` | `removePendingBootstrap` as every one of these calls makes it |

A call of the manager is one action because it holds `bootstrapLock` from end to end and posts only
work of size 0, for which `Handler::post` never waits. The state is read without the lock by the
thread, between actions.

Abstractions: file operations, artifacts and channels succeed or fail; a look at `CANCELLED` in
between may come at any time while the thread is "bundling"; device information that is not valid, a
corrupt package and a copy of the network manager's files that fails change nothing and are no
actions (the last leaves its bootstrap waiting). The bundle and the request to serve it are one step.
Shutdown of the SDK, and exceptions of the file system in a task, which nothing catches and which end the
process, are left out.

### Runs

| run | instance | shows |
|---|---|---|
| `bootstrap` | 2 bootstraps, every event, fairness of the thread | the seven properties; 0.25 million states |
| `bootstrap_null` | the same | a stranger's status ends a bootstrap (finding) |

Two bootstraps are enough for what they share: the thread and its queue (one ends while the other's
files are bundled) and the search by handle (which of two is found). The model has no other bounds:
everything that counts is bounded by the code. Deadlock is checked, but shows nothing here: another
connection may always close.

Fairness is assumed of the thread only: its tasks return (they call `tar` and plugins). No liveness of the
end of a bootstrap is claimed, because the code has no time limit on any of its waits.

### What the run shows beside its properties

- A bootstrap that is cancelled while its connection is open has state `CANCELLED` only until
  `closeBootstrapConnection` sets `WAITING_FOR_CONNECTION_CLOSED`: the network manager has been told
  "cancelled" by then, the user is told "failed".
- The thread goes on for a bootstrap that failed, and for one cancelled after its last look: it
  opens a connection whose status no longer finds a bootstrap and which nobody closes.
- A second package, before the connection of the first is closed, fails a bootstrap whose persona
  was introduced. `BootstrapManager.h` names no such transition.
- A corrupt package is ignored; `BootstrapManager.h:82` says that it fails the bootstrap.

## 6. Packages

A *decomposed* comms channel is three plugins (user model, transport, encoding) under a
`ComponentManager`. The user model says at what times the transport may act; the managers cut
packages into fragments, plan each into an action of its link, have actions encoded shortly before
their time, do them, count the reports, and join fragments at the other end. Planning starts
again whenever the timeline changes or a package fails.

### Correspondence

`Packages.tla` has the timeline with the state of each action, the queues of actions and of packages
of each link, the fragments of each package with their states, what is at the encoder and at the
transport, and, at the other end, one `ProducerQueue` per link.

| actions | code |
|---|---|
| `FetchTimeline` | `ComponentActionManager::fetchTimeline` with `updateLinkTimelines` and `generateFragmentsForAllPackages` |
| `SendPackage` | `ComponentManagerInternal::sendPackage`: the user model's reaction, `isPackageAbleToFit`, `generateFragmentsForPackage` |
| `EncodeActions`, `OnBytesEncoded` | `encodeActions`, `encodeForAction`, `onBytesEncoded` |
| `DoAction`, `OnPackageStatusChanged` | `doAction`, the transport's reports, `onPackageStatusChanged` of the package manager and the replanning after a failure |
| `OnLinkCreated`, `OnLinkDestroyed` | the three managers' `onLinkStatusChanged`, in the order in which they are called |
| `Receive` | `ComponentReceivePackageManager::receiveFragmentProducer` |
| `Tick`, `Fault` | the clock; a wire that loses, repeats or puts last |

An action is one critical section of `dataMutex`, or a step of the transport, of an encoder or of
the wire. Abstractions: bytes are lengths and offsets (the room of an action is `maxBytes` less
the overhead and the length field of a fragment, as in the code); one encoding per action and one
producer; a call reads the clock just after the instant `now`. `ComponentManager` runs the managers
in mode `FRAGMENT_SINGLE_PRODUCER`; the batch mode and several producers are left out. A handle
of a fragment is used again once nothing refers to it. The code's two planning loops are functions of
the number of rounds done: `fill` over the actions of a link (`generateFragmentsForPackage`) and
`assigned` over the turns of the packages of all links (`generateFragmentsForAllPackages`).

### Properties

- `PlanSound`: no byte of an accepted package is forgotten, and no pointer of one manager leads to what
  another has deleted;
- `ReportedOnce`: the SDK hears of a package at most once, and never of one still queued;
- `ReceivedWhole`: the receiving end hands up nothing but whole packages (`NeverGarbled`), and each
  package reported as sent, once its link is drained and unless the wire went wrong (`SentArrives`);
- `BlockedOnlyWhenFull`: a connection is held back only while no action of its link that can still be
  planned has room.

### Run

`packages`: two links (one is created late, both may be destroyed), three scheduled actions (one for
any link) and one the user model may add on a send, three packages of which one needs two actions,
one change of the timeline, one fault of the wire, one failed encoding or action, eight instants;
1.3 million states. Three actions are what it takes to have one past its encoding, one that can still be planned and one
added in between; two fragments are what it takes to join wrongly; one failure starts every replanning, and
the second would only replan what the first left. `MaxTime`, `MaxFetches`, `MaxFaults` and
`MaxFailures` are the bounds in guards. Deadlock is not checked: the timeline ends.

### What the code silently needs

The properties hold under four orders that the code relies on and does not enforce. Each is a constant;
each was set to `FALSE` to see what depends on it:

- `Punctual`: the action thread encodes before the clock moves on. Otherwise actions are encoded out
  of order or not at all, and fragments are planned into actions already past:
  `PointersLive` fails, and `NeverGarbled` with it, because the receiver drops the *first* piece of what it
  gets after a gap (`ComponentReceivePackageManager.cpp:164-190`), whether or not it is the
  continuation of something.
- `Spaced`: actions are at least `maxEncodingTime` apart. Otherwise an action is gone over twice
  (`ComponentActionManager.cpp:396`) and its link's `fragmentCount` grows twice; the receiver sees a
  gap and drops a package reported as sent (`SentArrives`).
- `InTurn`: a user model adds an action on a send only when what is queued on that link goes out
  before. Otherwise the new package overtakes in the middle of one
  (`ComponentPackageManager.cpp:458` against `ComponentManager.cpp:467`), which the receiver then drops.
- `Careful`: no link is created while an action for any link is in the timeline, none is destroyed
  while such an action carries another link's fragments
  (`ComponentPackageManager.cpp:309-315` clears them all), and no package fails while a fragment of it is at
  the encoder or the transport (`:375` takes the front of a deque that is then empty). Otherwise pointers
  dangle.

Seen on the way, with no property: `std::set(begin, begin)` at `ComponentActionManager.cpp:89-90` is
empty, whatever was meant; the comment at `ComponentManagerTypes.h:210-213` that the pointer is not
used after the action is done is not true of `doAction`; the destruction of a link nobody knows makes
the channel fail (`ComponentLinkManager.cpp:91`).

## 7. Connections

The network manager asks for channels, links and connections and sends packages on them; `RaceSdk`
notes the request and posts it to the plugin's wrapper, whose handler calls the plugin. The plugin answers
later, from any thread. Its callback changes the wrapper, then `RaceLinks` and `RaceSdk`, then tells
the network manager, and no lock spans two of these steps.

### Correspondence

`Connections.tla` has the members of `RaceSdk`, `RaceLinks`, `RaceChannels` and `CommsWrapper`
that these calls touch, the handler's queues, where each thread is in its callback, what the plugin
has, what the network manager was last told, and, as history, which packages were accepted and
which were reported.

| actions | code |
|---|---|
| `ActivateChannel`, `DeactivateChannel`, `EnableChannel`, `DisableChannel`, `CreateLink`, `OpenConnection` | the functions of those names, up to the post |
| `SendPackage`, `HoldPackage`, `ShipHeld` | `sendEncryptedPackage`, at once or through the VoA thread, and `shipPackage` |
| `RunOpen`, `RunCreate`, `RunChannel`, `RunSend`, `Expire` | the handler thread in the plugin, with each `PluginResponse`, and an expired send |
| `UnblockQueue`, `LinkCreated`, `LinkDestroyed`, `ConnectionReported`, `ChannelReported`, `PackageReported` | the plugin's calls of the SDK |
| `WrapperStep`, `AddConnection`, `RemoveConnection`, `TellConnection` | `CommsWrapper::onConnectionStatusChanged`, then `RaceSdk::onConnectionStatusChanged` lock by lock |
| `TakeLink`, `CloseNext`, `RemoveLink` | the links of a lost channel or of a destroyed link, with their connections |
| `BeginShutdown`, `PluginShutdown`, `CleanupChannels`, `StopHandler` | `shutdownPluginAsync`, after a fatal answer of the plugin |

Abstractions: a connection stands for its handle too (both are new for each request); a created link
is noted and reported in one step; posts never wait (`RACE_UNLIMITED` or a timeout of 0, as
the network managers of the repository send); a second fatal answer is not followed (the first is, to
the end); `closeConnection` and `destroyLink` only post a call that asks the plugin for what it may do
unasked. One plugin, one channel.

### Run

`connections`: one link, two connections with a send timeout, two packages, one thread of the plugin
beside the handler's and the one that shuts down, two channel calls, queues of one package;
4.3 million states, with symmetry among connections and packages (no liveness is checked with
it). Two connections are what a lost link must close one after the other while the other still changes; two
packages fill a queue or share a connection; three threads are the one that closes, the one that
opens, and the one that destroys. `MaxQueued` is the wrapper's limit, `MaxChannelCalls` the only
bound. Deadlock is not checked: after the shutdown nothing is left to do.

What the code silently needs (`Orderly`): the plugin reports a connection as open, and that call returns, before
it is reported closed, its link destroyed or the plugin shut down. With `Orderly = FALSE`, `NmViewRight`
fails: a connection opens after those of a link were listed and before the link is removed
(`RaceSdk.cpp:1731`), vanishes, and nobody is told.

What the run shows beside its properties: an expired or closed connection's packages may be reported
as failed although the plugin goes on to send them; nothing checks that a package is reported once
(`PackagesCovered` asks for at least once); a package stays cached although `sendPackage` refused
it; a wrapper that is shutting down leaves an activated channel `STARTING`; a channel disabled
while `STARTING` becomes disabled by the answer `AVAILABLE`. `RaceLinks.cpp:61` keeps
the request of a created link, and `CommsWrapper.cpp:1465` erases a timeout without the mutex of that map; a
data race on a `std::unordered_map` has no set of outcomes to model.

## 8. Routing

The network manager plugins route: a client multicasts to its entrance committee; the servers of a
committee pass a message around their rings; where it has gone round, a server hands it to the client
it is for, or sends it to other committees it reaches, and asks the rest of the ring to do so
for theirs; the client presents it. Copies are everywhere: several rings, several servers, committees in
cycles, and packages sent again because the SDK reported them as failed.

### Correspondence

| actions | code |
|---|---|
| `SubmitMessage` | `PluginNMTwoSixClientCpp::processClrMsg`, `sendMulticastMsg` and the sends one by one that replace it |
| `Deliver` (`StartRing`, `ContinueRing`, `EndRing`, `Present`) | `processEncPkg` on a server, up to `routeMsg` and its helpers, and on a client, `handleReceivedMsg` |
| `PackageFails` | `onPackageStatusChanged`, the resend with the next rank |
| `ConnectionClosed`, `ConnectionOpened` | `handleConnectionClosed` and the replacement of the connection |

A callback is one step: each plugin runs on the one thread of its handler. A step may send several
packages, and the SDK may refuse each; `Transmit` tries the next connection as `sendFormattedMsg` does.
A package that was delivered may still be reported as failed (`late`). The memories of messages are
sequences, trimmed as the code trims them: with the small limits of the run they do forget.

Abstractions: a connection is its place in the ranked list, so that a list is its length; an
unordered map's loop picks any set of committees; encryption, personas, link selection, hints,
readiness, receive connections, link and bootstrap messages and the tracking of message status are left out; each
message is submitted once.

### Run

`routing`: two clients, four servers in three committees (one a ring of two) that can send to each
other in cycles, two messages in opposite directions, `FloodingFactor` 2, limits of the memories 0 or 1,
one refusal, failure (early or late) or closed connection anywhere; 0.3 million states.
`MaxFaults` is the only bound in a guard. One fault already doubles a message at any point of its way;
a ring of two and a cycle of committees are where a message could travel for ever.
`RoutingAssumption` says what configurations satisfy; its last line excludes a `maxStaleUuids` so large against
`maxFloodedUuids` that the trim of `floodedUuids`, which uses the wrong limit
(`PluginNMTwoSixServerCpp.cpp:420`), would go past the end.

Fairness (`FairSpec`): packages are delivered or reported as failed in the end; no failure and no
submission is forced. `Settles` asks only for what that gives: a message is presented unless some
send of it was given up.

What the run shows beside its properties:

- a server marks a message as stale before its copy has gone round, so that where the first copy is
  lost, none of the later ones goes on (`:463`); here the message counts as given up;
- when `maxFloodedUuids` is smaller than the number of messages travelling, two of them may evict
  each other and circulate for ever: the limits of the run are just large enough;
- the flooding factor may be exceeded, as the comment at `:581` allows;
- a resend whose rank lies past the end of the list is tried on one connection only and then given up;
- `ClearMessagePackageTracker` never hears of multicast packages, nor of the new handle of a resend.

## 9. Proofs

`DataLemmas.tla` holds what several components need of finite sets: a set of naturals has a least element, a
bounded one a greatest, and the sum of a function over a finite set (`MapThenSumSet` of the community
modules, a fold) adds up: `SumIsMap`, `SumAdd`, `SumTake`, `SumChange`. The prover cannot instantiate the
induction theorems of its library, so induction over finite sets takes the form of a least
counterexample (`LeastSubset`), and the sum is first characterised by the functions on subsets that obey its
equation (`Sums`), of which there is exactly one. It also has what a loop along `0 .. n` computes, and a sequence that
loses one element.

### Handler

`HandlerProofs.tla` proves, for all works, queues, priorities, sizes, limits and callers, from
`QueuesAssumption` and `SizeAssumption` only:

- `TypeCorrect`: `Spec => []TypeOK`;
- `ListsCorrect`: `Spec => []ListsOK`.

The two need each other: popping is only typed because the running work is in a list, and the lists
are only right because what is put in them has its type. The inductive invariant is
`IInv == TypeOK /\ ListsOK /\ NotStarted`; the last part (no thread before `start`) is what makes
`start` safe. The argument:

1. lemmas about a sequence that lists a set without repetition: append, tail, removal, position
   and successor, length;
2. types, one step per action;
3. every step is *quiet* (the lists, the placed work and the running work stay) or one of eight
   actions (`StepShape`); quiet steps preserve `ListsOK` together, each of the eight has its
   proof, `RemoveTimedOut` and `PopQueue` through the common `ListsTakenOut`;
4. `IInvInit`, `IInvStep` and PTL.

It also proves the two families of counters, on top of `IInv`:

- `CountersCorrect`: `Discipline /\ Spec => []CountersExact`, both of `UnblockedExact` and
  `MarkedExact`.

`Discipline` is points 1 and 2 of section 3, as a formula on the constants. Its consequence
`Disciplined` (only queues that may block are blocked, only work with a deadline expires, and
work stays where it was posted) is what keeps `TakenOut` from subtracting work of a blocked
queue. The invariant is `CInv == IInv /\ Disciplined /\ UnblockedExact /\ MarkedExact`. The
argument is about sets: `Ready(Q)`, the work of the unblocked queues of `Q`, and `Removing(Q)`, the
marked and unblocked queues of `Q`, gain or lose one member, a whole queue (block), or several
(unblock) at each counting step, and `CountUp` and `CountDown` say that wrapping `size_t` arithmetic
follows the cardinality. The lists are needed where the code uses them as a count:
`block_queue_internal` subtracts `queue.size()`, and a level is erased with its counters when its list
is empty.

It proves the other safety properties, too, each with its own strengthening:

- `NeverBothCorrect` (no assumption): what was told is still in `timedOutQueue`, which is
  empty when the work thread picks work, and running work carries the flag the timeout thread
  respects (`ToldIsOut`);
- `ExpiryIsToldCorrect` (under `Discipline`): a flag `runningCallback` that outlives its callback
  belongs to work without a deadline (`FlaggedRuns`);
- `NoLostUnblockCorrect` (no assumption): the unblock that comes between the failure and the
  blocking stays in `unblock_list`, because only a waiting work thread serves it (`UnblockComes`);
- `ClearedCorrect` (under `SerialStops`, point 3 of section 3): a stop that begins alone finds the
  handler running, never started, or left by the work thread (`StopsInTurn`).

- `SizesCorrect` (no assumption): `SizesInv` adds to the equality of sizes and sums that they stay below
  the limits and that whatever is being posted fits alone, without which `size_t` could wrap. Each step either
  leaves the queued work as it is, adds one work to one queue, or takes out a set of works of one
  queue, and `DataLemmas` says what that does to the sums;
- `NoLostWakeUpCorrect` (no assumption): `WaitInv`, as long as no stop began, no waiting post fits. Room is
  only made by steps that wake every waiting post; the others only add (`NoRoomMade`). It needs `SizesInv`;
- `WorkerNotLostCorrect` (under `Discipline` and `SerialStops`): see below;
- `ContractHoldsCorrect` (under both): the refinement of `HandlerContract`.

The work thread trusts the counters: it searches as soon as they say that there is work or a marked queue,
and the search of the code does not end when they are wrong. `SearchInv` says what makes it end:
`SearchedFirst`, no queue with something to do is above `current_priority`, whatever was posted, unblocked or
marked since; `ItersValid`, the iterator of each level stands at a queue of that level, at none, or is
dangling; and `DanglingOnlyCleared`, iterators dangle only once a stop has cleared the lists, when no
search comes any more (`StopsInTurn`). With `CountersExact` a positive counter then gives a queue for one
of the two loops to find (`SearchEnds`).

The refinement follows action by action. Most steps stutter (`Stutter`); `PostInserts` is `Accept`, a
callback that returns a value is `Complete` when its work is popped, one that returns nothing is `Block`,
`RemoveTimedOut` is `Expire`, one expired work at a time, and `Clear` is `DropAll`, which is where
`ClearedAfterWork` is needed. The hard one is `Begin`: that the queue the two loops find is of the highest
level with work, by `SearchedFirst`, and that the work is the first of its queue, by `ListsOK`.

Only model-checked: the liveness properties `Served` and `StopReturns`, which are out of the
prover's reach.

### VoaThread

`VoaProofs.tla` proves, from `VoaAssumption` only (any packages, copies, hold times and clock):

- `TypeCorrect`: the queue holds what was shipped, and its top is due first. This is inductive by
  itself; the lemmas are about which copies a step of a sender adds (`ShippedGrows`), and that times
  computed for a package held back disturb no item already shipped (`GetsQueueTypes`);
- `InOrderCorrect`, from it: the thread reads `top()` in the critical section that decides;
- `NotEarlyCorrect`: the invariant `VInv` adds that the item being run was shipped, so that no sender
  changes its time, and that what was not shipped never ran;
- `ExactlyOnceCorrect`: `OnceInv` adds that, until one is overtaken, the item being run is still
  the top (`RunsTheFirst`), so that what is popped is what ran;
- `StoppedForGoodCorrect`: with `OneStopper`, by `StopsOnce`;
- `LostForAnotherCorrect`: when something due earlier is pushed during a callback, the pop removes that instead of
  what ran. `LostInv` follows the item that ran until it runs again: `RunsAgain(j)` holds of an item that
  ran twice, or ran once and is still queued with no pop of its own to come; every item removed without
  having run has such an item, due later. `CountInv` counts removals against runs, the callback that
  returned but did not pop yet included.

Only model-checked: `Delivered`, `StopReturns` (liveness) and the finding `CopiesSent`.

### Bootstrap

`BootstrapProofs.tla` proves, from `BootstrapAssumption` only (finitely many bootstraps; a fresh handle
is not the null handle):

- `TypeCorrect`;
- `EndsOnceCorrect`, `HandlesCorrect`, `SuccessCorrect` (`SuccessIsEarned` and `OnePersona`),
  `CloseCorrect`.

One invariant carries all five, `BInv == TypeOK /\ Life`. `Life` says of each bootstrap that it is
`Untouched`, `Follows` its state, or has `Ended`; the strengthening that matters is in `Follows`: an
answer to the close is on its way only if the close was asked for, and the close is asked for only
after a package. `SameLife` frames the bootstraps a step does not touch, `EndLife` treats
`removePendingBootstrap` once for all its callers, and `ClosedIsOwn` keeps the answer of one
bootstrap apart from everything else, the null handle included.

- `FilesCorrect`: `Spec => []FilesOutliveTheirUse`. The thread removes directories in the order of its queue
  of tasks while the manager starts and ends bootstraps, so the invariant, `FilesInv`, is about that order:
  a bootstrap that is listed and the target of every task to serve have their directory; a task that removes
  one is of a bootstrap that has ended and never begins again; and no task to serve comes behind
  the removal of the same directory. `FilesStep` follows from one lemma for each way the queue changes
  (`FilesServe`, `FilesEnds`, `FilesFail`, `FilesDone`) and `FilesKept` for the rest.

Only model-checked: `FilesRemoved` (liveness).

### Routing

`RoutingProofs.tla` proves, for all committees, rings, clients, messages and any number of faults, from
`RoutingAssumption` and `Remembered` (no more messages than `seenMessages` holds; when it forgets,
a late copy may be presented again, and the code accepts that):

- `PresentedOnceCorrect`: `Remembered => (Spec => []PresentedOnce)`.

The invariant is `RInv == NetRouted /\ SeenOnce /\ PresentedSeen`. `NetRouted`: what travels to a client is for
that client and was submitted, what travels to a server names a ring it has. `SeenOnce`: a client's memory
holds a message once. `PresentedSeen`: what was presented is still remembered; `AddSeenFresh` shows that
nothing is trimmed, by a pigeonhole on injective sequences. `TransmitRouted` treats the refusals of
the SDK once for all sends, `SendsRouted` the sends of servers.

- `TypeCorrect`: `Spec => []TypeOK`, from `RoutingAssumption` alone, the trimmed memories included.

The invariant is `TInv == TypeOK /\ NetRouted`: the two need each other, because what a server does with a message
is only typed if the ring it names exists, and what is given up was submitted because what travels was.
`TransmitTypes` shows once, for all sends, that what the SDK takes has a rank in the list of connections
it was sent on, that the net stays a bag, and that the number of refusals is one (`SumIsNat`, from
`DataLemmas`); `ServerSends` that a step sends finitely many messages of the right kind; `TrimmedTypes` that
trimming makes room for one message, also where `addFloodedUuid` trims by the limit of the other memory.

Only model-checked: `Settles` (liveness).

### Connections

`ConnectionsProofs.tla` proves, from `ConnectionsAssumption`, for any links, connections, packages and threads:

- `TypeCorrect`: `Spec => []TypeOK`, with `AllCarry` (what a callback carries at each of its steps);
- `PackagesCoveredCorrect`: `Orderly => (Spec => []PackagesCovered)`.

The danger is `RemoveLink`, which drops whatever connections the link still has, with what they cached. The
invariant `CInv` says that there are none: `Listed`, that the connections of a link being destroyed are
those its callback still has to close, rests on `Apart`, that no callback opens a connection of a link another
destroys. `Apart` is what `Orderly` gives for reports of the plugin; for a link whose creation the wrapper
refuses at its shutdown it needs `Untried` and `AskedOnce` (a link the plugin was never asked for is not
created, has no connection requested, and is asked for once). `ThreadMoves`,
`StepMoves` and `RequestsMove` describe once what any step does to the callbacks and to the requests; each part
of the invariant follows from them. `CInv` was checked with TLC on the instance of the run first.

- `SendableCorrect`: `Orderly => (Spec => []SendableWhileOpen)`;
- `ViewCorrect`: `Orderly => (Spec => []NmViewRight)`.

Two callbacks for one connection are what could go wrong in both: one adds it and says so while another takes
it away. The invariant `AInv` shows that whoever opens a connection is alone with it (`Alone`). A connection is
requested once (`OpenedOnce`) and opened only after the plugin brought it up (`OpenUp`); a callback that closes
it was given by the plugin after it went down, for good (`ClosedPast`), or belongs to the destruction
of its own link (`OwnLink`), which `Apart` excludes. `SInv` follows a callback through its
steps: what it prepared in the handler is still there when it adds the connection (`Prepared`), and what it
changed is still so when it tells the network manager (`ToldLast`). `VInv` adds the answers: a link that ends
was asked for and is never asked for again (`LinksPast`), and the answer to a request stays on its way,
posted, at the plugin, or in a callback that cannot fail any more, until the network manager has it
(`AnswerComes`), however often callbacks and shutdowns come between.

`AInv`, `SInv` and `VInv` were checked with TLC on the instance of the run first.

### Packages

`PackagesProofs.tla` proves, from `PackagesAssumption`, for any links, actions, packages, lengths, timelines
and bounds:

- `TypeCorrect`: `Spec => []TypeOK`;
- `ReportedOnceCorrect`: `Spec => []ReportedOnce`;
- `BlockedCorrect`: `Careful => (Spec => []BlockedOnlyWhenFull)`;
- `PlanSoundCorrect`: `Careful /\ Punctual /\ Spaced => (Spec => []PlanSound)`.

What every one of them needs is what planning does. `FillAlong` and `AssignAlong` carry a predicate along the two
loops, once each, by least counterexample; with them it is enough to say what one added fragment
(`AddFragmentAdds`), one turn and the clearing that comes first (`ClearedIs`) do to a plan. The order of a
timeline is a `CHOOSE`: `OrderExists` builds it from the last action backwards, and `OrderLists` then says
that it lists what it should, in order.

`TypeInv` is `TypeOK` with what makes the handlers safe: no fragment reaches beyond the end of its package
(`Whole`), no action is too early to be encoded (`ActionsInTime`), the queues of the links hold actions of the
timeline in its order (`QueuesSorted`), and what is on the wire carries something (`WireCarries`). That the queues are sorted is not a detail:
`doAction` takes an action from the *front* of the queues it is in, and only because the first action of the
timeline comes first in each of them does none of them keep a pointer to it.

`ReportInv` adds that a package is on the queue of its own link and there once (`OwnQueues`), and that a package with
fragments is queued. Two handlers tell the SDK of a package, the report of a fragment and the destruction of
a link; each takes it from the queue by which it found it, and neither replanning nor a late report gives
fragments to a package that left. It holds without any of the four orders of section 6.

`BlockInv` adds that every action whose encoding began is past the point where it can be planned
(`EncodedInTime`). Planning ends with no room in the actions of a link it calls full (`NoRoom`, `AllRoomFor`);
later steps only take room, or concern actions that are past. A destroyed link takes its fragments out of actions
that other links share, which makes room nobody tells the SDK of: this is where `Careful` is needed.

`PlanInv` is what the managers know of each other. `SoundPlan` says it of any plan: the fragments of a
package follow each other from its beginning (`Tiles`), a handle is that of one fragment (`OneEach`), pointers go
both ways (`PointBack`, `Carried`), an action carries packages of one link and is in that link's queue
(`OnOneLink`), the fragments of a package lie in the timeline in their order (`InTimeOrder`), and what was not
encoded lies after what was (`NotYetEncoded`). Clearing a package cuts it off at its first marked fragment
(`removeMarkedFragments`), while clearing the timeline empties every action that is not past: only because the fragments
are in the order of time do the two cut at the same place, and leave no action with a fragment its package has
forgotten (`ClearedSound`). Planning keeps the order (`FillSound`, `AssignSound`): a package whose turn it is was
cleared back to what is past, walks its link's queue in the order of time, and puts each fragment in the last
action it came to. `AllSound` puts clearing and planning together for everything that can be taken from a
timeline first: actions that `fetchTimeline` no longer returns, or what the actions of a finished package carried.

What must not be taken is what is encoded. `EncodesInTime` says how far encoding has got, and that rests on
`Punctual`: an action thread that falls behind lets the clock reach actions which it has not encoded yet. `Spaced`
makes the order of time strict, without which two actions of one time could hold a package's fragments the
wrong way round. `Careful` is used twice: a package fails only when nothing of it is encoded (`FinishedIs`), and a
link is destroyed only when its actions carry nothing of another link's (`PlanDestroyed`). `QueuesFull`
says that a link created in time has every action it may use in its queue; a queue is then what
`updateLinkTimelines` would make of the timeline because a timeline has one order (`OrderUnique`).

The four invariants were checked with TLC on the instance of the run first.

`DeliveryProofs.tla` builds on them and proves what the other end of a link gets, also for any values of the
constants:

- `NeverGarbledCorrect`: `Careful /\ Punctual /\ Spaced /\ InTurn => (Spec => []NeverGarbled)`;
- `ReceivedWholeCorrect`: `Careful /\ Punctual /\ Spaced /\ InTurn => (Spec => []ReceivedWhole)`.

The first holds whatever the wire loses, repeats or puts last, and whatever fails or is destroyed. What the
receiver joins must have been cut from one package, and all it has to go by is the number of a content and
its two flags. So what goes out on a link has to be one stream of packages:

- `TurnInv`: the packages of a link are planned in the order of its queue, and one waits only if no action
  that can still be planned has room for it. `generateFragmentsForAllPackages` gives every link's
  packages their turn in order; a package sent later is planned behind all others because they
  were planned in full or left no room; that needs `InTurn`, since an action added on a send is room for the
  package sent that was not there for those before it.
- `Prompt`: encoding takes one action at a time, the next in time, when it comes into its window. With
  `TurnInv` this makes the order of encoding the order of the stream (`EncodesOne`), and it needs `Spaced`.
- `StreamInv`: whatever is at the encoder, at the transport or on the wire for a link, and what its receiving
  end holds, is well cut (`WellCut`); a content that goes on with a package begins where the content with the
  number before it ends; and the content numbered last ends where the package encoded only in part
  does (`FrontAt`). The receiver's step is then a lemma on one content (`TakenIs`): what it keeps is the beginning of
  one package (`Tiled`), and what it hands up is whole.

For the second, nothing may be lost in between, and a fragment that fails must be seen to fail:

- `FreshInv`: a fragment that an action carries has not been reported; `HeldInv`: what the encoder or the
  transport has in hand for an action is what the action carries, unless its link was destroyed.
- `NumbersInv`: between two contents of one package no other content of the link is counted, so that the second
  has the next number. A failure or a destroyed link leaves a gap, but then also a package that is
  reported as failed, or not at all.
- `SentInv`: let the receiver take everything that is on the wire (`Reaches`). Then it has handed up all
  packages reported as sent; and where the first fragments of a package were done and sent, it has handed the
  package up if they are all of it, and otherwise waits with something pending for the content with exactly the number
  that the next fragment has or will get (`Outcome`). Steps that touch neither the wire nor what is done
  are shown once to keep this (`CalmStep`, `SentElse`); sending appends to the run, receiving takes its
  first step, and the report of the last fragment finds the package put together.

Every safety property of `Packages` that is checked is thus also proved, and there is no liveness property.

## 10. Plan

| order | module | composes | abstract specification | runs | theorems |
|---|---|---|---|---|---|
| 1 | `Handler` (done) | | `HandlerContract` (done) | 3 pass, 2 violations | types, lists, counters, sizes, expiry, wake-ups, unblocks, stops, the worker is never lost, the contract (done) |
| 2 | `VoaThread` (done; the rule state of `VoaConfig` is left) | | | 1 pass, 1 violation | types, order, never early, once, lost for another, stop (done) |
| 3 | `Bootstrap` (done) | its thread, the calls of `RaceSdk` | | 1 pass, 1 violation | types, one end, handles, success, close, directories (done) |
| 4 | `Packages` (done) | action, package, receive and link managers | | 1 pass | types, reported once, held back only when full, sound plans, whole packages (done) |
| 5 | `Connections` (done) | `RaceSdk`, `RaceLinks`, `RaceChannels`, `CommsWrapper`, the plugin and its shutdown | | 1 pass | types, packages covered, open connections can be sent on, what the network manager was told (done) |
| 6 | `Routing` (done) | clients, servers and the SDK between them | | 1 pass | types, presented once (done) |
| 7 | link wizard | the network managers of two nodes | | | requests answered once |
| 8 | roles and tags of channels; lifetime of decomposed channels; order of the shutdown of the SDK | | | | |

## 11. Not modelled

- **Link wizard** (`LinkWizard.cpp`): read, not written yet. A failed send is queued and tried again only by
  `tryQueuedRequests`; a failed `requestCreateUnicastLink` is queued twice;
  `pendingMultiAddressLoads` is never erased; a refused request leaves its requester waiting. A model
  needs the two nodes and the wrapper's answers; its properties are liveness under these retries.
- **Roles and tags of channels** (`RaceChannels.cpp:199` keeps the role of a channel that failed): small and
  sequential.
- **Lifetime of decomposed channels** (`ComponentLifetimeManager`): states of three components; it reports
  empty properties on two paths (`:66`, `:158`).
- **NMWrapper, AppWrapper, order of the SDK's shutdown**: each wrapper posts to a `Handler`, which is
  modelled; the order of their destruction is left.
- **VoaConfig**'s counting of rules: a data race (`VoaConfig.cpp:189`); the choice of rule is
  nondeterministic in `VoaThread`, which covers every outcome for the thread.
- **Connections**: received packages, user input, the wrapper's bootstrap calls, several plugins.
- **Configuration, JSON, files, artifact managers, plugin loading**: input and output without a protocol.
- **Comms plugins, node daemon, registry, apps, Python utilities, language shims**: outside the core;
  the environment of the modules above.
