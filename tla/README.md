# A TLA+ model of the Appium device farm plugin

The plugin lets many Appium clients share the phones, emulators and simulators
of one or several machines. Its core promise is about *devices*: a session
request gets a device that fits, nobody else gets the same device meanwhile,
and the device comes back when the session is over, abandoned or broken. The
list of devices follows what is plugged in, on one machine and, for machines
that work together, on their hub. A session on a real iOS device also gets a
local port whose connections lead to the device, and gives it back. This
directory models these parts, checks them with TLC on small instances and proves
their main properties with TLAPS for all instances.

Paths below are relative to the plugin's `src/` directory.

## 1. The system

### Components, their state and their operations

| Component | State | Operations that change it |
|---|---|---|
| Session lifecycle (`plugin.ts`) | the allocation locks (`commandsQueueGuard`) | `createSession`, `deleteSession`, `onUnexpectedShutdown`, `updateServer` |
| Allocation and cron jobs (`device-utils.ts`) | timers | `allocateDeviceForSession`, `releaseBlockedDevices`, `cleanPendingSessions`, `removeStaleDevices`, `updateDeviceList` |
| Device store (`data-service/`) | Loki collections `devices` and `pending-sessions` | add, remove, block, unblock, user block and unblock, assign, stamp |
| WebDriver proxy (`proxy/wd-command-proxy.ts`) | `sessionRequestMap`, `remoteProxyMap` | one Express handler, `addProxyHandler`, `removeProxyHandler` |
| Dashboard API (`app/routers/grid.ts`) | none of its own | block, unblock, register node, update device |
| Node registry (`device-managers/NodeDevices.ts`, `device-utils.ts`) | the documents of other hosts | post devices, unblock on the hub, probe hosts, drop stale devices |
| Android tracker (`device-managers/AndroidDeviceManager.ts`) | abort controllers by udid | device added, removed, changed |
| iOS trackers (`IOSDeviceManager.ts`, `goIOSTracker.ts`) | DeviceID to udid, listeners | attached, detached |
| iOS connections factory (`iProxy.ts`) | cached connections `udid:port` | request and release a connection |
| usbmux client (`usbmux.ts`) | a half-received message | parse a data event |
| Capability preparation (`CapabilityManager.ts`) | the request's capabilities | ports, app path, WDA settings |
| The rest | | helpers, cloud devices, ChromeDriver download, test journal, event bus, user interface |

### How they interact

A `POST /session` passes the proxy middleware, which remembers the client's
socket in `sessionRequestMap`; `createSession` inserts a pending session and
queues on the AsyncLock whose name it computes from platform, version and
udids. Inside the lock `allocateDeviceForSession` polls the collection, blocks
a device and prepares its capabilities. Outside of it the session is created
by the local driver, or forwarded to the node that owns the device, and the
session is recorded in the device's document; for a remote session a proxy is
installed. Every later command stamps the document. `DELETE`, the unexpected
shutdown of a driver, a failing `createSession`, the release job and the
dashboard all release devices, and the trackers add and remove documents,
independently of each other. For a real iOS device the preparation writes a
port into the document, `createSession` has the connections factory listen on
it, and `deleteSession` reads it from the live document to release it. iOS
devices are announced by usbmuxd, whose messages a parser puts together from
data events of any size, or by lines of go-ios.

### What is hard

* *Concurrency without threads.* Requests, jobs, trackers and the dashboard
  interleave at every real I/O wait, and several keep what they read before it.
* *Failure half way.* Preparing a device, asking the driver and writing the
  utilization time may each fail after the document was changed.
* *Late answers.* Clients disconnect, sessions go idle and are then used or
  deleted after all, releases overlap.
* *Two copies.* A node and its hub have a document each for one device and tell
  each other of changes by calls that may fail, be late or find the other
  restarted; jobs on timers are to repair the difference.
* *Limits.* `maxSessions` is tested for equality against a count of busy flags.
* *Ports.* A port is looked up, probed and listened on in three steps, and other
  sessions and programs want ports at the same time.
* *Streams.* A data event may end anywhere; what a parser keeps between two events
  decides how the rest of the connection is read.

### What makes each part correct

| Part | It is correct if |
|---|---|
| sessions and allocation | claims are exclusive, the limit holds, a session keeps its device until it is idle, every request is answered and every device comes back |
| queue and proxy tables | they agree with the requests on every path |
| trackers, registry | what is plugged in gets listed, what is gone is forgotten, here and at the hub; a node lends a device to one session at a time; the hub knows the sessions it has handed out |
| iOS connections | the cached connections are the listeners; each is closed with its session and not before |
| iOS events | no message is lost, cut or joined; the last event about a device is the right one |

## 2. The modules

| Module | Content |
|---|---|
| `DeviceStore` | the device collection as a function from devices to documents, and each operation of `device-service.ts` on it as an operator |
| `DeviceAllocation` | the state machine of one hub: requests, locks, pending sessions, proxies, releases, jobs, dashboard, trackers; its properties |
| `DeviceLease` | the abstract specification of one server: lending and taking back |
| `NodeLease` | the abstract specification of nodes: asked, lent or refused, taken back singly or with a node |
| `DeviceTracking` | one server's trackers: plugged and unplugged devices, the handlers they start, the device list job, and what a node tells its hub |
| `NodeRegistry` | a hub and its nodes: forwarded sessions, the two documents of a device, lists, probes, stops and starts |
| `IosConnections` | the ports of sessions on real iOS devices: choosing, requesting and releasing a connection |
| `UsbmuxParser` | the message parser of `usbmux.ts`, as operators |
| `IosTracker` | usbmuxd or go-ios, the events a server reads from it, and the tables from ids to udids |
| `MCDeviceAllocation`, `MCDeviceTracking`, `MCNodeRegistry`, `MCIosConnections`, `MCIosTracker` | TLC's instances |
| `DeviceAllocation_proofs` | types, the inductive invariant, exclusive claims, the limit |
| `SessionRecords_proofs` | `PendingIsLive`, `ProxyMatchesSession`, `LocksAreServed`, `DeviceTakenOnlyWhenIdle` |
| `DeviceLease_proofs` | that `DeviceAllocation` implements `DeviceLease` |
| `DeviceTracking_proofs` | types, `NodeForgets`, `HubForgets` |
| `NodeRegistry_proofs` | types, `OneUser`, `HubKnowsSession`, that `NodeRegistry` implements `NodeLease` |
| `IosConnections_proofs` | types and the three safety properties |
| `IosTracker_proofs` | types, `InStep` |
| `IosEvents_proofs` | `GoneIsReported`, `PresentIsReported` |

The five state machines look at the same system with different detail.
`DeviceAllocation` has one server and every step of a request; its `hotplug`
is all it knows of trackers. `DeviceTracking` has only the presence of
devices. `NodeRegistry` has the two documents of a device and a request's way
through both servers, with allocation and release as one step each: what
happens inside those is `DeviceAllocation`'s matter, on the hub and on the node.
`IosConnections` has one server's sessions on real iOS devices, of which allocation
and release are one step and the way to the port every step. `IosTracker` ends
with the events `attached` and `detached`; what their listeners do is the `attached`
and `detached` tasks of `DeviceTracking`.

### From code to state: `DeviceAllocation`

| Variable | Code |
|---|---|
| `doc` | the `devices` collection: presence, `busy`, `userBlocked`, `session_id`, and `lastCmdExecutedAt` as *none*, *recent* or *old* against the device's timeout |
| `pc`, `held` | how far `createSession` has come, and its local `device` |
| `owner`, `queue` | the AsyncLock, external to the repository: FIFO, one holder per name |
| `connected` | `sessionRequestMap` |
| `pending` | the `pending-sessions` collection |
| `proxied` | `remoteProxyMap` |
| `unblocks` | invocations of the inner function of `unblockDeviceMatchingFilter` that await `setUtilizationTime` |

A device is one (udid, host) pair, a session is named by the request that
created it. A request's filter is abstracted to the set `Wanted` of devices that
match its constant part (platform, version, name, tags, ...) and to whether it
names udids (`ByUdid`), because only the flags `busy` and `userBlocked` change
under it.

### From code to state: `DeviceTracking`

| Variable | Code |
|---|---|
| `plug` | what adb or usbmux reports: absent, offline (Android only) or online |
| `listeners` | the pairs of listeners on the iOS tracker, to which every listing of devices adds one (`IOSDeviceManager.ts:188`) |
| `tracking` | whether the adb tracker that the handlers hang on is the live one |
| `task` | running invocations of `onDeviceAdded`, `onDeviceRemoved` and the `attached` and `detached` handlers, each at one of its awaits |
| `job` | `updateDeviceList`, with the list it has made |
| `db`, `hub` | presence of the documents here and at the hub |

### From code to state: `NodeRegistry`

| Variable | Code |
|---|---|
| `up` | the nodes whose server runs |
| `hubDb`, `nodeDb` | the two collections: whether a document is there, free or busy, and the session that is written in it - the two are separate, because `blockDevice` leaves an old session in the document and a listed document is free whatever session it names |
| `at` | how far a forwarded request has come on hub and node; *idle* is a session whose document the hub's job has freed, *orphan* one of before the hub's restart |
| `dev`, `on` | the device that the hub has blocked for it, and the one that the node has: they differ if `df:udids` (`Named`) lists several |
| `heard` | the requests of which the hub still waits for the answer, or has got it |
| `job`, `list` | `updateDeviceList` on each node, and the sessions in the documents it has listed |
| `expired` | not in the code: the sessions whose document the node's job has freed, for `OneUser` |
| `seen`, `dead` | `removeStaleDevices` at the hub: its snapshot, and the hosts that did not answer |

### From code to state: `IosConnections`

| Variable | Code |
|---|---|
| `doc` | the document of a device: `busy`, `session_id`, `mjpegServerPort` |
| `pc`, `dev` | how far `createSession` or `deleteSession` has come, and its device |
| `port` | the argument of the session's last call of the factory |
| `found` | `connectionsOnPort` in `requestConnection`, read before the probe and used after it |
| `mapping` | `_connectionsMapping`; an `iProxy` has the name of the session that made it |
| `holder` | who listens on a port: a session's `iProxy`, another program, nobody |

### From code to state: `IosTracker`

| Variable | Code |
|---|---|
| `source` | usbmuxd, or go-ios if `GO_IOS` is set |
| `alive`, `links`, `lastId`, `wire` | usbmuxd and the socket, or the process and its pipe: external |
| `data` | what is left of the data event that is being parsed |
| `parser` | the closure of `makeParser`: `len` and `msg` |
| `known` | `devices` of `createListener` |
| `names` | `deviceMap` of `goIOSTracker.ts` |
| `told` | the last event emitted for a device |
| `missed` | the devices of lines that `parseOutput` gave up |
| `crashed` | an exception has left a data event, or an `error` event has no listener |

A byte is known by its message and its place in it, so that joined or cut messages
can be told apart while nothing is put together character by character.

### Where one request can be interrupted

Node.js runs promise callbacks to the end before it takes the next event.
Awaits on the Loki collection resolve at once and add no interleaving with
other requests; awaits on HTTP calls, timers, files, ports and drivers do. So
an action is what the code does between two of those. In particular the poll
that finds a device, the second `getDevice` and `blockDevice` are one action,
and clearing a document is an action of its own after the file write.

### The environment

`Environment` is the set of disturbances an instance switches on: `configure`,
`start`, `storage` (steps that may fail), `late` (a command during the release
of its device), `block`, `unblock` (a person at the dashboard), `hotplug`,
`overlap` (a device is released a second time during a release). `DeviceTracking`
has `boot` (a device that is there boots too slowly or does not answer), `hub` (the
hub cannot be reached), `race` (a device leaves while it is being stored) and
`tracker` (the adb connection ends); `NodeRegistry` has `crash`, `restart`,
`outage`, `slow`, `giveup` and `fail`, `IosConnections` has `overlap`, `reuse`,
`program`, `fail` and `idle`, and `IosTracker` has `end`, `refuse`, `split` and
`noise`, explained in the modules. They are
separate because the code tolerates some and not others, and each run says
which it has. Without `late` and `overlap` the model leaves out behaviour the
code allows; section 3 shows what then goes wrong. The same holds for `race`
(`FoundGhost`), `overlap` of `IosConnections` (`FoundVideo`), `outage` and `split`.

## 3. The runs

The `Alloc` instances have two allocation locks: r1 and r2 share one, r3 has the
other. d2 belongs to another node. r1 accepts fewer devices than the others,
so that the head of the queue may have to wait while the one behind it need
not.

| Run | Instance | Checks |
|---|---|---|
| `AllocFaults` | 3 requests, 2 devices, limit 1; `configure`, `start`, `storage`, `block` | `TypeOK`, `ExclusiveClaim`, `SessionCap`, `LocksAreServed`, `ImplementsLease`, `DeviceTakenOnlyWhenIdle` |
| `AllocChaos` | 2 requests, 2 devices, limit 1; all but `start`; r2 names udids; fair | `PendingIsLive`, `ProxyMatchesSession`, `RequestAnswered` |
| `AllocReleased` | 3 requests, 2 devices, limit 1; `late`; fair | `ExclusiveClaim`, `BusyDeviceIsReleased` |
| `TrackNode` | a node, an Android and an iOS device, 2 handlers; `tracker`; fair | `TypeOK`, `NodeForgets`, `HubForgets`, `AttachedIsListed` |
| `TrackOutage` | the same with 3 handlers; `boot`, `hub`, `tracker` | `NodeForgets` |
| `NodesShare` | 1 node, 2 devices, 2 requests, one of which names both devices; all but `outage`; fair | `TypeOK`, `OneUser`, `ImplementsNodeLease`, `DeadNodeLeaves`, `LiveNodeReturns` |
| `NodesKnown` | 2 nodes, a device each, 2 requests, one of which names both devices; `fail`, `outage`, `giveup` | `HubKnowsSession` |
| `ConnFaults` | 3 sessions, one of them without live video, 2 devices, 3 ports; all but `overlap`; fair | `TypeOK`, `CacheMatchesListeners`, `DeletedLeavesNoListener`, `ListenerIsKept`, `SessionSettles` |
| `TrackIos` | 2 devices, one with two connections and a pairing, 3 ids; `end`, `refuse`, `noise`; fair | `TypeOK`, `InStep`, `GoneIsReported`, `PresentIsReported`, `ChangeIsReported` |

What they show:

* `ExclusiveClaim`: no device is relied on by two requests, from the poll that
  finds it to the end of the session.
* `SessionCap`: `busyDevicesCount === maxSessions` is enough, because no step
  but the allocation makes a free device busy - as long as nobody unblocks one
  by hand.
* `LocksAreServed`: every way out of `allocateDeviceForSession` and the preparation gives
  the lock on, so nobody waits behind a request that is over; it is the safety half of
  `RequestAnswered`, and holds for any number of requests and in every environment.
* `ImplementsLease`: all of it together lends devices as `DeviceLease` says.
* `DeviceTakenOnlyWhenIdle`: a session loses its device only when idle or when
  its node says it is dead; in particular the late `DELETE` of an older session
  never takes the device of its successor.
* `PendingIsLive`, `ProxyMatchesSession`: the two auxiliary tables agree with
  the requests on every path, timeouts, disconnects and lost devices included.
  `PendingIsLive` excludes `start`: an exception in the port forwarding of an
  iOS device skips `removePendingSession`, and only the clean-up job repairs it.
* `RequestAnswered`, `BusyDeviceIsReleased`: nobody waits for ever, no device is
  lost. The second needs that nothing fails between `blockDevice` and the
  session (no `configure`: see below), and it leaves out `block`: the job deliberately passes
  over devices that a person has blocked.
* `NodeForgets`, `HubForgets`: handlers and job runs end in any order, several
  may work on one device, and none brings a device back that has gone. The order
  in `onDeviceRemoved` - hub first, own collection last - is what makes the second
  one hold. Both need that a device does not leave while it is being stored, and
  are said of devices whose tracker is connected.
* `AttachedIsListed`: a device that stays is listed in the end, although the slow
  removal of an earlier departure may take it out once more: on a node the job
  repairs that, although each run adds listeners and may fail as a whole. It repairs a lost adb connection, too, as far as devices that come
  are concerned.
* `OneUser`: the hub may offer a device several times, having restarted, timed
  out, dropped it as stale or found a live session idle; the node's own document
  keeps the second request waiting, as long as the node keeps its documents. The
  node's own job may free the document of a session whose driver still runs - one
  command that takes longer than the timeout is enough - and the node then lends the
  device again; the invariant is about the loan, which ends there (`expired`). What
  must not happen, and does not, is that what comes late of the older session, its
  `DELETE`, the end of its driver or the hub's error, ends the loan of the next one.
* `ImplementsNodeLease`: seen from outside, the two copies of a document do not
  matter: a request comes to one node at most once, also when the hub gives it up,
  gets a device there that it has asked for, and has it until the node takes it back
  or stops. That the hub restarts, lists, drops or frees its own document changes no
  lease. `OneUser` alone would allow a hub that sends a request a second time, or a
  lease that passes from one request to another in one step.
* `HubKnowsSession`: late or lost reports, timeouts and failures do not make the hub
  lose or overwrite the session id it has written, until its own job finds the
  session idle. It leaves out `slow`, `crash` and `restart`, with which it does not
  hold (see below).
* `DeadNodeLeaves`, `LiveNodeReturns`: the two jobs, one on each side, are enough
  to repair the hub's list, whatever was lost.
* `CacheMatchesListeners`: the look-up, the probe and the listening are three steps,
  and `get-port` may give one port to two sessions; still every listener has its key
  in the cache (or is about to get it), and every key its listener. Closing keys that
  were looked up earlier does no harm because a key that is cached is true.
* `DeletedLeavesNoListener`, `ListenerIsKept`: although the port to release is read
  from the live document, it is the session's own as long as no other session has
  taken the device meanwhile - if the driver of the deleted session quits slowly,
  one may (`FoundVideo`). Ports that a request takes over are excepted.
* `SessionSettles`: a request for a port that is taken by others is refused in the
  end; nobody waits for a port for ever.
* `InStep`: however messages are cut into data events, none is lost, cut or joined,
  as long as no event ends within a header.
* `GoneIsReported`, `PresentIsReported`: both tables, one from udid to id and one
  from id to udid, survive a device that has two connections, of which one goes; at
  worst such a device is reported as gone while it has one left, which is why
  `PresentIsReported` is about devices with one way. For go-ios it leaves out
  devices that announce their pairing: `notify` takes every message that is not
  `Attached` for a departure.
* `ChangeIsReported`: once a device stays, or stays away, the last event about it is
  right for good.

### Disagreements between code and documentation

| Run | What happens |
|---|---|
| `FoundOverlap` | two releases of one device overlap; the slower clears the document after the device was given to the next request, and a third gets it too |
| `FoundGhost` | a run of `updateDeviceList` has listed a device that leaves before the list is stored: its removal goes to the hub and to the own collection, where it is not yet, and then `addNewDevice` inserts it and `postDevicesToHub` sends it; the job only adds, so it stays until the server restarts |
| `FoundVideo` | `deleteSession` frees the device before the driver has quit; the next session's port is then in the document, so the release closes the listener of the next session, and the old one stays |

Thirteen more show when the constants of an instance are changed; they have no
configuration of their own:

| Change | Violates | What happens |
|---|---|---|
| `AllocFaults` with `ByUdid = {r2}` and `MaxSessions = 2` | `ExclusiveClaim` | `getDevices` forgets `busy` along with `userBlocked` when the asked device is blocked by hand (`device-service.ts:238`) |
| `AllocFaults` with `late` | `DeviceTakenOnlyWhenIdle` | a command that arrives between the release job's decision and the end of the file write does not save the session's device (`device-service.ts:370`) |
| `TrackNode` with `hub` | `HubForgets` | a removal message that fails is logged and never repeated, and the list only adds (`NodeDevices.ts:60`) |
| `TrackNode` with `HasHub = FALSE` | `AttachedIsListed` | the handler of `end` attaches the handlers to the tracker that has ended; without the job of a node nobody looks for devices any more (`AndroidDeviceManager.ts:450`) |
| `TrackNode` with `Hosted = {}` | `NodeForgets` | with `remoteMachineProxyIP` no document contains the host that a removal asks for (`AndroidDeviceManager.ts:466`) |
| `AllocFaults` with `unblock` | `SessionCap` | unblocking a device by hand during the start of its session makes the count jump over the limit, which switches the limit off (`device-utils.ts:126`) |
| `AllocReleased` with `configure` | `BusyDeviceIsReleased` | an exception while preparing capabilities leaves a device busy with no command time, and the release job skips such devices (`device-utils.ts:164`) |
| `NodesShare` with `outage` | `OneUser`, `ImplementsNodeLease` | a node whose probe of the hub fails empties its collection, sessions included, and lists the devices as free later (`device-utils.ts:378`) |
| `NodesKnown` with `slow` | `HubKnowsSession` | a node that does not answer a probe in time loses its documents at the hub, those of running sessions too (`device-utils.ts:446`) |
| `NodesKnown` with `crash` | `HubKnowsSession` | the same to a node that is back, and has been given a session, between the probe and the removal (`device-utils.ts:446`) |
| `NodesKnown` with `restart` only, 1 device and a third request | `HubKnowsSession` | a document listed after the restart names a session of before; the end of its driver frees it while it is blocked for the next request, so that two requests are sent for it, and the late error of the one unblocks the document of the other by udid and host (`plugin.ts:429`) |
| `ConnFaults` with `overlap` | `DeletedLeavesNoListener` | the other half of `FoundVideo`: the listener of the deleted session is never closed (`plugin.ts:612`) |
| `TrackIos` with `split` | `InStep` | an event that ends within a header leaves the rest of it to be read as the next header; the comment above the parser promises to reassemble messages that events "break up" (`usbmux.ts:140`, `usbmux.ts:165`) |

### Bounds

Time is three ages of a command, so no counter needs a bound; every request is
made once, which bounds the state. In `DeviceTracking` the handlers at work at a
time are bounded by `Tasks`; an event that would need one more waits, so that two
handlers on one device and a third on the other are covered. One run of
the job at a time is modelled; in the code runs overlap only when their calls take
longer than the interval. Three requests on two locks are the smallest
instance in which a release in progress, the device's next owner and the one
after it meet (the counterexample of `FoundOverlap` needs all three), and in
which a shared and a different lock occur together. Two devices, one of them
remote, give every request a choice, and a limit of one bites before they run
out. `AllocChaos` uses two requests, and `AllocReleased` three with one
disturbance, to keep the behaviour graph small. Two devices of one node, and a request that names both,
are the least with which the node may lend another device than the hub has blocked;
two requests meet on one device when the first is given up, idle or orphaned. Two
nodes with a device each are needed for one that answers and one that does not.
`TrackNode` has two handlers, enough
for a removal that overtakes or is overtaken; `TrackOutage`, without liveness, has
three. The pairs of listeners are counted up to `MaxListeners` = 2: one event then
starts two handlers, which fill the bound on tasks.

`ConnFaults` has three sessions on two devices, so that two follow each other on one
device while a third wants the same port from another; three ports leave one when
two are taken. Another program holds one port at a time. In `TrackIos` a message has
a header of two bytes, of which one is the length, and a body of two: the least with
which a length field can be whole and a header not, and a body can be cut. Three ids
are two connections of a device and one of another, or three times the same; `Backlog`
= 12 bytes are three messages that have not been read.

### Fairness

Weak fairness is assumed for what the program schedules itself: a free lock is
given on, `waitUntil` has a timeout, preparations, drivers and file writes
answer or fail, the release job runs at an interval, and the clock advances.
Nothing is assumed of clients, people and cables: no request needs to be made, no session
deleted, no device plugged in again. `DeviceTracking` assumes that the waits of a
handler and of the job end, for all of them have timeouts or fail; it assumes
nothing of devices, so `AttachedIsListed` is about devices that stay. `NodeRegistry`
assumes only the two jobs on interval timers, whose probes have a timeout of 30
seconds; nodes need not start and sessions need not end. `IosConnections` assumes that
`get-port`, the probes, the wait for a port (which has a timeout) and the driver
answer, for every session on its own, and `IosTracker` that the event loop reads what
has come; neither assumes anything of clients, other programs and devices.

`CHECK_DEADLOCK FALSE` is set for `DeviceAllocation` because the system may really stop:
once every session is closed and no device is busy nothing has to happen. The same
holds for `FoundVideo`, and for `TrackIos`, where the source may end. (In
`DeviceTracking`, `NodeRegistry` and `ConnFaults` something is always possible, and
deadlock is checked.)

## 4. The proofs

| Theorem | Says | Assumes |
|---|---|---|
| `TypeCorrect` | `TypeOK`, and a request that goes on has a device | nothing beyond the constants' assumptions |
| `ClaimsAreExclusive` | `[]ExclusiveClaim` | `Tame` |
| `CapIsKept` | `[]SessionCap` | `Tame` |
| `Implementation` | `DeviceAllocation` implements `DeviceLease` | `Tame` |
| `PendingSessionsAreLive` | `[]PendingIsLive` | no `start` |
| `ProxiedSessionsAreOpen` | `[]ProxyMatchesSession` | nothing beyond the constants' assumptions |
| `LocksAreGivenOn` | `[]LocksAreServed` | nothing beyond the constants' assumptions |
| `SessionsKeepDevices` | `DeviceTakenOnlyWhenIdle` | `Tame`, no `late` |
| `TrackingTypeCorrect` | `DeviceTracking`'s `TypeOK` | nothing beyond the constants' assumptions |
| `UnpluggedIsForgotten` | `[]NodeForgets` | `Orderly`: no `race`, every host matches |
| `HubIsTold` | `[]HubForgets` | `Reported`: `Orderly`, a node, no `hub` |
| `RegistryTypeCorrect` | `NodeRegistry`'s `TypeOK` | nothing beyond the constants' assumptions |
| `NodeServesOne` | `[]OneUser` | no `outage` |
| `NodesImplementLease` | `NodeRegistry` implements `NodeLease` | no `outage` |
| `HandedOutIsKnown` | `[]HubKnowsSession` | no `crash`, no `slow`, no `restart` |
| `ConnectionsTypeCorrect` | `IosConnections`' `TypeOK` | nothing beyond the constants' assumptions |
| `CacheIsTrue` | `[]CacheMatchesListeners` | nothing beyond the constants' assumptions |
| `DeletedSessionsAreSilent` | `[]DeletedLeavesNoListener` | no `overlap` |
| `ListenersAreKept` | `ListenerIsKept` | no `overlap` |
| `TrackerTypeCorrect` | `IosTracker`'s `TypeOK` | nothing beyond the constants' assumptions |
| `ParserStaysInStep` | `[]InStep` | no `split` |
| `DeparturesAreReported` | `[]GoneIsReported` | no `split` |
| `ArrivalsAreReported` | `[]PresentIsReported` | no `split` |

`Tame` says: nobody unblocks by hand, the collection does not change, releases
of one device do not overlap, and devices are not both blocked by hand and
asked for by udid. TLC refutes `ExclusiveClaim` when any of the four is dropped.
Failing preparations, starts and file writes, late commands, blocking by hand,
disconnects and the jobs are all covered.

`ExclusiveClaim` is not inductive: it does not say that a claimed device is busy
(so that no poll finds it) nor whose release is waiting (so that it does not
free a device that has gone to somebody else). `IInv` adds: the device of a
request that sets up is busy and has neither session nor command time, so that
the release job does not see it (`SetupDevice`, `SetupApart`); a recorded
session sits on the device its request was given, busy (`SessionDevice`); a
stamped busy device has a session (`StampedDevice`); a waiting release belongs to
the present holder and is alone on its device (`UnblockOwner`, `UnblockApart`).
`Tame` gives the rest (`AllStored`, `NobodyBlocks`). Types and the strengthening
are proved per action, and `IInv` follows by one induction.

`CapIsKept` needs one fact more: only `AllocateDevice` makes a device busy that was
not (`OnlyAllocationMakesBusy`) - `SessionStarts` sets the flag too, but by
`SetupDevice` it is set. So the count moves by one at a time, and the test for
equality stops it.

`Implementation` maps a lease to the claimant of a device. Every step but the
allocation keeps the claims or ends those on one device (`RequestShrinks`,
`DeviceShrinks`, `UnblockShrinks`), which is a stutter or `TakeBack`
(`ShrinkStep`); the allocation is `Lend` (`AllocateLends`), for which `Unserved`
and the limit are needed.

`NodeForgets` becomes inductive with `Settled`: nothing that is absent is about to
be stored by a handler or the job. `Orderly` keeps that so - a device does not leave
then - and a handler gets there only with details, which only a device that is there
has. `HubForgets` needs in addition that the hub has been told when the handler of a
removal goes on to its own collection, for which `Reported` excludes a failing call.
TLC finds a counterexample when one of them is dropped (section 3).

`OneUser` is not inductive either: a node could allocate a document that says free
although its device is lent. `OneUserInv` adds that the node's document of a device that
is lent is busy and names the session, or nobody while the driver starts (`DocHeld`),
that the request has a device (`Placed`), and that documents name only sessions whose
driver has started and, when not busy, none (`SessionsPast`) - so the node's job, which
looks for a document with a session, never finds a driver that starts. A step of one
request leaves the documents of the others alone (`OthersKeep`) and its own in step
(`OwnKept`); a release by the job ends the one loan that the document was of
(`ReleaseKeeps`); lists, probes, stops and starts make no user and touch no document of a
device that is lent (`QuietKeeps`, `RegistryKeeps`), but for `NodeForgetsDevices`, which
is what `outage` switches on.

`NodesImplementLease` maps a lease to the one request that a node has lent the device to,
and a wait to a forwarded request. `OneUserInv` makes the mapping well defined
(`UserIsUsing`); `LeaseInv` adds that a request which is new has no device (`Unasked`),
so that forwarding is the first time it is asked. `NodeAllocates` is `Lend` because the
device suits what was asked (`EligibleDevice`) and, by `DocHeld`, a device whose document
is free is lent to nobody; a failing or ending driver, a deletion and the node's job are
`TakeBack`, a crash is `Stop`, everything else is a stutter (`RequestLeases`,
`ReleaseLeases`, `RegistryLeases`).

`PendingIsLive` and `ProxyMatchesSession` need to know whom a waiting release
belongs to: a release that a request began (`u.by` names it) is awaited by that
request, which is aborting or releasing (`ReleaseAwaited`). When the file write ends, the
request goes on from one of those two places and no other. `LocksAreServed` needs the same fact,
so that the end of a release takes nobody out of a queue or a lock; the rest is about
sequences: the first of a queue leaves it for good and the others keep their one place
(`OnceAppended`, `OnceBehind`).

`DeviceTakenOnlyWhenIdle` follows from `IInv` and `IdleReleases`: a release that the job
began is of a device whose last command is still *old*. A command makes it recent,
which is why `late` is excluded; a new session cannot come to the device before the
release is over, because it is busy until then.

`HubKnowsSession` becomes inductive as `HubInv`: the hub's document of the device of
an attached request, one whose answer the hub waits for or has got, is busy and names it
once it is active (`HubHolds`); two attached requests have different devices
(`AttachedApart`); a document that is not busy names nobody, and a device that the hub
does not have names nobody in its node's document and list (`NoSession`), so that nothing is
listed with a session; the devices of one host come together (`SameHost`), because the node
may lend another one than was asked for (`Asked`); and the hub has documents of running
nodes only (`NoneStale`), so that no probe finds one dead.

The argument for `IosConnections` has two parts. In any environment a listener has at most
one key, that of its own device, and a key is cached only for who listens
(`CacheIsTrue`). Without `overlap` a device has one session at a time, so the port in
the document is that of the last session that chose one, and stays until its deletion has
ended: the key that the release finds is the session's own (the other two).

`InStep` is proved for the stream of what is left of an event and what is to come.
The stream is `Framed`: the bytes of a message follow one another, and then one
begins. This is stated for two places at any distance, so that no induction over
the stream is needed. A parser is in phase with a stream when it is between messages
and one begins, or has the first bytes of a body and the next one comes
(`InPhase`). A call of `parse` keeps it so (`ParseReads`, from `HeaderReads` and
`FillReads`), because an event that does not end in a header has the header whole;
and as long as the connection is there the stream ends with a message, so the bytes a
parser waits for come (`Fed`). Lengths of headers and bodies are arbitrary.

`GoneIsReported` and `PresentIsReported` speak of the moment when everything is read; to
be inductive they must say what is still to be read. A message is *pending* if its last
byte is in what is left of the data event or on the wire (`Mail`), so a message is read to
its end exactly when it stops being pending, and no list of messages, which would need
an induction over the stream, has to be computed. `MailInv` accounts for every connection
by the tables of the source together with the pending messages: a pending arrival is of a
connection that is there or whose end is pending behind it (`Accounted`); a device that was
reported as attached is so for a connection in the tables that is there or whose end is
pending (`Known`); an id belongs to one device in all of it (`OneOwner`) and was given out
(`GivenOut`); and a device that is connected one way was reported, with nothing pending
about it, or its arrival is pending with nothing about it behind (`Shown`). It is asked
only while the source is alive and has not refused. Reading takes the first pending message away and enters it into the tables
(`SocketHandles`, `LineHandles`); announcing adds one at the end (`AnnouncingKeeps`).
When nothing is pending, the tables are the connections (`AllRead`). The set of
connections is finite, since it grows one at a time; that is part of the invariant.

Only model-checked are the liveness properties (`RequestAnswered`,
`BusyDeviceIsReleased`, `AttachedIsListed`, `DeadNodeLeaves`, `LiveNodeReturns`,
`SessionSettles`, `ChangeIsReported`), which are out of the prover's reach. Every invariant,
action property and refinement of the passing runs is proved, under the assumptions in
the table, which are those of the runs or weaker.

## 5. What is left out, and why

* `maxSessions` undefined (no limit) behaves as a limit above the number of
  devices.
* The order in which the store returns documents: any matching device may be
  first, which allows more than the code does.
* One request matches at most one device by session; a release by session of
  several documents waits for all of them, whereas `Promise.all` stops waiting at
  the first failure. The two differ only when one session is on two devices,
  which the model reaches only with `hotplug` and never with two documents.
* Two `DELETE` requests for one session at a time are an overlap of releases
  and not modelled separately.
* Utilization time, tags, simulator state: data that decides nothing here.
* In `DeviceTracking`: trackers of remote adb servers, which run the same handlers;
  simulators, which have no events; the abort controllers, which nothing reads. A
  rejection of an iOS handler, whose device has left before its details were read
  (`IOSDeviceManager.ts:189`), ends the handler: that nobody handles the rejection is
  not modelled; likewise the rejection of a listing, which `updateDeviceList` does not
  catch, ends the run of the job, though at the very start it ends the server. Runs of the job
  do not overlap.
* In `NodeRegistry`: a restart of the hub takes no time, and all hosts are asked at one
  moment; a hub-side release is one step, with the file write inside; a request is
  not made anew after a failure; the death of a driver whose session the hub has
  yet to record is left to the hub's error or timeout; the document
  the hub has of itself and `updateDeviceInfo` are not in it. How long ago a command
  was is left open: a job may free any busy document with a session at any time. That a
  node so lends a device whose driver still works for a live session - in one
  long command, or with `newCommandTimeout` 0, which the plugin replaces by its default -
  is in the model; `OneUser` and `NodeLease` count it as the end of the loan.
* In `DeviceAllocation`: a plugin behind an HTTP(S) proxy, which forwards the commands
  of remote sessions by an awaited call that may throw before the device is released
  (`wd-command-proxy.ts:95`); two ticks of the release job that release one device at once
  count as one release.
* In `IosConnections`: what flows through a connection; requests for a connection
  without port forwarding, which the plugin does not make; that a driver which fails or
  dies, or a device released when idle, leaves the connection in place is in the model,
  as in the code, and the properties do not deny it.
* In `IosTracker`: a source that has ended is never replaced, as in the code; Wi-Fi
  and cable are two connections of one device at most; the text of messages. `Relay`,
  `getTunnel` and `findDevice` of `usbmux.ts` are not called by the plugin.
* Not modelled at all: the table of model names in `IOSDeviceType.ts`; filters and the
  conversions of `helpers.ts` (data); the facade of device managers and cloud devices,
  which merge lists; `updateDeviceInfo` and the simulator state; the event bus and the
  test journal, which do not touch devices; downloads, signing and user interface.

## 6. Running

    tlc -config AllocFaults.cfg MCDeviceAllocation
    tlc -config TrackNode.cfg MCDeviceTracking
    tlc -config NodesShare.cfg MCNodeRegistry
    tlc -config ConnFaults.cfg MCIosConnections
    tlc -config TrackIos.cfg MCIosTracker
    tlapm DeviceAllocation_proofs.tla
    tlapm DeviceTracking_proofs.tla
    tlapm NodeRegistry_proofs.tla
    tlapm DeviceLease_proofs.tla
    tlapm SessionRecords_proofs.tla
    tlapm IosConnections_proofs.tla
    tlapm IosTracker_proofs.tla
    tlapm IosEvents_proofs.tla

Operators called "Mutant of ..." are wrong variants of the operator after them;
`PROJECT.json` says which property notices each.

## 7. Reading order

`DeviceStore`, then `DeviceAllocation` from `Init` to `Next`, its properties, then
`DeviceLease` and the proofs from `IInv` on; `DeviceTracking`, `NodeRegistry`,
`IosConnections`, and `UsbmuxParser` with `IosTracker` stand on their own, each with its
proofs.

## 8. Plan

Done: all modules and proofs above. What is left, in this order:

1. The device filter and the names of locks, as functions against reference
   definitions: the query with its host substrings, and which requests share a lock.
2. `updateDeviceInfo` and simulator state in `DeviceStore`.
3. The test journal, which records the commands of a session.
4. An abstract specification of the hub's list that `DeviceTracking` and
   `NodeRegistry` implement.
