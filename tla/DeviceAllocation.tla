-------------------------- MODULE DeviceAllocation --------------------------
(***************************************************************************)
(* One Appium server running the plugin as a hub: how a session request     *)
(* obtains a device, and how the device becomes free again.                 *)
(*                                                                          *)
(*   received -> queued -> polling -> configuring -> starting -> active     *)
(*                            |            |            |          |        *)
(*                            +---> failed <+--- aborting    releasing      *)
(*                                                                 |        *)
(*                                              closed <------ quitting     *)
(*                                                                          *)
(* Node.js runs a chain of promise callbacks to its end before it takes the *)
(* next event.  An action below is therefore everything the code does       *)
(* between two true I/O waits (an HTTP call, a timer, a file write, the     *)
(* driver's own session creation); awaits on the in-memory database are not *)
(* points at which another request can run.                                 *)
(***************************************************************************)
EXTENDS DeviceStore, Sequences

CONSTANTS
    Locks,        \* the names getLockName can return
    LockOf,       \* Requests -> Locks: the allocation lock of a request
    Wanted,       \* Requests -> SUBSET Devices: devices that match its filter
    ByUdid,       \* the requests whose filter names udids
    Remote,       \* devices of other nodes and of clouds
    MaxSessions,  \* the maxSessions argument of the plugin
    Environment   \* the behaviours of the environment that are switched on

(***************************************************************************)
(*   configure  preparing the capabilities of an allocated device may throw *)
(*   start      createSession may throw before the driver is asked          *)
(*   storage    the write of the utilization time may fail                  *)
(*   block      a person blocks a device on the dashboard                   *)
(*   unblock    a person unblocks a device on the dashboard                 *)
(*   hotplug    devices leave the collection and come back                  *)
(*   overlap    a second release of a device may begin during the first     *)
(*   late       a command may arrive during the release of its device       *)
(***************************************************************************)
Behaviours == {"configure", "start", "storage", "block", "unblock",
               "hotplug", "overlap", "late"}

ASSUME AllocationAssumption ==
    /\ LockOf \in [Requests -> Locks]
    /\ Wanted \in [Requests -> SUBSET Devices]
    /\ ByUdid \subseteq Requests
    /\ Remote \subseteq Devices
    /\ MaxSessions \in Nat
    /\ Environment \subseteq Behaviours

VARIABLES
    doc,        \* the device collection
    pc,         \* how far the handling of each request has come
    held,       \* the device createSession has in hand
    owner,      \* who runs inside each allocation lock
    queue,      \* who waits for each allocation lock, in order of arrival
    connected,  \* the keys of sessionRequestMap: clients still connected
    pending,    \* the pending sessions collection
    proxied,    \* the keys of remoteProxyMap
    unblocks    \* releases that wait for the write of the utilization time

vars == <<doc, pc, held, owner, queue, connected, pending, proxied, unblocks>>

Control == {"received", "queued", "polling", "configuring", "starting",
            "active", "aborting", "releasing", "quitting", "failed", "closed"}

\* A release is begun by a request or, as None, by the release job.
Unblock == [dev : Devices, by : Requests \cup {None}]

TypeOK ==
    /\ doc \in Database
    /\ pc \in [Requests -> Control]
    /\ held \in [Requests -> Devices \cup {None}]
    /\ owner \in [Locks -> Requests \cup {None}]
    /\ queue \in [Locks -> Seq(Requests)]
    /\ connected \subseteq Requests
    /\ pending \subseteq Requests
    /\ proxied \subseteq Requests
    /\ unblocks \subseteq Unblock

Init ==
    /\ doc = [d \in Devices |-> NewDoc]
    /\ pc = [r \in Requests |-> "received"]
    /\ held = [r \in Requests |-> None]
    /\ owner = [l \in Locks |-> None]
    /\ queue = [l \in Locks |-> <<>>]
    /\ connected = {}
    /\ pending = {}
    /\ proxied = {}
    /\ unblocks = {}

-----------------------------------------------------------------------------
(* Waiting for a device *)

\* The proxy middleware notes the client, createSession the pending session.
EnqueueRequest(r) ==
    /\ pc[r] = "received"
    /\ connected' = connected \cup {r}
    /\ pending' = pending \cup {r}
    /\ queue' = [queue EXCEPT ![LockOf[r]] = Append(@, r)]
    /\ pc' = [pc EXCEPT ![r] = "queued"]
    /\ UNCHANGED <<doc, held, owner, proxied, unblocks>>

\* AsyncLock runs the requests for one lock name one at a time, in order.
AcquireLock(r) ==
    LET l == LockOf[r] IN
    /\ pc[r] = "queued"
    /\ owner[l] = None
    /\ queue[l] # <<>>
    /\ Head(queue[l]) = r
    /\ owner' = [owner EXCEPT ![l] = r]
    /\ queue' = [queue EXCEPT ![l] = Tail(@)]
    /\ pc' = [pc EXCEPT ![r] = "polling"]
    /\ UNCHANGED <<doc, held, connected, pending, proxied, unblocks>>

ReleaseLock(r) == owner' = [owner EXCEPT ![LockOf[r]] = None]

\* Mutant of AtCapacity: one session too many.
AtCapacityTooLate == Cardinality(BusyDevices(doc)) = MaxSessions + 1

\* getBusyDevicesCount against maxSessions, compared for equality.
AtCapacity == Cardinality(BusyDevices(doc)) = MaxSessions

(***************************************************************************)
(* A poll that finds a device: the last poll of waitUntil, the second       *)
(* getDevice and blockDevice follow one another without an I/O wait.  A     *)
(* poll that finds none changes nothing and is repeated by a timer.         *)
(***************************************************************************)
AllocateDevice(r) ==
    /\ pc[r] = "polling"
    /\ r \in connected
    /\ ~AtCapacity
    /\ \E d \in Obtainable(doc, Wanted[r], r \in ByUdid) :
          /\ doc' = BlockDevice(doc, d)
          /\ held' = [held EXCEPT ![r] = d]
    /\ pc' = [pc EXCEPT ![r] = "configuring"]
    /\ UNCHANGED <<owner, queue, connected, pending, proxied, unblocks>>

\* Mutant of FailInsideLock: the pending session is not removed.
FailInsideLockStillPending(r) ==
    /\ ReleaseLock(r)
    /\ pc' = [pc EXCEPT ![r] = "failed"]
    /\ UNCHANGED pending

\* Mutant of FailInsideLock: the lock is not released.
FailInsideLockKeepingIt(r) ==
    /\ pending' = pending \ {r}
    /\ pc' = [pc EXCEPT ![r] = "failed"]
    /\ UNCHANGED owner

\* An error thrown inside the lock: forget the request, leave the lock.
FailInsideLock(r) ==
    /\ pending' = pending \ {r}
    /\ ReleaseLock(r)
    /\ pc' = [pc EXCEPT ![r] = "failed"]

\* The availability timeout, a client that has gone, or an unknown udid.
GiveUp(r) ==
    /\ pc[r] = "polling"
    /\ FailInsideLock(r)
    /\ UNCHANGED <<doc, held, queue, connected, proxied, unblocks>>

\* The capabilities (ports, tags, streaming) of the device are prepared.
ConfigureDevice(r) ==
    /\ pc[r] = "configuring"
    /\ ReleaseLock(r)
    /\ pc' = [pc EXCEPT ![r] = "starting"]
    /\ UNCHANGED <<doc, held, queue, connected, pending, proxied, unblocks>>

\* No free port, or the query for the tags fails: the device stays blocked.
ConfigureFails(r) ==
    /\ "configure" \in Environment
    /\ pc[r] = "configuring"
    /\ FailInsideLock(r)
    /\ UNCHANGED <<doc, held, queue, connected, proxied, unblocks>>

-----------------------------------------------------------------------------
(* Releasing a device *)

(***************************************************************************)
(* unblockDeviceMatchingFilter takes a snapshot of the documents, writes    *)
(* the utilization time of each to a file and then clears the document with *)
(* the same udid and host, whatever has become of it.  MayUnblock says that *)
(* a device is not released a second time while the first release waits.    *)
(***************************************************************************)
MayUnblock(d) == "overlap" \in Environment \/ \A u \in unblocks : u.dev # d

BeginUnblock(S, by) ==
    unblocks' = unblocks \cup {[dev |-> d, by |-> by] : d \in S}

\* The request that waits for the release u has waited for all of them.
LastOf(u) == u.by # None /\ \A v \in unblocks : v.by = u.by => v = u

\* What the request that began a release does when the release is over.
AfterUnblock(r) ==
    IF pc[r] = "aborting" THEN "failed"
    ELSE IF r \in proxied THEN "closed" ELSE "quitting"

\* Mutant of ResumeAfter: the proxy of a deleted session stays.
ResumeAfterKeepingProxy(u) ==
    /\ pc' = IF LastOf(u) THEN [pc EXCEPT ![u.by] = AfterUnblock(u.by)] ELSE pc
    /\ UNCHANGED proxied

ResumeAfter(u) ==
    IF LastOf(u)
    THEN /\ pc' = [pc EXCEPT ![u.by] = AfterUnblock(u.by)]
         /\ proxied' = proxied \ {u.by}
    ELSE UNCHANGED <<pc, proxied>>

\* The file is written: the document is cleared.
FinishUnblock(u) ==
    /\ u \in unblocks
    /\ unblocks' = unblocks \ {u}
    /\ doc' = UnblockDevice(doc, u.dev)
    /\ ResumeAfter(u)
    /\ UNCHANGED <<held, owner, queue, connected, pending>>

\* The write fails: the error is logged and the document left as it is.
UnblockFails(u) ==
    /\ "storage" \in Environment
    /\ u \in unblocks
    /\ unblocks' = unblocks \ {u}
    /\ ResumeAfter(u)
    /\ UNCHANGED <<doc, held, owner, queue, connected, pending>>

-----------------------------------------------------------------------------
(* Starting a session *)

\* A session on the device; on a device of another node also its proxy.
SessionStarts(r) ==
    /\ pc[r] = "starting"
    /\ pending' = pending \ {r}
    /\ doc' = AssignSession(doc, held[r], r)
    /\ proxied' = IF held[r] \in Remote THEN proxied \cup {r} ELSE proxied
    /\ pc' = [pc EXCEPT ![r] = "active"]
    /\ UNCHANGED <<held, owner, queue, connected, unblocks>>

(***************************************************************************)
(* The driver, or the node the request was forwarded to, answers with an    *)
(* error or not in time: the device is unblocked and the error returned.    *)
(***************************************************************************)
SessionFails(r) ==
    LET d == held[r] IN
    /\ pc[r] = "starting"
    /\ MayUnblock(d)
    /\ pending' = pending \ {r}
    /\ IF doc[d].stored
       THEN /\ BeginUnblock({d}, r)
            /\ pc' = [pc EXCEPT ![r] = "aborting"]
       ELSE /\ pc' = [pc EXCEPT ![r] = "failed"]
            /\ UNCHANGED unblocks
    /\ UNCHANGED <<doc, held, owner, queue, connected, proxied>>

\* The port forwarding of a real iOS device throws: nothing is undone.
StartThrows(r) ==
    /\ "start" \in Environment
    /\ pc[r] = "starting"
    /\ held[r] \notin Remote
    /\ pc' = [pc EXCEPT ![r] = "failed"]
    /\ UNCHANGED <<doc, held, owner, queue, connected, pending, proxied, unblocks>>

-----------------------------------------------------------------------------
(* A session in use, and its end *)

\* A command of the session, or its proxied counterpart, stamps the device.
Command(r) ==
    /\ pc[r] \in {"active", "releasing", "quitting", "closed"}
    /\ \E d \in MatchingSession(doc, r) :
          "late" \in Environment \/ \A u \in unblocks : u.dev # d
    /\ doc' = UpdateCmdExecutedTime(doc, r)
    /\ UNCHANGED <<pc, held, owner, queue, connected, pending, proxied, unblocks>>

\* Mutant of DeleteSession: it releases the device it once had.
DeleteSessionByDevice(r) ==
    /\ pc[r] = "active"
    /\ r \notin proxied
    /\ MayUnblock(held[r])
    /\ BeginUnblock({held[r]}, r)
    /\ pc' = [pc EXCEPT ![r] = "releasing"]
    /\ UNCHANGED <<doc, held, owner, queue, connected, pending, proxied>>

(***************************************************************************)
(* DELETE of a session of this server, or the unexpected shutdown of its    *)
(* driver: the device is unblocked first, and the driver quits after that.  *)
(***************************************************************************)
DeleteSession(r) ==
    LET S == MatchingSession(doc, r) IN
    /\ pc[r] = "active"
    /\ r \notin proxied
    /\ \A d \in S : MayUnblock(d)
    /\ BeginUnblock(S, r)
    /\ pc' = [pc EXCEPT ![r] = IF S = {} THEN "quitting" ELSE "releasing"]
    /\ UNCHANGED <<doc, held, owner, queue, connected, pending, proxied>>

QuitDriver(r) ==
    /\ pc[r] = "quitting"
    /\ pc' = [pc EXCEPT ![r] = "closed"]
    /\ UNCHANGED <<doc, held, owner, queue, connected, pending, proxied, unblocks>>

\* The proxy forwards the DELETE of a remote session and unblocks at once.
ProxyDelete(r) ==
    LET S == MatchingSession(doc, r) IN
    /\ pc[r] = "active"
    /\ r \in proxied
    /\ \A d \in S : MayUnblock(d)
    /\ doc' = UpdateCmdExecutedTime(doc, r)
    /\ BeginUnblock(S, r)
    /\ pc' = [pc EXCEPT ![r] = IF S = {} THEN "closed" ELSE "releasing"]
    /\ proxied' = IF S = {} THEN proxied \ {r} ELSE proxied
    /\ UNCHANGED <<held, owner, queue, connected, pending>>

\* A node reports that the driver of session r died: the /unblock route.
NodeReportsShutdown(r) ==
    /\ pc[r] = "active"
    /\ r \in proxied
    /\ \E d \in MatchingSession(doc, r) :
          /\ MayUnblock(d)
          /\ doc' = UserUnblockDevice(doc, d)
    /\ UNCHANGED <<pc, held, owner, queue, connected, pending, proxied, unblocks>>

\* The socket of the request closes, before or after it was answered.
ClientDisconnects(r) ==
    /\ r \in connected
    /\ connected' = connected \ {r}
    /\ UNCHANGED <<doc, pc, held, owner, queue, pending, proxied, unblocks>>

-----------------------------------------------------------------------------
(* Cron jobs and the clock *)

\* No command for longer than the new command timeout of the device.
CommandTimeout(d) ==
    /\ doc[d].lastCmd = "recent"
    /\ doc' = [doc EXCEPT ![d] = [doc[d] EXCEPT !.lastCmd = "old"]]
    /\ UNCHANGED <<pc, held, owner, queue, connected, pending, proxied, unblocks>>

\* One tick of the job: every idle device is released, none is waited for.
ReleaseBlockedDevices ==
    LET S == {d \in IdleDevices(doc) : MayUnblock(d)} IN
    /\ S # {}
    /\ BeginUnblock(S, None)
    /\ UNCHANGED <<doc, pc, held, owner, queue, connected, pending, proxied>>

\* The job for pending sessions removes an entry older than the timeout.
CleanPendingSession(r) ==
    /\ r \in pending
    /\ pending' = pending \ {r}
    /\ UNCHANGED <<doc, pc, held, owner, queue, connected, proxied, unblocks>>

-----------------------------------------------------------------------------
(* The dashboard and the trackers *)

UserBlocks(d) ==
    /\ "block" \in Environment
    /\ doc[d].stored
    /\ doc' = UserBlockDevice(doc, d)
    /\ UNCHANGED <<pc, held, owner, queue, connected, pending, proxied, unblocks>>

UserUnblocks(d) ==
    /\ "unblock" \in Environment
    /\ doc[d].stored
    /\ doc' = UserUnblockDevice(doc, d)
    /\ UNCHANGED <<pc, held, owner, queue, connected, pending, proxied, unblocks>>

DeviceLost(d) ==
    /\ "hotplug" \in Environment
    /\ doc[d].stored
    /\ doc' = RemoveDevice(doc, d)
    /\ UNCHANGED <<pc, held, owner, queue, connected, pending, proxied, unblocks>>

DeviceFound(d) ==
    /\ "hotplug" \in Environment
    /\ ~doc[d].stored
    /\ doc' = AddNewDevice(doc, d)
    /\ UNCHANGED <<pc, held, owner, queue, connected, pending, proxied, unblocks>>

-----------------------------------------------------------------------------
RequestStep(r) ==
    \/ EnqueueRequest(r)
    \/ AcquireLock(r)
    \/ AllocateDevice(r)
    \/ GiveUp(r)
    \/ ConfigureDevice(r)
    \/ ConfigureFails(r)
    \/ SessionStarts(r)
    \/ SessionFails(r)
    \/ StartThrows(r)
    \/ Command(r)
    \/ DeleteSession(r)
    \/ QuitDriver(r)
    \/ ProxyDelete(r)
    \/ NodeReportsShutdown(r)
    \/ ClientDisconnects(r)
    \/ CleanPendingSession(r)

DeviceStep(d) ==
    \/ CommandTimeout(d)
    \/ UserBlocks(d)
    \/ UserUnblocks(d)
    \/ DeviceLost(d)
    \/ DeviceFound(d)

UnblockStep(u) == FinishUnblock(u) \/ UnblockFails(u)

Next ==
    \/ \E r \in Requests : RequestStep(r)
    \/ \E d \in Devices : DeviceStep(d)
    \/ \E u \in Unblock : UnblockStep(u)
    \/ ReleaseBlockedDevices

Spec == Init /\ [][Next]_vars

(***************************************************************************)
(* Fairness.  Every wait in the handling of a request ends: a lock that is   *)
(* free is given on, waitUntil has a timeout, the preparation of a device    *)
(* and the driver answer in the end or fail, and so does a file write.  The  *)
(* jobs run at fixed intervals and the clock does not stop.  Nothing is      *)
(* assumed of clients, of people at the dashboard and of the trackers.       *)
(***************************************************************************)
Fairness ==
    /\ \A r \in Requests :
          /\ WF_vars(AcquireLock(r))
          /\ WF_vars(AllocateDevice(r) \/ GiveUp(r))
          /\ WF_vars(ConfigureDevice(r) \/ ConfigureFails(r))
          /\ WF_vars(SessionStarts(r) \/ SessionFails(r) \/ StartThrows(r))
          /\ WF_vars(QuitDriver(r))
    /\ \A d \in Devices : WF_vars(CommandTimeout(d))
    /\ \A u \in Unblock : WF_vars(UnblockStep(u))
    /\ WF_vars(ReleaseBlockedDevices)

FairSpec == Spec /\ Fairness

-----------------------------------------------------------------------------
(* Properties *)

\* Request r relies on device d: it prepares it, or has a session on it.
Claims(r, d) ==
    \/ pc[r] \in {"configuring", "starting"} /\ held[r] = d
    \/ pc[r] \in {"active", "releasing"} /\ doc[d].session = r

(***************************************************************************)
(* No device is given to two requests at a time: blocking a device "will     *)
(* prevent subsequent request from getting the same device"                  *)
(* (docs/architecture.md), from the poll that finds the device in            *)
(* allocateDeviceForSession to the end of the session.                       *)
(***************************************************************************)
ExclusiveClaim ==
    \A d \in Devices : \A r, s \in Requests :
        Claims(r, d) /\ Claims(s, d) => r = s

\* The request that relies on a device, if there is one.
Claimant(d) ==
    IF \E r \in Requests : Claims(r, d)
    THEN CHOOSE r \in Requests : Claims(r, d)
    ELSE None

Lease == INSTANCE DeviceLease WITH
    Clients <- Requests,
    Nobody <- None,
    Limit <- MaxSessions,
    lease <- [d \in Devices |-> Claimant(d)],
    served <- {r \in Requests : held[r] # None}

(***************************************************************************)
(* createSession and the release paths together lend devices as DeviceLease *)
(* promises: a device goes from one request to the next only through a      *)
(* moment in which nobody relies on it, a request that has lost its device  *)
(* never gets another one, and the limit holds at every grant.              *)
(***************************************************************************)
ImplementsLease == Lease!Spec

(***************************************************************************)
(* The environments in which these hold: nobody unblocks a device by hand,   *)
(* the collection does not change, two releases of a device do not overlap,  *)
(* and devices are not both blocked by hand and asked for by udid.  None of  *)
(* the four can be dropped: the device of a request that still prepares it   *)
(* is given to the next one when it is unblocked by hand, unplugged and      *)
(* plugged in, released twice, or named by its udid while it is blocked.     *)
(***************************************************************************)
Tame ==
    /\ {"unblock", "hotplug", "overlap"} \cap Environment = {}
    /\ "block" \in Environment => ByUdid = {}

(***************************************************************************)
(* maxSessions limits how many sessions can be active at a time: although    *)
(* the code tests for equality only, and counts busy devices instead of      *)
(* sessions, the number of busy devices never passes the limit.              *)
(***************************************************************************)
SessionCap == Cardinality(BusyDevices(doc)) <= MaxSessions

(***************************************************************************)
(* The queue the dashboard shows lists only requests that still wait for a   *)
(* session: every way createSession can end removes the pending entry.       *)
(***************************************************************************)
PendingIsLive ==
    \A r \in pending : pc[r] \in {"queued", "polling", "configuring", "starting"}

(***************************************************************************)
(* The middleware proxies a session to another node exactly as long as the   *)
(* session is open: from createSession to the end of the DELETE, even when   *)
(* the device was released, lost or given away in the meantime.              *)
(***************************************************************************)
ProxyMatchesSession ==
    \A r \in Requests :
        r \in proxied <=> pc[r] \in {"active", "releasing"} /\ held[r] \in Remote

(***************************************************************************)
(* A session that nobody ends keeps its device until the device has been     *)
(* idle for its timeout ("When last received command is older than this      *)
(* value", docs/server-args.md), and still is when it is taken away, or      *)
(* until its node says that the driver is dead.  No later action of another, *)
(* older session takes it.                                                   *)
(***************************************************************************)
DeviceTakenOnlyWhenIdle ==
    [][\A d \in Devices : \A r \in Requests :
         /\ doc[d].session = r
         /\ pc[r] = "active"
         /\ doc'[d].session # r
         => doc[d].lastCmd = "old" \/ NodeReportsShutdown(r)]_vars

\* Request r has a place in the queue of its lock, and one only.
WaitsOnce(r) ==
    \E i \in 1..Len(queue[LockOf[r]]) :
        \A j \in 1..Len(queue[LockOf[r]]) : queue[LockOf[r]][j] = r <=> j = i

(***************************************************************************)
(* No request waits for nobody: the owner of a lock is the one request with *)
(* that lock that is in allocateDeviceForSession, so an error, a timeout or *)
(* a client that leaves gives the lock on; and a queue has the requests     *)
(* that wait for its lock, all of them, each once.                          *)
(***************************************************************************)
LocksAreServed ==
    /\ \A r \in Requests :
          owner[LockOf[r]] = r <=> pc[r] \in {"polling", "configuring"}
    /\ \A r \in Requests : pc[r] = "queued" => WaitsOnce(r)
    /\ \A l \in Locks :
          /\ owner[l] # None => LockOf[owner[l]] = l
          /\ \A i \in 1..Len(queue[l]) :
                LockOf[queue[l][i]] = l /\ pc[queue[l][i]] = "queued"

(***************************************************************************)
(* Every session request is answered, with a session or with an error, also  *)
(* when it has to wait for the lock behind requests that find no device, and *)
(* whatever clients, people and cables do.                                   *)
(***************************************************************************)
RequestAnswered ==
    \A r \in Requests : pc[r] = "queued" ~> pc[r] \in {"active", "failed"}

(***************************************************************************)
(* A busy device is not lost: it becomes free, unless commands arrive for    *)
(* its session.                                                              *)
(***************************************************************************)
BusyDeviceIsReleased ==
    \A d \in Devices :
        doc[d].stored /\ doc[d].busy /\ doc[d].lastCmd # "recent"
          ~> ~doc[d].stored \/ ~doc[d].busy \/ doc[d].lastCmd = "recent"

=============================================================================
