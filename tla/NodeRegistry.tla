---------------------------- MODULE NodeRegistry ----------------------------
(***************************************************************************)
(* A hub and its nodes.  The hub and every node are servers with a          *)
(* collection of their own; a device of a node has a document in both.      *)
(*                                                                          *)
(*   new -> forwarded -> starting -> running -> active -> deleting -> over  *)
(*              |            |          |         |                   ^     *)
(*              +-> broken <-+----------+         +-> lost,           |     *)
(*                                                   idle, orphan ----+     *)
(*                                                                          *)
(* broken: the node has failed the request, the hub has yet to hear of it;  *)
(* lost: the session has ended with its node, the hub does not know;        *)
(* idle: the hub's job has found the session idle and freed its document;   *)
(* orphan: the hub has restarted and knows nothing of the session.          *)
(* A request is blocked at the hub, forwarded, and handled by the same code *)
(* on the node, where it must obtain a device a second time.  A document    *)
(* is abstracted to what the two servers tell each other: whether it is     *)
(* there, free or busy, and the session that is written in it, which is not *)
(* the same: a free document may have a session, and a busy one none.       *)
(***************************************************************************)
CONSTANTS
    Nodes,
    Devices,
    HostOf,       \* Devices -> Nodes
    Requests,     \* the requests for devices of nodes that the hub receives
    Named,        \* the devices that df:udids lists, none without df:udids
    None,
    Environment   \* the behaviours of the environment that are switched on

(***************************************************************************)
(*   crash    a node stops with all its sessions, and may start again       *)
(*   restart  the hub restarts                                              *)
(*   outage   the hub does not answer a node's probe, list or report        *)
(*   slow     a node that is up does not answer the hub's probe in time     *)
(*   giveup   the hub's request to a node times out, the node works on      *)
(*   fail     a preparation throws, or a driver does not start or dies      *)
(***************************************************************************)
Behaviours == {"crash", "restart", "outage", "slow", "giveup", "fail"}

Doc == [state : {"none", "free", "busy"}, session : Requests \cup {None}]

Missing == [state |-> "none", session |-> None]
Free == [state |-> "free", session |-> None]
InSession(q) == [state |-> "busy", session |-> q]

ASSUME RegistryAssumption ==
    /\ HostOf \in [Devices -> Nodes]
    /\ Named \in [Requests -> SUBSET Devices]
    /\ None \notin Devices \cup Requests
    /\ Environment \subseteq Behaviours

VARIABLES
    up,      \* the nodes that are running
    hubDb,   \* the hub's collection
    nodeDb,  \* the collections of the nodes, each with its own devices
    at,      \* how far each request has come
    dev,     \* the device the hub has blocked for it
    on,      \* the device its node has blocked for it
    heard,   \* the requests whose answer the hub still waits for or has got
    job,     \* updateDeviceList on each node
    list,    \* the sessions in the documents a node is about to post
    seen,    \* the devices removeStaleDevices looks at, while it probes
    dead     \* the nodes it has found not running

\* History: the sessions whose document the job of their node has freed.
VARIABLE expired

vars == <<up, hubDb, nodeDb, at, dev, on, heard, job, list, seen, dead,
          expired>>

Stages == {"new", "forwarded", "starting", "running", "active", "deleting",
           "broken", "lost", "idle", "orphan", "over"}

TypeOK ==
    /\ up \subseteq Nodes
    /\ hubDb \in [Devices -> Doc]
    /\ nodeDb \in [Devices -> Doc]
    /\ at \in [Requests -> Stages]
    /\ dev \in [Requests -> Devices \cup {None}]
    /\ on \in [Requests -> Devices \cup {None}]
    /\ heard \subseteq Requests
    /\ job \in [Nodes -> {"idle", "probing", "posting"}]
    /\ list \in [Devices -> Requests \cup {None}]
    /\ seen \subseteq Devices
    /\ dead \subseteq Nodes
    /\ expired \subseteq Requests

Init ==
    /\ up = {}
    /\ hubDb = [d \in Devices |-> Missing]
    /\ nodeDb = [d \in Devices |-> Missing]
    /\ at = [q \in Requests |-> "new"]
    /\ dev = [q \in Requests |-> None]
    /\ on = [q \in Requests |-> None]
    /\ heard = {}
    /\ job = [n \in Nodes |-> "idle"]
    /\ list = [d \in Devices |-> None]
    /\ seen = {}
    /\ dead = {}
    /\ expired = {}

requestVars == <<at, dev, on, heard>>
registryVars == <<up, job, list, seen, dead>>

\* Mutant of AddNewDevices: a document that is there is overwritten.
AddNewDevicesAnyway(collection, S, sessions) ==
    [d \in Devices |-> IF d \in S THEN [state |-> "free", session |-> sessions[d]]
                       ELSE collection[d]]

(***************************************************************************)
(* addNewDevice inserts what has no document.  The new document is not      *)
(* busy, but has every other field of the document that was listed.         *)
(***************************************************************************)
AddNewDevices(collection, S, sessions) ==
    [d \in Devices |->
        IF d \in S /\ collection[d].state = "none"
        THEN [state |-> "free", session |-> sessions[d]] ELSE collection[d]]

RemoveDevices(collection, S) ==
    [d \in Devices |-> IF d \in S THEN Missing ELSE collection[d]]

\* blockDevice leaves the session that is written in the document.
BlockDevice(collection, d) == [collection EXCEPT ![d].state = "busy"]

\* A document that is missing is not updated.
Update(collection, d, doc) ==
    [collection EXCEPT ![d] = IF @.state = "none" THEN @ ELSE doc]

\* Mutant of UnblockSession: it clears the document of the device.
UnblockSessionOfDevice(collection, q) == Update(collection, dev[q], Free)

\* unblockDeviceMatchingFilter with a session id.
UnblockSession(collection, q) ==
    [d \in Devices |-> IF collection[d].session = q THEN Free ELSE collection[d]]

\* The /unblock route: the document must have the session and the udid.
UnblockDriver(collection, q) ==
    [d \in Devices |-> IF collection[d].session = q /\ d = on[q] THEN Free
                       ELSE collection[d]]

(***************************************************************************)
(* unblockCandidateDevices: a busy document with a command time, which only *)
(* documents with a session get.  How long ago that was is left open: one   *)
(* command may take longer than the timeout of its device.                  *)
(***************************************************************************)
Candidate(doc) == doc.state = "busy" /\ doc.session # None

HostedBy(n) == {d \in Devices : HostOf[d] = n}
IsUp(q) == HostOf[dev[q]] \in up
Move(q, stage) == at' = [at EXCEPT ![q] = stage]

-----------------------------------------------------------------------------
(* A session on a device of a node *)

\* The hub blocks its document and posts the request to the node.
HubForwards(q) ==
    /\ at[q] = "new"
    /\ \E d \in Devices :
          /\ Named[q] # {} => d \in Named[q]
          /\ hubDb[d].state = "free"
          /\ hubDb' = BlockDevice(hubDb, d)
          /\ dev' = [dev EXCEPT ![q] = d]
    /\ heard' = heard \cup {q}
    /\ Move(q, "forwarded")
    /\ UNCHANGED <<nodeDb, on, registryVars, expired>>

\* The filter of the node: df:udids, or else the udid that the hub has set.
Eligible(q) ==
    IF Named[q] = {} THEN {dev[q]}
    ELSE {d \in Named[q] : HostOf[d] = HostOf[dev[q]]}

\* A request the hub has dropped is not served: its socket is closed.
Serves(q) == q \in heard /\ IsUp(q)

NodeAllocates(q) ==
    /\ at[q] = "forwarded"
    /\ Serves(q)
    /\ \E d \in Eligible(q) :
          /\ nodeDb[d].state = "free"
          /\ nodeDb' = BlockDevice(nodeDb, d)
          /\ on' = [on EXCEPT ![q] = d]
    /\ Move(q, "starting")
    /\ UNCHANGED <<hubDb, dev, heard, registryVars, expired>>

(***************************************************************************)
(* No free document in time, none at all, or too many sessions; the hub has *)
(* gone, or the node has.  A preparation that throws leaves its device      *)
(* blocked.                                                                 *)
(***************************************************************************)
NodeRefuses(q) ==
    /\ at[q] = "forwarded"
    /\ \/ UNCHANGED nodeDb
       \/ /\ "fail" \in Environment
          /\ Serves(q)
          /\ \E d \in Eligible(q) : /\ nodeDb[d].state = "free"
                                    /\ nodeDb' = BlockDevice(nodeDb, d)
    /\ Move(q, "broken")
    /\ UNCHANGED <<hubDb, dev, on, heard, registryVars, expired>>

DriverStarts(q) ==
    /\ at[q] = "starting"
    /\ nodeDb' = Update(nodeDb, on[q], InSession(q))
    /\ Move(q, "running")
    /\ UNCHANGED <<hubDb, dev, on, heard, registryVars, expired>>

DriverFails(q) ==
    /\ "fail" \in Environment
    /\ at[q] = "starting"
    /\ nodeDb' = Update(nodeDb, on[q], Free)
    /\ Move(q, "broken")
    /\ UNCHANGED <<hubDb, dev, on, heard, registryVars, expired>>

\* Mutant of HubRecords: the udid is written where the session id belongs.
HubRecordsUdid(q) ==
    /\ at[q] = "running"
    /\ q \in heard
    /\ hubDb' = Update(hubDb, dev[q], InSession(dev[q]))
    /\ Move(q, "active")
    /\ UNCHANGED <<nodeDb, dev, on, heard, registryVars, expired>>

HubRecords(q) ==
    /\ at[q] = "running"
    /\ q \in heard
    /\ hubDb' = Update(hubDb, dev[q], InSession(q))
    /\ Move(q, "active")
    /\ UNCHANGED <<nodeDb, dev, on, heard, registryVars, expired>>

\* An error reaches the hub, which unblocks whatever document it finds.
HubUnblocks(q) ==
    /\ at[q] = "broken"
    /\ hubDb' = IF q \in heard THEN Update(hubDb, dev[q], Free) ELSE hubDb
    /\ Move(q, "over")
    /\ UNCHANGED <<nodeDb, dev, on, heard, registryVars, expired>>

\* Mutant of HubGivesUp: the hub tries once more with another device.
HubTriesAgain(q) ==
    /\ "giveup" \in Environment
    /\ at[q] \in {"forwarded", "starting", "running"}
    /\ q \in heard
    /\ heard' = heard \ {q}
    /\ hubDb' = Update(hubDb, dev[q], Free)
    /\ Move(q, "new")
    /\ UNCHANGED <<nodeDb, dev, on, registryVars, expired>>

\* remoteConnectionTimeout: the hub unblocks, the node does not hear of it.
HubGivesUp(q) ==
    /\ "giveup" \in Environment
    /\ at[q] \in {"forwarded", "starting", "running"}
    /\ q \in heard
    /\ heard' = heard \ {q}
    /\ hubDb' = Update(hubDb, dev[q], Free)
    /\ UNCHANGED <<nodeDb, at, dev, on, registryVars, expired>>

(***************************************************************************)
(* DELETE: the hub forwards it and unblocks without waiting for the node.   *)
(* A hub that has restarted has no proxy, and its own deleteSession does    *)
(* nothing but unblock.                                                     *)
(***************************************************************************)
HubDeletes(q) ==
    /\ \/ at[q] \in {"active", "idle"} /\ Move(q, "deleting")
       \/ at[q] = "lost" /\ Move(q, "over")
       \/ at[q] = "orphan" /\ UNCHANGED at
    /\ hubDb' = UnblockSession(hubDb, q)
    /\ UNCHANGED <<nodeDb, dev, on, heard, registryVars, expired>>

NodeDeletes(q) ==
    /\ at[q] = "deleting"
    /\ nodeDb' = UnblockSession(nodeDb, q)
    /\ Move(q, "over")
    /\ UNCHANGED <<hubDb, dev, on, heard, registryVars, expired>>

(***************************************************************************)
(* The driver shuts down, for an error or its own command timeout.  The     *)
(* node tells the hub, if it can; its own document stays as it is.          *)
(***************************************************************************)
DriverDies(q) ==
    /\ \/ at[q] = "active" /\ "fail" \in Environment
       \/ at[q] \in {"running", "orphan"} /\ q \notin heard
       \/ at[q] = "idle"
    /\ \/ hubDb' = UnblockDriver(hubDb, q)
       \/ "outage" \in Environment /\ UNCHANGED hubDb
    /\ Move(q, "over")
    /\ UNCHANGED <<nodeDb, dev, on, heard, registryVars, expired>>

-----------------------------------------------------------------------------
(***************************************************************************)
(* releaseBlockedDevices, a job of each server on its own documents.  It    *)
(* frees the document of a session whether its driver has ended or not.     *)
(***************************************************************************)
HubReleasesIdle(d) ==
    /\ Candidate(hubDb[d])
    /\ hubDb' = Update(hubDb, d, Free)
    /\ at' = [q \in Requests |->
                IF q = hubDb[d].session /\ at[q] = "active" THEN "idle" ELSE at[q]]
    /\ UNCHANGED <<nodeDb, dev, on, heard, registryVars, expired>>

NodeReleasesIdle(d) ==
    /\ Candidate(nodeDb[d])
    /\ nodeDb' = Update(nodeDb, d, Free)
    /\ expired' = expired \cup {nodeDb[d].session}
    /\ UNCHANGED <<hubDb, requestVars, registryVars>>

-----------------------------------------------------------------------------
(* The list a node sends: updateDeviceList, at its start and at an interval *)

NodeProbesHub(n) ==
    /\ n \in up
    /\ job[n] = "idle"
    /\ job' = [job EXCEPT ![n] = "probing"]
    /\ UNCHANGED <<hubDb, nodeDb, requestVars, up, list, seen, dead, expired>>

\* The hub does not answer: removeDataOnly, whatever sessions there are.
NodeForgetsDevices(n) ==
    /\ "outage" \in Environment
    /\ job[n] = "probing"
    /\ nodeDb' = RemoveDevices(nodeDb, HostedBy(n))
    /\ job' = [job EXCEPT ![n] = "idle"]
    /\ UNCHANGED <<hubDb, requestVars, up, list, seen, dead, expired>>

\* What the documents of a node say is listed, but that they are busy.
Listed(n) ==
    [d \in Devices |-> IF HostOf[d] = n THEN nodeDb[d].session ELSE list[d]]

\* Mutant of NodeLists: a list without news is not sent.
NodeListsNews(n) ==
    /\ job[n] = "probing"
    /\ nodeDb' = AddNewDevices(nodeDb, HostedBy(n), Listed(n))
    /\ list' = Listed(n)
    /\ job' = [job EXCEPT ![n] = IF nodeDb' = nodeDb THEN "idle" ELSE "posting"]
    /\ UNCHANGED <<hubDb, requestVars, up, seen, dead, expired>>

NodeLists(n) ==
    /\ job[n] = "probing"
    /\ nodeDb' = AddNewDevices(nodeDb, HostedBy(n), Listed(n))
    /\ list' = Listed(n)
    /\ job' = [job EXCEPT ![n] = "posting"]
    /\ UNCHANGED <<hubDb, requestVars, up, seen, dead, expired>>

Unlisted(n) == [d \in Devices |-> IF HostOf[d] = n THEN None ELSE list[d]]

\* registerNode at the hub.
NodePosts(n) ==
    /\ job[n] = "posting"
    /\ hubDb' = AddNewDevices(hubDb, HostedBy(n), list)
    /\ list' = Unlisted(n)
    /\ job' = [job EXCEPT ![n] = "idle"]
    /\ UNCHANGED <<nodeDb, requestVars, up, seen, dead, expired>>

NodePostFails(n) ==
    /\ "outage" \in Environment
    /\ job[n] = "posting"
    /\ list' = Unlisted(n)
    /\ job' = [job EXCEPT ![n] = "idle"]
    /\ UNCHANGED <<hubDb, nodeDb, requestVars, up, seen, dead, expired>>

-----------------------------------------------------------------------------
(* The hub's look at its nodes: removeStaleDevices, at an interval *)

HubProbesNodes ==
    /\ seen = {}
    /\ seen' = {d \in Devices : hubDb[d].state # "none"}
    /\ seen' # {}
    /\ UNCHANGED <<hubDb, nodeDb, requestVars, up, job, list, dead, expired>>

\* Each host is asked; a node that has stopped does not answer.
HubFindsDead ==
    /\ seen # {}
    /\ dead = {}
    /\ \E slow \in SUBSET up :
          /\ slow # {} => "slow" \in Environment
          /\ dead' = slow \cup (Nodes \ up)
    /\ seen' = IF dead' = {} THEN {} ELSE seen
    /\ UNCHANGED <<hubDb, nodeDb, requestVars, up, job, list, expired>>

\* Mutant of HubRemovesStale: a document that is busy stays.
HubRemovesFree ==
    /\ dead # {}
    /\ hubDb' = RemoveDevices(hubDb, {d \in seen : /\ HostOf[d] \in dead
                                                  /\ hubDb[d].state = "free"})
    /\ seen' = {}
    /\ dead' = {}
    /\ UNCHANGED <<nodeDb, requestVars, up, job, list, expired>>

\* The devices it saw are removed, though their node may be back by now.
HubRemovesStale ==
    /\ dead # {}
    /\ hubDb' = RemoveDevices(hubDb, {d \in seen : HostOf[d] \in dead})
    /\ seen' = {}
    /\ dead' = {}
    /\ UNCHANGED <<nodeDb, requestVars, up, job, list, expired>>

-----------------------------------------------------------------------------
(* Stops and starts *)

NodeStarts(n) ==
    /\ n \notin up
    /\ up' = up \cup {n}
    /\ job' = [job EXCEPT ![n] = "probing"]
    /\ UNCHANGED <<hubDb, nodeDb, requestVars, list, seen, dead, expired>>

AfterCrash(stage) ==
    IF stage \in {"forwarded", "starting", "running"} THEN "broken"
    ELSE IF stage \in {"active", "idle"} THEN "lost"
    ELSE IF stage \in {"deleting", "orphan"} THEN "over" ELSE stage

\* The process ends with its drivers; its collection is emptied at the start.
NodeCrashes(n) ==
    LET here == {q \in Requests : dev[q] # None /\ HostOf[dev[q]] = n} IN
    /\ "crash" \in Environment
    /\ n \in up
    /\ up' = up \ {n}
    /\ nodeDb' = RemoveDevices(nodeDb, HostedBy(n))
    /\ job' = [job EXCEPT ![n] = "idle"]
    /\ list' = Unlisted(n)
    /\ at' = [q \in Requests |-> IF q \in here THEN AfterCrash(at[q]) ELSE at[q]]
    /\ UNCHANGED <<hubDb, dev, on, heard, seen, dead, expired>>

AfterRestart(stage) ==
    IF stage \in {"broken", "lost"} THEN "over"
    ELSE IF stage \in {"active", "idle"} THEN "orphan" ELSE stage

\* The hub loses its collection, its proxies and what it waits for.
HubRestarts ==
    /\ "restart" \in Environment
    /\ hubDb' = [d \in Devices |-> Missing]
    /\ seen' = {}
    /\ dead' = {}
    /\ heard' = {}
    /\ at' = [q \in Requests |-> AfterRestart(at[q])]
    /\ UNCHANGED <<nodeDb, dev, on, up, job, list, expired>>

-----------------------------------------------------------------------------
RequestStep(q) ==
    \/ HubForwards(q)
    \/ NodeAllocates(q)
    \/ NodeRefuses(q)
    \/ DriverStarts(q)
    \/ DriverFails(q)
    \/ HubRecords(q)
    \/ HubUnblocks(q)
    \/ HubGivesUp(q)
    \/ HubDeletes(q)
    \/ NodeDeletes(q)
    \/ DriverDies(q)

ReleaseStep(d) == HubReleasesIdle(d) \/ NodeReleasesIdle(d)

JobStep(n) ==
    \/ NodeProbesHub(n)
    \/ NodeForgetsDevices(n)
    \/ NodeLists(n)
    \/ NodePosts(n)
    \/ NodePostFails(n)

StaleStep == HubProbesNodes \/ HubFindsDead \/ HubRemovesStale

Next ==
    \/ \E q \in Requests : RequestStep(q)
    \/ \E d \in Devices : ReleaseStep(d)
    \/ \E n \in Nodes : JobStep(n) \/ NodeStarts(n) \/ NodeCrashes(n)
    \/ StaleStep
    \/ HubRestarts

Spec == Init /\ [][Next]_vars

(***************************************************************************)
(* Fairness.  The two jobs are on interval timers and every probe has a     *)
(* timeout.  Nothing is assumed of sessions, and no node has to start.      *)
(***************************************************************************)
FairSpec == Spec /\ (\A n \in Nodes : WF_vars(JobStep(n))) /\ WF_vars(StaleStep)

-----------------------------------------------------------------------------
(* Properties *)

(***************************************************************************)
(* A node has lent a device to a request from its blocking to its release,  *)
(* or until its own job has found the session idle.                         *)
(***************************************************************************)
Using(q) ==
    /\ at[q] \in {"starting", "running", "active", "idle", "deleting", "orphan"}
    /\ q \notin expired

(***************************************************************************)
(* A node never lends one device to two requests, even if the hub, having   *)
(* restarted, timed out, taken the node for dead or found a session idle,   *)
(* offers it once more, and whatever comes late of a session whose device   *)
(* was taken as idle.                                                       *)
(***************************************************************************)
OneUser ==
    \A q1, q2 \in Requests :
        Using(q1) /\ Using(q2) /\ on[q1] = on[q2] => q1 = q2

\* The request a node has lent a device to, and those it has yet to answer.
UserOf(d) ==
    IF \E q \in Requests : Using(q) /\ on[q] = d
    THEN CHOOSE q \in Requests : Using(q) /\ on[q] = d
    ELSE None

Unanswered == {q \in Requests : at[q] = "forwarded"}

Lease == INSTANCE NodeLease WITH
    asked <- dev,
    waiting <- Unanswered,
    lease <- [d \in Devices |-> UserOf(d)]

(***************************************************************************)
(* Hub and nodes lend devices as NodeLease says: a request comes to one     *)
(* node at most once, it gets a device it has asked for there and only if   *)
(* no other request has it, and a lease ends alone or with its node, never  *)
(* by what the hub does with its own documents.                             *)
(***************************************************************************)
ImplementsNodeLease == Lease!Spec

(***************************************************************************)
(* A session the hub has handed out is written in the hub's document of its *)
(* device, so that commands, DELETE and the release job find the device,    *)
(* until the hub's own job has found the session idle.                      *)
(***************************************************************************)
HubKnowsSession ==
    \A q \in Requests : at[q] = "active" => hubDb[dev[q]] = InSession(q)

(***************************************************************************)
(* The devices of a node that stays down disappear from the hub for good.   *)
(***************************************************************************)
DeadNodeLeaves ==
    \A d \in Devices : <>[](HostOf[d] \notin up) => <>[](hubDb[d].state = "none")

(***************************************************************************)
(* The devices of a node that stays up come back to the hub, however often  *)
(* the hub restarts, gets no answer in time or removes them as stale.       *)
(***************************************************************************)
LiveNodeReturns ==
    \A d \in Devices : <>[](HostOf[d] \in up) => []<>(hubDb[d].state # "none")

=============================================================================
