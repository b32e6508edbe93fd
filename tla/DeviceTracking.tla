--------------------------- MODULE DeviceTracking ---------------------------
(***************************************************************************)
(* How one server follows the devices that are plugged into it, and how a   *)
(* node keeps its hub informed.                                             *)
(*                                                                          *)
(*   plugged    booting -> querying -> addPosting -> adding                 *)
(*   unplugged  removePosting -> removing                                   *)
(*   node job   probing -> listing -> posting                               *)
(*                                                                          *)
(* Every event of a tracker starts a handler of its own, and nothing orders *)
(* the handlers: onDeviceRemoved calls abort() on the controller of the     *)
(* device, but no wait of onDeviceAdded looks at its signal, so the         *)
(* controllers are not part of the state.                                   *)
(***************************************************************************)
EXTENDS Naturals, FiniteSets

CONSTANTS
    Devices,
    Ios,          \* the iOS devices; the others are Android devices
    Hosted,       \* devices whose host contains bindHostOrIp
    Tasks,        \* the bound on the handlers that run at a time
    MaxListeners, \* the bound on the listeners of one iOS event
    None,
    HasHub,       \* this server is a node: it has the argument hub
    Environment   \* the behaviours of the environment that are switched on

(***************************************************************************)
(*   boot     a device that is there may boot too slowly or answer wrongly  *)
(*   hub      the hub may not be reached, or answer with an error           *)
(*   race     a device may leave while its details are being stored         *)
(*   tracker  the connection to the adb server may end                      *)
(***************************************************************************)
Behaviours == {"boot", "hub", "race", "tracker"}

ASSUME TrackingAssumption ==
    /\ Ios \subseteq Devices
    /\ Hosted \subseteq Devices
    /\ None \notin Devices
    /\ MaxListeners \in Nat \ {0}
    /\ HasHub \in BOOLEAN
    /\ Environment \subseteq Behaviours

VARIABLES
    plug,      \* what adb or usbmux sees of each device
    tracking,  \* the handlers hang on the connection that adb serves
    listeners, \* the pairs of listeners that hang on the iOS tracker
    task,      \* the handlers of tracker events
    job,       \* updateDeviceList
    db,        \* the devices in the collection of this server
    hub        \* the devices of this server in the collection of its hub

vars == <<plug, tracking, listeners, task, job, db, hub>>

AddStages == {"booting", "querying", "addPosting", "adding"}
RemoveStages == {"removePosting", "removing"}

Idle == [dev |-> None, at |-> "idle"]
Task == [dev : Devices, at : AddStages \cup RemoveStages] \cup {Idle}

\* known: the devices in the list whose document was found in the collection.
JobAt(stage) == [at |-> stage, list |-> {}, known |-> {}]
JobIdle == JobAt("idle")
Job == [at : {"idle", "probing", "listing", "posting"},
        list : SUBSET Devices, known : SUBSET Devices]

TypeOK ==
    /\ plug \in [Devices -> {"absent", "offline", "online"}]
    /\ tracking \in BOOLEAN
    /\ listeners \in 0..MaxListeners
    /\ task \in [Tasks -> Task]
    /\ job \in Job
    /\ db \subseteq Devices
    /\ hub \subseteq Devices

Init ==
    /\ plug = [d \in Devices |-> "absent"]
    /\ tracking = TRUE
    /\ listeners = 0
    /\ task = [t \in Tasks |-> Idle]
    /\ job = JobAt("probing")
    /\ db = {}
    /\ hub = {}

Handling(d, stages) == \E t \in Tasks : task[t].dev = d /\ task[t].at \in stages

\* removeDevice: the host of the document must contain the one that is asked.
Without(collection, d) == collection \ ({d} \cap Hosted)

-----------------------------------------------------------------------------
(* What happens to devices, and the events of the trackers *)

Heard(d) == d \in Ios \/ tracking

(***************************************************************************)
(* An event starts one handler, or, since every listing of iOS devices      *)
(* attaches listeners to the one tracker again, as many as there were       *)
(* listings.  The first listeners hear of the devices that are there.       *)
(***************************************************************************)
Handlers(d) == IF d \in Ios /\ listeners > 0 THEN listeners ELSE 1

Begin(d, stage) ==
    \E started \in SUBSET {t \in Tasks : task[t] = Idle} :
        /\ Cardinality(started) = Handlers(d)
        /\ task' = [t \in Tasks |-> IF t \in started
                                   THEN [dev |-> d, at |-> stage] ELSE task[t]]

\* The details of the device are about to be stored here or at the hub.
BeingStored(d) == Handling(d, {"addPosting", "adding"}) \/ d \in job.list

MayLeave(d) == "race" \in Environment \/ ~BeingStored(d)

\* "add", "change" to another type than offline, or "attached".
DeviceComes(d) ==
    /\ plug[d] # "online"
    /\ plug' = [plug EXCEPT ![d] = "online"]
    /\ IF Heard(d)
       THEN Begin(d, IF d \in Ios THEN "querying" ELSE "booting")
       ELSE UNCHANGED task
    /\ UNCHANGED <<tracking, listeners, job, db, hub>>

\* "add" of a device that is offline: onDeviceAdded ignores it.
DeviceComesOffline(d) ==
    /\ d \notin Ios
    /\ plug[d] = "absent"
    /\ plug' = [plug EXCEPT ![d] = "offline"]
    /\ UNCHANGED <<tracking, listeners, task, job, db, hub>>

\* onDeviceRemoved tells the hub first and waits for its answer.
OnDeviceRemoved(d) ==
    IF HasHub
    THEN /\ Begin(d, "removePosting")
         /\ UNCHANGED db
    ELSE /\ db' = Without(db, d)
         /\ UNCHANGED task

\* "remove", "change" to offline, or "detached".
DeviceGoes(d, to) ==
    /\ MayLeave(d)
    /\ plug' = [plug EXCEPT ![d] = to]
    /\ IF Heard(d) THEN OnDeviceRemoved(d) ELSE UNCHANGED <<task, db>>
    /\ UNCHANGED <<tracking, listeners, job, hub>>

DeviceLeaves(d) == plug[d] # "absent" /\ DeviceGoes(d, "absent")

DeviceGoesOffline(d) ==
    /\ d \notin Ios
    /\ plug[d] = "online"
    /\ DeviceGoes(d, "offline")

\* The handler of "end" attaches the handlers to the ended tracker once more.
TrackerEnds ==
    /\ "tracker" \in Environment
    /\ tracking
    /\ tracking' = FALSE
    /\ UNCHANGED <<plug, listeners, task, job, db, hub>>

-----------------------------------------------------------------------------
(* The handlers *)

Advance(t, stage) == task' = [task EXCEPT ![t] = [dev |-> @.dev, at |-> stage]]

\* Mutant of EndTask: the place of the handler is not cleared.
EndTaskKeepingDevice(t) == task' = [task EXCEPT ![t].at = "idle"]

EndTask(t) == task' = [task EXCEPT ![t] = Idle]

Unresponsive(d) == plug[d] # "online" \/ "boot" \in Environment

BootCompletes(t) ==
    /\ task[t].at = "booting"
    /\ plug[task[t].dev] = "online"
    /\ Advance(t, "querying")
    /\ UNCHANGED <<plug, tracking, listeners, job, db, hub>>

BootFails(t) ==
    /\ task[t].at = "booting"
    /\ Unresponsive(task[t].dev)
    /\ EndTask(t)
    /\ UNCHANGED <<plug, tracking, listeners, job, db, hub>>

\* Mutant of DetailsKnown: a device that has gone has details too.
DetailsKnownAnyway(d) == TRUE

\* The queries of deviceInfo succeed only on a device that is there.
DetailsKnown(d) == plug[d] = "online"

\* From here on, while chromedriver is fetched, nothing notices a departure.
QueryDone(t) ==
    /\ task[t].at = "querying"
    /\ DetailsKnown(task[t].dev)
    /\ Advance(t, IF HasHub THEN "addPosting" ELSE "adding")
    /\ UNCHANGED <<plug, tracking, listeners, job, db, hub>>

QueryFails(t) ==
    /\ task[t].at = "querying"
    /\ Unresponsive(task[t].dev)
    /\ EndTask(t)
    /\ UNCHANGED <<plug, tracking, listeners, job, db, hub>>

\* postDevicesToHub, received by registerNode at the hub.
PostReaches(t) ==
    LET d == task[t].dev IN
    /\ \/ /\ task[t].at = "addPosting"
          /\ hub' = hub \cup {d}
          /\ Advance(t, "adding")
       \/ /\ task[t].at = "removePosting"
          /\ hub' = Without(hub, d)
          /\ Advance(t, "removing")
    /\ UNCHANGED <<plug, tracking, listeners, job, db>>

\* postDevicesToHub logs the error and returns.
PostFails(t) ==
    /\ "hub" \in Environment
    /\ \/ task[t].at = "addPosting" /\ Advance(t, "adding")
       \/ task[t].at = "removePosting" /\ Advance(t, "removing")
    /\ UNCHANGED <<plug, tracking, listeners, job, db, hub>>

InsertDevice(t) ==
    /\ task[t].at = "adding"
    /\ db' = db \cup {task[t].dev}
    /\ EndTask(t)
    /\ UNCHANGED <<plug, tracking, listeners, job, hub>>

DropDevice(t) ==
    /\ task[t].at = "removing"
    /\ db' = Without(db, task[t].dev)
    /\ EndTask(t)
    /\ UNCHANGED <<plug, tracking, listeners, job, hub>>

-----------------------------------------------------------------------------
(* updateDeviceList: once at the start, and at an interval on a node *)

JobStart ==
    /\ HasHub
    /\ job = JobIdle
    /\ job' = JobAt("probing")
    /\ UNCHANGED <<plug, tracking, listeners, task, db, hub>>

\* The hub does not answer: the node forgets its devices.
JobHubDown ==
    /\ HasHub
    /\ "hub" \in Environment
    /\ job.at = "probing"
    /\ job' = JobIdle
    /\ db' = {}
    /\ UNCHANGED <<plug, tracking, listeners, task, hub>>

\* Mutant of Connected: documents are listed without looking for the device.
ConnectedOrKnown == {d \in Devices : plug[d] = "online" \/ d \in db}

\* adb also names devices that are offline; they count if they have a document.
Connected ==
    {d \in Devices : plug[d] = "online" \/ (plug[d] = "offline" /\ d \in db)}

JobLists ==
    /\ job.at = "probing"
    /\ job' = [at |-> "listing", list |-> Connected, known |-> Connected \cap db]
    /\ UNCHANGED <<plug, tracking, listeners, task, db, hub>>

\* trackIOSDevices, at the end of every listing.
Listen ==
    listeners' = IF listeners < MaxListeners THEN listeners + 1 ELSE listeners

\* Mutant of JobStores: the hub is sent the new devices only.
JobStoresNews ==
    /\ job.at = "listing"
    /\ db' = db \cup job.list
    /\ job' = IF HasHub
              THEN [at |-> "posting", list |-> job.list \ job.known, known |-> {}]
              ELSE JobIdle
    /\ Listen
    /\ UNCHANGED <<plug, tracking, task, hub>>

\* Devices without a document were queried; one of adb that fails is left out.
JobStores ==
    /\ job.at = "listing"
    /\ \E kept \in SUBSET job.list :
          /\ job.known \cup (job.list \cap Ios) \subseteq kept
          /\ \A d \in job.list \ kept : Unresponsive(d)
          /\ db' = db \cup kept
          /\ job' = IF HasHub /\ kept # {}
                    THEN [at |-> "posting", list |-> kept, known |-> {}]
                    ELSE JobIdle
    /\ Listen
    /\ UNCHANGED <<plug, tracking, task, hub>>

\* The details of an iOS device are not to be had: nothing at all is listed.
JobListingFails ==
    /\ job.at = "listing"
    /\ \E d \in (job.list \cap Ios) \ job.known : Unresponsive(d)
    /\ job' = JobIdle
    /\ UNCHANGED <<plug, tracking, listeners, task, db, hub>>

JobPostReaches ==
    /\ job.at = "posting"
    /\ hub' = hub \cup job.list
    /\ job' = JobIdle
    /\ UNCHANGED <<plug, tracking, listeners, task, db>>

JobPostFails ==
    /\ "hub" \in Environment
    /\ job.at = "posting"
    /\ job' = JobIdle
    /\ UNCHANGED <<plug, tracking, listeners, task, db, hub>>

-----------------------------------------------------------------------------
DeviceStep(d) ==
    \/ DeviceComes(d)
    \/ DeviceComesOffline(d)
    \/ DeviceLeaves(d)
    \/ DeviceGoesOffline(d)

TaskStep(t) ==
    \/ BootCompletes(t)
    \/ BootFails(t)
    \/ QueryDone(t)
    \/ QueryFails(t)
    \/ PostReaches(t)
    \/ PostFails(t)
    \/ InsertDevice(t)
    \/ DropDevice(t)

JobStep ==
    \/ JobStart
    \/ JobHubDown
    \/ JobLists
    \/ JobStores
    \/ JobListingFails
    \/ JobPostReaches
    \/ JobPostFails

Next ==
    \/ \E d \in Devices : DeviceStep(d)
    \/ TrackerEnds
    \/ \E t \in Tasks : TaskStep(t)
    \/ JobStep

Spec == Init /\ [][Next]_vars

(***************************************************************************)
(* Fairness.  The waits of a handler and of the job end: the boot wait, the *)
(* adb commands and the HTTP calls have timeouts or fail, and the interval  *)
(* timer of the job fires again.  Nothing is assumed of devices or of adb.  *)
(***************************************************************************)
Fairness == (\A t \in Tasks : WF_vars(TaskStep(t))) /\ WF_vars(JobStep)

FairSpec == Spec /\ Fairness

-----------------------------------------------------------------------------
(* Properties *)

(***************************************************************************)
(* A device that was unplugged is not in the collection of its server,      *)
(* unless a handler of its removal is still at work: whatever handlers and  *)
(* runs of the job were under way, none of them brings the device back.     *)
(* Said of a device whose tracker is connected.                             *)
(***************************************************************************)
NodeForgets ==
    \A d \in Devices :
        Heard(d) /\ plug[d] = "absent" /\ d \in db => Handling(d, RemoveStages)

(***************************************************************************)
(* The same at the hub: a device that was unplugged from a node is not      *)
(* offered by the hub, unless the message of its removal is on its way.     *)
(***************************************************************************)
HubForgets ==
    \A d \in Devices :
        Heard(d) /\ plug[d] = "absent" /\ d \in hub =>
            Handling(d, {"removePosting"})

(***************************************************************************)
(* A device that stays plugged is in the end listed for good, here and at   *)
(* the hub, even if handlers of earlier departures are still running then.  *)
(***************************************************************************)
AttachedIsListed ==
    \A d \in Devices :
        <>[](plug[d] = "online") => <>[](d \in db /\ (HasHub => d \in hub))

=============================================================================
