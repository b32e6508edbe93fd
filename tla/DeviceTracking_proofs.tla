----------------------- MODULE DeviceTracking_proofs -----------------------
(***************************************************************************)
(* Type correctness of DeviceTracking, and that neither the server nor its  *)
(* hub keeps a device that was unplugged, for any devices and handlers.     *)
(***************************************************************************)
EXTENDS DeviceTracking, FiniteSetTheorems, TLAPS

(***************************************************************************)
(* Every step keeps the types: handlers and the job only pass through the   *)
(* stages that onDeviceAdded, onDeviceRemoved and updateDeviceList have.    *)
(***************************************************************************)
LEMMA TypeStep == TypeOK /\ [Next]_vars => TypeOK'
<1> SUFFICES ASSUME TypeOK, [Next]_vars
             PROVE  TypeOK'
  OBVIOUS
<1> USE TrackingAssumption DEF TypeOK, Task, Job, Idle, JobIdle, JobAt, AddStages, RemoveStages
<1>1. ASSUME NEW d \in Devices, DeviceComes(d)
      PROVE  TypeOK'
  <2>1. task' \in [Tasks -> Task]
    BY <1>1 DEF DeviceComes, Begin
  <2> QED
    BY <1>1, <2>1 DEF DeviceComes
<1>2. ASSUME NEW d \in Devices, DeviceComesOffline(d)
      PROVE  TypeOK'
  BY <1>2 DEF DeviceComesOffline
<1>3. ASSUME NEW d \in Devices, NEW to \in {"absent", "offline"}, DeviceGoes(d, to)
      PROVE  TypeOK'
  <2>1. task' \in [Tasks -> Task] /\ db' \subseteq Devices
    BY <1>3 DEF DeviceGoes, OnDeviceRemoved, Begin, Without
  <2> QED
    BY <1>3, <2>1 DEF DeviceGoes
<1>4. CASE TrackerEnds
  BY <1>4 DEF TrackerEnds
<1>5. ASSUME NEW t \in Tasks, TaskStep(t)
      PROVE  TypeOK'
  <2>1. task[t] \in Task
    OBVIOUS
  <2>2. task' \in [Tasks -> Task]
    BY <1>5, <2>1 DEF TaskStep, BootCompletes, BootFails, QueryDone, QueryFails,
       PostReaches, PostFails, InsertDevice, DropDevice, Advance, EndTask
  <2>3. db' \subseteq Devices /\ hub' \subseteq Devices
    BY <1>5, <2>1 DEF TaskStep, BootCompletes, BootFails, QueryDone, QueryFails,
       PostReaches, PostFails, InsertDevice, DropDevice, Without
  <2>4. UNCHANGED <<plug, tracking, listeners, job>>
    BY <1>5 DEF TaskStep, BootCompletes, BootFails, QueryDone, QueryFails,
       PostReaches, PostFails, InsertDevice, DropDevice
  <2> QED
    BY <2>2, <2>3, <2>4
<1>6. CASE JobStep
  <2>1. job' \in Job
    BY <1>6 DEF JobStep, JobStart, JobHubDown, JobLists, JobStores,
       JobListingFails, JobPostReaches, JobPostFails, Connected
  <2>2. db' \subseteq Devices /\ hub' \subseteq Devices
    BY <1>6 DEF JobStep, JobStart, JobHubDown, JobLists, JobStores,
       JobListingFails, JobPostReaches, JobPostFails
  <2>3. UNCHANGED <<plug, tracking, task>> /\ listeners' \in 0..MaxListeners
    BY <1>6 DEF JobStep, JobStart, JobHubDown, JobLists, JobStores, Listen,
       JobListingFails, JobPostReaches, JobPostFails
  <2> QED
    BY <2>1, <2>2, <2>3
<1>7. CASE UNCHANGED vars
  BY <1>7 DEF vars
<1> QED
  BY <1>1, <1>2, <1>3, <1>4, <1>5, <1>6, <1>7
     DEF Next, DeviceStep, DeviceLeaves, DeviceGoesOffline

(***************************************************************************)
(* The variables always have the types the module declares for them.        *)
(***************************************************************************)
THEOREM TrackingTypeCorrect == Spec => []TypeOK
<1>1. Init => TypeOK
  BY TrackingAssumption DEF Init, TypeOK, Task, Job, Idle, JobIdle, JobAt,
     AddStages, RemoveStages
<1> QED
  BY <1>1, TypeStep, PTL DEF Spec

-----------------------------------------------------------------------------
(***************************************************************************)
(* What the orderly part of the system is: devices do not leave while they  *)
(* are being stored, and every host contains the address that removals      *)
(* name.                                                                    *)
(***************************************************************************)
Orderly ==
    /\ "race" \notin Environment
    /\ Hosted = Devices

Settled == \A d \in Devices : plug[d] = "absent" => ~BeingStored(d)

SettledInv == TypeOK /\ Settled

(***************************************************************************)
(* A new handler takes a free place: handlers at work stay at work, and the *)
(* new one is the only one to join them.                                    *)
(***************************************************************************)
LEMMA BeginKeeps ==
  ASSUME TypeOK, NEW e \in Devices, NEW stage, Begin(e, stage),
         NEW d \in Devices, NEW stages
  PROVE  /\ Handling(d, stages) => Handling(d, stages)'
         /\ Handling(d, stages)' => Handling(d, stages) \/ (d = e /\ stage \in stages)
         /\ d = e /\ stage \in stages => Handling(d, stages)'
<1>1. PICK started \in SUBSET {t \in Tasks : task[t] = Idle} :
        /\ Cardinality(started) = Handlers(e)
        /\ task' = [t \in Tasks |-> IF t \in started
                                   THEN [dev |-> e, at |-> stage] ELSE task[t]]
  BY DEF Begin
<1>2. started # {}
  <2>1. Handlers(e) # 0
    BY DEF Handlers, TypeOK
  <2> QED
    BY <1>1, <2>1, FS_EmptySet
<1>3. /\ \A t \in started : task[t].dev # d /\ task'[t] = [dev |-> e, at |-> stage]
      /\ \A t \in Tasks \ started : task'[t] = task[t]
  BY <1>1, TrackingAssumption DEF Idle
<1> QED
  BY <1>2, <1>3 DEF Handling

(***************************************************************************)
(* A step of one handler leaves the others where they are.                  *)
(***************************************************************************)
LEMMA OtherTasks ==
  ASSUME TypeOK, NEW t \in Tasks, TaskStep(t)
  PROVE  /\ \A u \in Tasks \ {t} : task'[u] = task[u]
         /\ UNCHANGED <<plug, tracking, job>>
BY DEF TypeOK, TaskStep, BootCompletes, BootFails, QueryDone, QueryFails,
   PostReaches, PostFails, InsertDevice, DropDevice, Advance, EndTask

(***************************************************************************)
(* A handler comes to store a device only when its details are known, which *)
(* takes a device that is there, or when it was about to store it before.   *)
(***************************************************************************)
LEMMA StoringTask ==
  ASSUME TypeOK, NEW t \in Tasks, TaskStep(t), NEW d \in Devices,
         task'[t].dev = d, task'[t].at \in {"addPosting", "adding"}
  PROVE  \/ plug[d] = "online"
         \/ task[t].dev = d /\ task[t].at \in {"addPosting", "adding"}
<1>1. task[t] \in Task /\ DOMAIN task = Tasks
  BY DEF TypeOK
<1> QED
  BY <1>1 DEF Task, Idle, TaskStep, BootCompletes, BootFails, QueryDone,
     QueryFails, PostReaches, PostFails, InsertDevice, DropDevice, Advance,
     EndTask, DetailsKnown

(***************************************************************************)
(* In an orderly system no handler and no run of the job is about to store  *)
(* a device that has left.                                                  *)
(***************************************************************************)
LEMMA SettledStep == Orderly /\ SettledInv /\ [Next]_vars => SettledInv'
<1> SUFFICES ASSUME Orderly, SettledInv, [Next]_vars
             PROVE  SettledInv'
  OBVIOUS
<1>1. TypeOK /\ TypeOK'
  BY TypeStep DEF SettledInv
<1> SUFFICES ASSUME NEW d \in Devices, plug'[d] = "absent"
             PROVE  ~BeingStored(d)'
  BY <1>1 DEF SettledInv, Settled
<1>3. ASSUME plug[d] = "absent"
      PROVE  ~Handling(d, {"addPosting", "adding"}) /\ d \notin job.list
  BY <1>3 DEF SettledInv, Settled, BeingStored
<1>4. ASSUME NEW e \in Devices, DeviceComes(e)
      PROVE  ~BeingStored(d)'
  <2>1. plug[d] = "absent" /\ job' = job
    BY <1>1, <1>4 DEF DeviceComes, TypeOK
  <2>2. CASE UNCHANGED task
    BY <1>3, <2>1, <2>2 DEF BeingStored, Handling
  <2>3. CASE Begin(e, IF e \in Ios THEN "querying" ELSE "booting")
    <3>1. ~Handling(d, {"addPosting", "adding"})'
      BY <1>1, <1>3, <2>1, <2>3, BeginKeeps
    <3> QED
      BY <1>3, <2>1, <3>1 DEF BeingStored
  <2> QED
    BY <1>4, <2>2, <2>3 DEF DeviceComes
<1>5. ASSUME NEW e \in Devices, DeviceComesOffline(e)
      PROVE  ~BeingStored(d)'
  <2>1. plug[d] = "absent" /\ UNCHANGED <<task, job>>
    BY <1>1, <1>5 DEF DeviceComesOffline, TypeOK
  <2> QED
    BY <1>3, <2>1 DEF BeingStored, Handling
<1>6. ASSUME NEW e \in Devices, NEW to \in {"absent", "offline"}, DeviceGoes(e, to)
      PROVE  ~BeingStored(d)'
  <2>1. ~Handling(d, {"addPosting", "adding"}) /\ d \notin job.list
    BY <1>1, <1>3, <1>6 DEF DeviceGoes, TypeOK, MayLeave, BeingStored, Orderly
  <2>2. job' = job
    BY <1>6 DEF DeviceGoes
  <2>3. CASE UNCHANGED task
    BY <2>1, <2>2, <2>3 DEF BeingStored, Handling
  <2>4. CASE Begin(e, "removePosting")
    <3>1. ~Handling(d, {"addPosting", "adding"})'
      BY <1>1, <2>1, <2>4, BeginKeeps
    <3> QED
      BY <2>1, <2>2, <3>1 DEF BeingStored
  <2> QED
    BY <1>6, <2>3, <2>4 DEF DeviceGoes, OnDeviceRemoved
<1>7. CASE TrackerEnds
  BY <1>3, <1>7 DEF TrackerEnds, BeingStored, Handling
<1>8. ASSUME NEW t \in Tasks, TaskStep(t)
      PROVE  ~BeingStored(d)'
  <2>1. /\ \A u \in Tasks \ {t} : task'[u] = task[u]
        /\ UNCHANGED <<plug, job>>
    BY <1>1, <1>8, OtherTasks
  <2>2. plug[d] = "absent"
    BY <2>1
  <2>3. ~(task'[t].dev = d /\ task'[t].at \in {"addPosting", "adding"})
    BY <1>1, <1>3, <1>8, <2>2, StoringTask DEF Handling
  <2> QED
    BY <1>3, <2>1, <2>2, <2>3 DEF BeingStored, Handling
<1>9. CASE JobStep
  <2>1. UNCHANGED <<plug, task>>
    BY <1>9 DEF JobStep, JobStart, JobHubDown, JobLists, JobStores,
       JobListingFails, JobPostReaches, JobPostFails
  <2>2. d \notin job'.list
    BY <1>1, <1>3, <1>9, <2>1 DEF JobStep, JobStart, JobHubDown, JobLists, JobStores,
       JobListingFails, JobPostReaches, JobPostFails, Connected, JobAt, JobIdle
  <2> QED
    BY <1>3, <2>1, <2>2 DEF BeingStored, Handling
<1>10. CASE UNCHANGED vars
  BY <1>3, <1>10 DEF vars, BeingStored, Handling
<1> QED
  BY <1>4, <1>5, <1>6, <1>7, <1>8, <1>9, <1>10
     DEF Next, DeviceStep, DeviceLeaves, DeviceGoesOffline

(***************************************************************************)
(* A connection to adb that has ended does not come back.                   *)
(***************************************************************************)
LEMMA HeardBefore ==
  ASSUME TypeOK, [Next]_vars, NEW d \in Devices, Heard(d)'
  PROVE  Heard(d)
<1>1. ASSUME NEW t \in Tasks, TaskStep(t)
      PROVE  tracking' = tracking
  BY <1>1, OtherTasks
<1>2. ASSUME JobStep
      PROVE  tracking' = tracking
  BY <1>2 DEF JobStep, JobStart, JobHubDown, JobLists, JobStores,
       JobListingFails, JobPostReaches, JobPostFails
<1> QED
  BY <1>1, <1>2 DEF Heard, Next, DeviceStep, DeviceComes, DeviceComesOffline,
     DeviceLeaves, DeviceGoesOffline, DeviceGoes, TrackerEnds, vars

(***************************************************************************)
(* A step of an orderly system keeps NodeForgets: only a handler or the job *)
(* that stores a device adds it, and a departure starts a removal.          *)
(***************************************************************************)
LEMMA NodeForgetsStep ==
  Orderly /\ SettledInv /\ NodeForgets /\ [Next]_vars => NodeForgets'
<1> SUFFICES ASSUME Orderly, SettledInv, NodeForgets, [Next]_vars, NEW d \in Devices,
                    Heard(d)', plug'[d] = "absent", d \in db'
             PROVE  Handling(d, RemoveStages)'
  BY DEF NodeForgets
<1>1. TypeOK /\ Heard(d)
  BY HeardBefore DEF SettledInv
<1>2. ASSUME plug[d] = "absent"
      PROVE  ~Handling(d, {"addPosting", "adding"}) /\ d \notin job.list
  BY <1>2 DEF SettledInv, Settled, BeingStored
<1>3. ASSUME NEW e \in Devices, DeviceComes(e)
      PROVE  Handling(d, RemoveStages)'
  <2>1. plug[d] = "absent" /\ db' = db
    BY <1>1, <1>3 DEF DeviceComes, TypeOK
  <2>2. Handling(d, RemoveStages)
    BY <1>1, <2>1 DEF NodeForgets
  <2>3. CASE UNCHANGED task
    BY <2>2, <2>3 DEF Handling
  <2>4. CASE Begin(e, IF e \in Ios THEN "querying" ELSE "booting")
    BY <1>1, <2>2, <2>4, BeginKeeps
  <2> QED
    BY <1>3, <2>3, <2>4 DEF DeviceComes
<1>4. ASSUME NEW e \in Devices, DeviceComesOffline(e)
      PROVE  Handling(d, RemoveStages)'
  BY <1>1, <1>4 DEF DeviceComesOffline, TypeOK, NodeForgets, Handling
<1>5. ASSUME NEW e \in Devices, NEW to \in {"absent", "offline"}, DeviceGoes(e, to)
      PROVE  Handling(d, RemoveStages)'
  <2>1. \/ Heard(e) /\ OnDeviceRemoved(e)
        \/ d # e /\ UNCHANGED <<task, db>>
    BY <1>1, <1>5 DEF DeviceGoes
  <2>2. d # e => plug[d] = "absent" /\ d \in db
    BY <1>1, <1>5, <2>1 DEF DeviceGoes, OnDeviceRemoved, Without, TypeOK
  <2>3. d # e => Handling(d, RemoveStages)
    BY <1>1, <2>2 DEF NodeForgets
  <2>4. CASE d # e /\ UNCHANGED task
    BY <2>3, <2>4 DEF Handling
  <2>5. CASE HasHub /\ OnDeviceRemoved(e)
    <3>1. Begin(e, "removePosting") /\ "removePosting" \in RemoveStages
      BY <2>5 DEF OnDeviceRemoved, RemoveStages
    <3> QED
      BY <1>1, <2>3, <3>1, BeginKeeps
  <2>6. CASE ~HasHub /\ OnDeviceRemoved(e)
    <3>1. d # e /\ UNCHANGED task
      BY <2>6 DEF OnDeviceRemoved, Without, Orderly
    <3> QED
      BY <2>3, <3>1 DEF Handling
  <2> QED
    BY <2>1, <2>4, <2>5, <2>6
<1>6. CASE TrackerEnds
  BY <1>1, <1>6 DEF TrackerEnds, NodeForgets, Handling
<1>7. ASSUME NEW t \in Tasks, TaskStep(t)
      PROVE  Handling(d, RemoveStages)'
  <2>1. /\ \A u \in Tasks \ {t} : task'[u] = task[u]
        /\ plug[d] = "absent"
    BY <1>1, <1>7, OtherTasks
  <2>2. ~(task[t].dev = d /\ task[t].at = "adding")
    BY <1>2, <2>1 DEF Handling
  <2>3. d \in db
    BY <1>7, <2>2 DEF TaskStep, BootCompletes, BootFails, QueryDone, QueryFails,
       PostReaches, PostFails, InsertDevice, DropDevice, Without
  <2>4. PICK u \in Tasks : task[u].dev = d /\ task[u].at \in RemoveStages
    BY <1>1, <2>1, <2>3 DEF NodeForgets, Handling
  <2>5. CASE u # t
    BY <2>1, <2>4, <2>5 DEF Handling
  <2>6. CASE u = t
    <3>1. task'[t] = [dev |-> d, at |-> "removing"]
      BY <1>1, <1>7, <2>4, <2>6 DEF TaskStep, BootCompletes, BootFails, QueryDone,
         QueryFails, PostReaches, PostFails, InsertDevice, DropDevice, Without,
         Orderly, Advance, RemoveStages, TypeOK
    <3> QED
      BY <3>1 DEF Handling, RemoveStages
  <2> QED
    BY <2>5, <2>6
<1>8. CASE JobStep
  <2>1. UNCHANGED <<plug, task>> /\ plug[d] = "absent"
    BY <1>8 DEF JobStep, JobStart, JobHubDown, JobLists, JobStores,
       JobListingFails, JobPostReaches, JobPostFails
  <2>2. d \in db
    BY <1>2, <1>8, <2>1 DEF JobStep, JobStart, JobHubDown, JobLists, JobStores,
       JobListingFails, JobPostReaches, JobPostFails
  <2> QED
    BY <1>1, <2>1, <2>2 DEF NodeForgets, Handling
<1>9. CASE UNCHANGED vars
  BY <1>1, <1>9 DEF vars, NodeForgets, Handling
<1> QED
  BY <1>3, <1>4, <1>5, <1>6, <1>7, <1>8, <1>9
     DEF Next, DeviceStep, DeviceLeaves, DeviceGoesOffline

\* A node whose messages reach the hub.
Reported == Orderly /\ HasHub /\ "hub" \notin Environment

(***************************************************************************)
(* A step of an orderly node that reaches its hub keeps HubForgets: the hub *)
(* removes the device before the message of its removal is done with.       *)
(***************************************************************************)
LEMMA HubForgetsStep ==
  Reported /\ SettledInv /\ HubForgets /\ [Next]_vars => HubForgets'
<1> SUFFICES ASSUME Reported, SettledInv, HubForgets, [Next]_vars, NEW d \in Devices,
                    Heard(d)', plug'[d] = "absent", d \in hub'
             PROVE  Handling(d, {"removePosting"})'
  BY DEF HubForgets
<1>1. TypeOK /\ Heard(d)
  BY HeardBefore DEF SettledInv
<1>2. ASSUME plug[d] = "absent"
      PROVE  ~Handling(d, {"addPosting", "adding"}) /\ d \notin job.list
  BY <1>2 DEF SettledInv, Settled, BeingStored
<1>3. ASSUME NEW e \in Devices, DeviceComes(e)
      PROVE  Handling(d, {"removePosting"})'
  <2>1. plug[d] = "absent" /\ hub' = hub
    BY <1>1, <1>3 DEF DeviceComes, TypeOK
  <2>2. Handling(d, {"removePosting"})
    BY <1>1, <2>1 DEF HubForgets
  <2>3. CASE UNCHANGED task
    BY <2>2, <2>3 DEF Handling
  <2>4. CASE Begin(e, IF e \in Ios THEN "querying" ELSE "booting")
    BY <1>1, <2>2, <2>4, BeginKeeps
  <2> QED
    BY <1>3, <2>3, <2>4 DEF DeviceComes
<1>4. ASSUME NEW e \in Devices, DeviceComesOffline(e)
      PROVE  Handling(d, {"removePosting"})'
  BY <1>1, <1>4 DEF DeviceComesOffline, TypeOK, HubForgets, Handling
<1>5. ASSUME NEW e \in Devices, NEW to \in {"absent", "offline"}, DeviceGoes(e, to)
      PROVE  Handling(d, {"removePosting"})'
  <2>1. Begin(e, "removePosting") \/ (d # e /\ UNCHANGED task)
    BY <1>1, <1>5 DEF DeviceGoes, OnDeviceRemoved, Reported
  <2>2. d # e => plug[d] = "absent" /\ d \in hub
    BY <1>1, <1>5 DEF DeviceGoes, TypeOK
  <2>3. d # e => Handling(d, {"removePosting"})
    BY <1>1, <2>2 DEF HubForgets
  <2>4. CASE d # e /\ UNCHANGED task
    BY <2>3, <2>4 DEF Handling
  <2>5. CASE Begin(e, "removePosting")
    BY <1>1, <2>3, <2>5, BeginKeeps
  <2> QED
    BY <2>1, <2>4, <2>5
<1>6. CASE TrackerEnds
  BY <1>1, <1>6 DEF TrackerEnds, HubForgets, Handling
<1>7. ASSUME NEW t \in Tasks, TaskStep(t)
      PROVE  Handling(d, {"removePosting"})'
  <2>1. /\ \A u \in Tasks \ {t} : task'[u] = task[u]
        /\ plug[d] = "absent"
    BY <1>1, <1>7, OtherTasks
  <2>2. ~(task[t].dev = d /\ task[t].at = "addPosting")
    BY <1>2, <2>1 DEF Handling
  <2>3. d \in hub
    BY <1>7, <2>2 DEF TaskStep, BootCompletes, BootFails, QueryDone, QueryFails,
       PostReaches, PostFails, InsertDevice, DropDevice, Without
  <2>4. PICK u \in Tasks : task[u].dev = d /\ task[u].at = "removePosting"
    BY <1>1, <2>1, <2>3 DEF HubForgets, Handling
  <2>5. u # t
    BY <1>7, <2>4 DEF TaskStep, BootCompletes, BootFails, QueryDone, QueryFails,
       PostReaches, PostFails, InsertDevice, DropDevice, Without, Orderly, Reported
  <2> QED
    BY <2>1, <2>4, <2>5 DEF Handling
<1>8. CASE JobStep
  <2>1. UNCHANGED <<plug, task>> /\ plug[d] = "absent"
    BY <1>8 DEF JobStep, JobStart, JobHubDown, JobLists, JobStores,
       JobListingFails, JobPostReaches, JobPostFails
  <2>2. d \in hub
    BY <1>2, <1>8, <2>1 DEF JobStep, JobStart, JobHubDown, JobLists, JobStores,
       JobListingFails, JobPostReaches, JobPostFails
  <2> QED
    BY <1>1, <2>1, <2>2 DEF HubForgets, Handling
<1>9. CASE UNCHANGED vars
  BY <1>1, <1>9 DEF vars, HubForgets, Handling
<1> QED
  BY <1>3, <1>4, <1>5, <1>6, <1>7, <1>8, <1>9
     DEF Next, DeviceStep, DeviceLeaves, DeviceGoesOffline

(***************************************************************************)
(* Nothing is plugged, stored or under way at the start.                    *)
(***************************************************************************)
LEMMA TrackingInit == Init => SettledInv /\ NodeForgets /\ HubForgets
<1> SUFFICES ASSUME Init
             PROVE  SettledInv /\ NodeForgets /\ HubForgets
  OBVIOUS
<1>1. TypeOK
  BY TrackingAssumption DEF Init, TypeOK, Task, Job, Idle, JobIdle, JobAt,
     AddStages, RemoveStages
<1>2. \A d \in Devices : ~BeingStored(d)
  BY TrackingAssumption DEF Init, BeingStored, Handling, Idle, JobAt
<1> QED
  BY <1>1, <1>2 DEF Init, SettledInv, Settled, NodeForgets, HubForgets

(***************************************************************************)
(* As long as devices do not leave while they are being stored, a device    *)
(* that was unplugged from a connected tracker is out of the collection or  *)
(* its removal is under way, even when the hub cannot be reached.           *)
(***************************************************************************)
THEOREM UnpluggedIsForgotten == ASSUME Orderly PROVE Spec => []NodeForgets
<1>1. Orderly
  OBVIOUS
<1>2. Init => SettledInv /\ NodeForgets
  BY TrackingInit
<1>3. SettledInv /\ NodeForgets /\ [Next]_vars => SettledInv' /\ NodeForgets'
  BY <1>1, SettledStep, NodeForgetsStep
<1> QED
  BY <1>2, <1>3, PTL DEF Spec

(***************************************************************************)
(* If the messages of the node arrive, too, the hub forgets the device as   *)
(* soon as the message of its removal is handled.                           *)
(***************************************************************************)
THEOREM HubIsTold == ASSUME Reported PROVE Spec => []HubForgets
<1>1. Reported /\ Orderly
  BY DEF Reported
<1>2. Init => SettledInv /\ HubForgets
  BY TrackingInit
<1>3. SettledInv /\ HubForgets /\ [Next]_vars => SettledInv' /\ HubForgets'
  BY <1>1, SettledStep, HubForgetsStep
<1> QED
  BY <1>2, <1>3, PTL DEF Spec

=============================================================================
