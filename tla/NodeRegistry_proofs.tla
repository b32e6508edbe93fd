------------------------ MODULE NodeRegistry_proofs ------------------------
(***************************************************************************)
(* Type correctness of NodeRegistry; that a node never uses a device for    *)
(* two requests as long as it does not forget its documents, and that hub   *)
(* and nodes then implement NodeLease; that the hub knows its sessions.     *)
(***************************************************************************)
EXTENDS NodeRegistry, TLAPS

(***************************************************************************)
(* The documents the steps write, and what a document consists of.          *)
(***************************************************************************)
LEMMA DocTypes ==
  /\ Missing \in Doc /\ Free \in Doc
  /\ \A q \in Requests : InSession(q) \in Doc
  /\ \A doc \in Doc : /\ doc.state \in {"none", "free", "busy"}
                      /\ doc.session \in Requests \cup {None}
BY DEF Doc, Missing, Free, InSession

(***************************************************************************)
(* The updates of a collection give a collection.                           *)
(***************************************************************************)
LEMMA UpdateTypes ==
  ASSUME NEW collection \in [Devices -> Doc]
  PROVE  /\ \A S : RemoveDevices(collection, S) \in [Devices -> Doc]
         /\ \A d : BlockDevice(collection, d) \in [Devices -> Doc]
         /\ \A d : \A doc \in Doc : Update(collection, d, doc) \in [Devices -> Doc]
         /\ \A q : /\ UnblockSession(collection, q) \in [Devices -> Doc]
                   /\ UnblockDriver(collection, q) \in [Devices -> Doc]
<1>1. \A d \in Devices : [collection[d] EXCEPT !.state = "busy"] \in Doc
  BY DEF Doc
<1>2. \A d : BlockDevice(collection, d) \in [Devices -> Doc]
  BY <1>1 DEF BlockDevice
<1> QED
  BY <1>2, DocTypes DEF RemoveDevices, Update, UnblockSession, UnblockDriver

LEMMA AddTypes ==
  ASSUME NEW collection \in [Devices -> Doc], NEW S,
         NEW sessions \in [Devices -> Requests \cup {None}]
  PROVE  AddNewDevices(collection, S, sessions) \in [Devices -> Doc]
<1>1. \A d \in Devices : [state |-> "free", session |-> sessions[d]] \in Doc
  BY DEF Doc
<1> QED
  BY <1>1 DEF AddNewDevices

(***************************************************************************)
(* The updates of both collections, the facts the steps below need.         *)
(***************************************************************************)
LEMMA CollectionTypes ==
  ASSUME TypeOK
  PROVE  /\ \A S : /\ RemoveDevices(hubDb, S) \in [Devices -> Doc]
                   /\ RemoveDevices(nodeDb, S) \in [Devices -> Doc]
         /\ \A d : /\ BlockDevice(hubDb, d) \in [Devices -> Doc]
                   /\ BlockDevice(nodeDb, d) \in [Devices -> Doc]
         /\ \A d : \A doc \in Doc : /\ Update(hubDb, d, doc) \in [Devices -> Doc]
                                    /\ Update(nodeDb, d, doc) \in [Devices -> Doc]
         /\ \A q : /\ UnblockSession(hubDb, q) \in [Devices -> Doc]
                   /\ UnblockSession(nodeDb, q) \in [Devices -> Doc]
                   /\ UnblockDriver(hubDb, q) \in [Devices -> Doc]
<1>1. hubDb \in [Devices -> Doc] /\ nodeDb \in [Devices -> Doc]
  BY DEF TypeOK
<1> QED
  BY <1>1, UpdateTypes

(***************************************************************************)
(* The lists a node makes are sessions, and so is what they insert.         *)
(***************************************************************************)
LEMMA ListTypes ==
  ASSUME TypeOK, NEW n \in Nodes
  PROVE  /\ Listed(n) \in [Devices -> Requests \cup {None}]
         /\ Unlisted(n) \in [Devices -> Requests \cup {None}]
         /\ AddNewDevices(nodeDb, HostedBy(n), Listed(n)) \in [Devices -> Doc]
         /\ AddNewDevices(hubDb, HostedBy(n), list) \in [Devices -> Doc]
<1>1. /\ hubDb \in [Devices -> Doc] /\ nodeDb \in [Devices -> Doc]
      /\ list \in [Devices -> Requests \cup {None}]
  BY DEF TypeOK
<1>2. /\ Listed(n) \in [Devices -> Requests \cup {None}]
      /\ Unlisted(n) \in [Devices -> Requests \cup {None}]
  BY <1>1, DocTypes DEF Listed, Unlisted
<1> QED
  BY <1>1, <1>2, AddTypes

(***************************************************************************)
(* Every step of a request keeps the types.                                 *)
(***************************************************************************)
LEMMA RequestTypes ==
  ASSUME TypeOK, NEW q \in Requests, RequestStep(q)
  PROVE  TypeOK'
<1>1. /\ InSession(q) \in Doc /\ Free \in Doc
      /\ \A stage \in Stages : Move(q, stage) => at' \in [Requests -> Stages]
  BY DocTypes DEF TypeOK, Move
<1>2. /\ at' \in [Requests -> Stages]
      /\ dev' \in [Requests -> Devices \cup {None}]
      /\ heard' \subseteq Requests
  BY <1>1 DEF TypeOK, RequestStep, HubForwards, NodeAllocates, NodeRefuses,
     DriverStarts, DriverFails, HubRecords, HubUnblocks, HubGivesUp, HubDeletes,
     NodeDeletes, DriverDies, Stages
<1>3. on' \in [Requests -> Devices \cup {None}]
  <2>1. CASE NodeAllocates(q)
    <3>1. PICK d \in Eligible(q) : on' = [on EXCEPT ![q] = d]
      BY <2>1 DEF NodeAllocates
    <3>2. d \in Devices \cup {None}
      BY RegistryAssumption DEF Eligible, TypeOK
    <3> QED
      BY <3>1, <3>2 DEF TypeOK
  <2>2. CASE UNCHANGED on
    BY <2>2 DEF TypeOK
  <2> QED
    BY <2>1, <2>2 DEF RequestStep, HubForwards, NodeRefuses, DriverStarts,
       DriverFails, HubRecords, HubUnblocks, HubGivesUp, HubDeletes, NodeDeletes,
       DriverDies
<1>4. hubDb' \in [Devices -> Doc]
  <2>1. hubDb \in [Devices -> Doc]
    BY DEF TypeOK
  <2> QED
    BY <1>1, <2>1, CollectionTypes DEF RequestStep, HubForwards, NodeAllocates,
     NodeRefuses, DriverStarts, DriverFails, HubRecords, HubUnblocks, HubGivesUp,
     HubDeletes, NodeDeletes, DriverDies
<1>5. nodeDb' \in [Devices -> Doc]
  <2>1. nodeDb \in [Devices -> Doc]
    BY DEF TypeOK
  <2> QED
    BY <1>1, <2>1, CollectionTypes DEF RequestStep, HubForwards, NodeAllocates,
     NodeRefuses, DriverStarts, DriverFails, HubRecords, HubUnblocks, HubGivesUp,
     HubDeletes, NodeDeletes, DriverDies
<1>6. UNCHANGED <<registryVars, expired>>
  BY DEF RequestStep, HubForwards, NodeAllocates, NodeRefuses, DriverStarts,
     DriverFails, HubRecords, HubUnblocks, HubGivesUp, HubDeletes, NodeDeletes,
     DriverDies
<1> QED
  BY <1>2, <1>3, <1>4, <1>5, <1>6 DEF TypeOK, registryVars

(***************************************************************************)
(* The release jobs keep the types.                                         *)
(***************************************************************************)
LEMMA ReleaseTypes ==
  ASSUME TypeOK, NEW d \in Devices, ReleaseStep(d)
  PROVE  TypeOK'
<1>1. CASE HubReleasesIdle(d)
  <2>1. hubDb' \in [Devices -> Doc]
    BY <1>1, DocTypes, CollectionTypes DEF HubReleasesIdle
  <2>2. at' \in [Requests -> Stages]
    BY <1>1 DEF HubReleasesIdle, TypeOK, Stages
  <2> QED
    BY <1>1, <2>1, <2>2 DEF HubReleasesIdle, TypeOK, registryVars
<1>2. CASE NodeReleasesIdle(d)
  <2>1. nodeDb' \in [Devices -> Doc]
    BY <1>2, DocTypes, CollectionTypes DEF NodeReleasesIdle
  <2>2. nodeDb[d].session \in Requests
    BY <1>2, DocTypes DEF NodeReleasesIdle, Candidate, TypeOK
  <2> QED
    BY <1>2, <2>1, <2>2 DEF NodeReleasesIdle, TypeOK, requestVars, registryVars
<1> QED
  BY <1>1, <1>2 DEF ReleaseStep

(***************************************************************************)
(* The jobs, the starts and the stops keep the types.                       *)
(***************************************************************************)
LEMMA RegistryTypes ==
  ASSUME TypeOK,
         \/ \E n \in Nodes : JobStep(n) \/ NodeStarts(n) \/ NodeCrashes(n)
         \/ StaleStep
         \/ HubRestarts
  PROVE  TypeOK'
<1>1. ASSUME NEW n \in Nodes, JobStep(n)
      PROVE  TypeOK'
  <2>1. /\ hubDb' \in [Devices -> Doc]
        /\ nodeDb' \in [Devices -> Doc]
        /\ list' \in [Devices -> Requests \cup {None}]
    BY <1>1, CollectionTypes, ListTypes DEF TypeOK, JobStep, NodeProbesHub,
       NodeForgetsDevices, NodeLists, NodePosts, NodePostFails
  <2>2. /\ job' \in [Nodes -> {"idle", "probing", "posting"}]
        /\ UNCHANGED <<up, at, dev, on, heard, seen, dead, expired>>
    BY <1>1 DEF TypeOK, JobStep, NodeProbesHub, NodeForgetsDevices,
       NodeLists, NodePosts, NodePostFails, requestVars
  <2> QED
    BY <2>1, <2>2 DEF TypeOK
<1>2. ASSUME NEW n \in Nodes, NodeStarts(n)
      PROVE  TypeOK'
  BY <1>2 DEF TypeOK, NodeStarts, requestVars
<1>3. ASSUME NEW n \in Nodes, NodeCrashes(n)
      PROVE  TypeOK'
  <2>1. \A stage \in Stages : AfterCrash(stage) \in Stages
    BY DEF AfterCrash, Stages
  <2>2. nodeDb' \in [Devices -> Doc] /\ list' \in [Devices -> Requests \cup {None}]
    BY <1>3, CollectionTypes, ListTypes DEF NodeCrashes
  <2>3. at' \in [Requests -> Stages]
    BY <1>3, <2>1 DEF NodeCrashes, TypeOK
  <2> QED
    BY <1>3, <2>2, <2>3 DEF TypeOK, NodeCrashes
<1>4. CASE StaleStep
  <2>1. hubDb' \in [Devices -> Doc]
    BY <1>4, CollectionTypes DEF TypeOK, StaleStep, HubProbesNodes, HubFindsDead,
       HubRemovesStale
  <2>2. seen' \subseteq Devices /\ dead' \subseteq Nodes
    BY <1>4 DEF TypeOK, StaleStep, HubProbesNodes, HubFindsDead, HubRemovesStale
  <2>3. UNCHANGED <<up, nodeDb, at, dev, on, heard, job, list, expired>>
    BY <1>4 DEF StaleStep, HubProbesNodes, HubFindsDead, HubRemovesStale,
       requestVars
  <2> QED
    BY <2>1, <2>2, <2>3 DEF TypeOK
<1>5. CASE HubRestarts
  <2>1. \A stage \in Stages : AfterRestart(stage) \in Stages
    BY DEF AfterRestart, Stages
  <2>2. hubDb' \in [Devices -> Doc]
    BY <1>5, DocTypes DEF HubRestarts
  <2> QED
    BY <1>5, <2>1, <2>2 DEF TypeOK, HubRestarts
<1> QED
  BY <1>1, <1>2, <1>3, <1>4, <1>5

(***************************************************************************)
(* The types hold at first, and a step keeps them.                          *)
(***************************************************************************)
LEMMA RegistryInit == Init => TypeOK
BY DocTypes DEF Init, TypeOK, Stages

LEMMA RegistryStep == TypeOK /\ [Next]_vars => TypeOK'
<1> SUFFICES ASSUME TypeOK, [Next]_vars
             PROVE  TypeOK'
  OBVIOUS
<1>1. CASE UNCHANGED vars
  BY <1>1 DEF vars, TypeOK
<1> QED
  BY <1>1, RequestTypes, ReleaseTypes, RegistryTypes DEF Next

(***************************************************************************)
(* The variables always have the types the module declares for them.        *)
(***************************************************************************)
THEOREM RegistryTypeCorrect == Spec => []TypeOK
BY RegistryInit, RegistryStep, PTL DEF Spec

-----------------------------------------------------------------------------
(***************************************************************************)
(* The strengthening of OneUser: the document of a device that is lent is   *)
(* busy and has its session, or none while the driver starts.  Documents    *)
(* that are not busy have no session, so that a driver that starts is never *)
(* found idle.                                                              *)
(***************************************************************************)
Past(q) == at[q] \notin {"new", "forwarded", "starting"}

Placed(q) == at[q] # "new" => dev[q] \in Devices

DocHeld(q) ==
  Using(q) => /\ on[q] \in Devices
              /\ HostOf[on[q]] = HostOf[dev[q]]
              /\ nodeDb[on[q]].state = "busy"
              /\ nodeDb[on[q]].session = IF at[q] = "starting" THEN None ELSE q

SessionsPast ==
  /\ \A d \in Devices : nodeDb[d].state # "busy" => nodeDb[d].session = None
  /\ \A d \in Devices : nodeDb[d].session # None => Past(nodeDb[d].session)
  /\ \A q \in expired : Past(q)

OneUserInv ==
  /\ TypeOK
  /\ \A q \in Requests : Placed(q) /\ DocHeld(q)
  /\ SessionsPast
  /\ OneUser

(***************************************************************************)
(* What a free document of a node looks like, and a device it may lend.     *)
(***************************************************************************)
LEMMA EligibleDevice ==
  ASSUME TypeOK, NEW q \in Requests, dev[q] \in Devices, NEW d \in Eligible(q)
  PROVE  /\ d \in Devices /\ HostOf[d] = HostOf[dev[q]]
         /\ d = dev[q] \/ d \in Named[q]
BY RegistryAssumption DEF Eligible

(***************************************************************************)
(* A request that has not come to its node has not been found idle there,   *)
(* and a driver that starts uses its device.                                *)
(***************************************************************************)
LEMMA NotExpired ==
  ASSUME OneUserInv, NEW q \in Requests,
         at[q] \in {"new", "forwarded", "starting"}
  PROVE  /\ q \notin expired
         /\ at[q] = "starting" => Using(q)
BY DEF OneUserInv, SessionsPast, Past, Using

(***************************************************************************)
(* A step of one request leaves the devices of the others as they are.      *)
(***************************************************************************)
LEMMA OthersKeep ==
  ASSUME OneUserInv, NEW q \in Requests, RequestStep(q),
         NEW r \in Requests, r # q
  PROVE  /\ at'[r] = at[r] /\ dev'[r] = dev[r] /\ on'[r] = on[r]
         /\ expired' = expired
         /\ Placed(r)' /\ DocHeld(r)'
<1>1. TypeOK /\ Placed(r) /\ DocHeld(r) /\ Placed(q) /\ DocHeld(q)
  BY DEF OneUserInv
<1>2. /\ at'[r] = at[r] /\ dev'[r] = dev[r] /\ on'[r] = on[r]
      /\ expired' = expired
  BY <1>1 DEF TypeOK, RequestStep, HubForwards, NodeAllocates, NodeRefuses,
     DriverStarts, DriverFails, HubRecords, HubUnblocks, HubGivesUp, HubDeletes,
     NodeDeletes, DriverDies, Move
<1>3. Placed(r)'
  BY <1>1, <1>2 DEF Placed
<1>4. ASSUME Using(r)
      PROVE  nodeDb'[on[r]] = nodeDb[on[r]]
  <2>1. /\ on[r] \in Devices
        /\ nodeDb[on[r]].state = "busy"
        /\ nodeDb[on[r]].session \in {None, r}
        /\ nodeDb \in [Devices -> Doc]
    BY <1>1, <1>4 DEF DocHeld, TypeOK
  <2>2. CASE NodeAllocates(q) \/ NodeRefuses(q)
    <3>1. \/ nodeDb' = nodeDb
          \/ \E d \in Eligible(q) : /\ nodeDb[d].state = "free"
                                    /\ nodeDb' = BlockDevice(nodeDb, d)
      BY <2>2 DEF NodeAllocates, NodeRefuses
    <3> QED
      BY <2>1, <3>1 DEF BlockDevice
  <2>3. CASE DriverStarts(q) \/ DriverFails(q)
    <3>1. Using(q)
      BY <2>3, NotExpired DEF DriverStarts, DriverFails
    <3>2. on[q] # on[r]
      BY <1>4, <3>1 DEF OneUserInv, OneUser
    <3> QED
      BY <2>1, <2>3, <3>2 DEF DriverStarts, DriverFails, Update
  <2>4. CASE NodeDeletes(q)
    <3>1. q # None
      BY RegistryAssumption
    <3> QED
      BY <2>1, <2>4, <3>1 DEF NodeDeletes, UnblockSession
  <2>5. CASE UNCHANGED nodeDb
    BY <2>5
  <2> QED
    BY <2>2, <2>3, <2>4, <2>5 DEF RequestStep, HubForwards,
       HubRecords, HubUnblocks, HubGivesUp, HubDeletes, DriverDies
<1>5. DocHeld(r)'
  BY <1>1, <1>2, <1>4 DEF DocHeld, Using
<1> QED
  BY <1>2, <1>3, <1>5

(***************************************************************************)
(* A request that moves on keeps its own document in step.                  *)
(***************************************************************************)
LEMMA OwnKept ==
  ASSUME OneUserInv, NEW q \in Requests, RequestStep(q)
  PROVE  Placed(q)' /\ DocHeld(q)'
<1>1. /\ TypeOK /\ Placed(q) /\ DocHeld(q)
      /\ nodeDb \in [Devices -> Doc]
  BY DEF OneUserInv, TypeOK
<1>2. CASE HubForwards(q)
  BY <1>1, <1>2 DEF HubForwards, Move, TypeOK, Placed, DocHeld, Using
<1>3. CASE NodeAllocates(q)
  <2>1. PICK d \in Eligible(q) : /\ nodeDb[d].state = "free"
                                 /\ nodeDb' = BlockDevice(nodeDb, d)
                                 /\ on' = [on EXCEPT ![q] = d]
    BY <1>3 DEF NodeAllocates
  <2>2. /\ at[q] = "forwarded" /\ at'[q] = "starting"
        /\ dev' = dev /\ on'[q] = d /\ dev[q] \in Devices
    BY <1>1, <1>3, <2>1 DEF NodeAllocates, Move, TypeOK, Placed
  <2>3. d \in Devices /\ HostOf[d] = HostOf[dev[q]]
    BY <1>1, <2>2, EligibleDevice
  <2>4. nodeDb[d].session = None
    BY <2>1, <2>3 DEF OneUserInv, SessionsPast
  <2>5. nodeDb'[d].state = "busy" /\ nodeDb'[d].session = None
    BY <1>1, <2>1, <2>3, <2>4 DEF BlockDevice, Doc
  <2> QED
    BY <2>2, <2>3, <2>5 DEF Placed, DocHeld
<1>4. CASE DriverStarts(q)
  <2>1. /\ at[q] = "starting" /\ at'[q] = "running"
        /\ dev' = dev /\ on' = on
        /\ nodeDb' = Update(nodeDb, on[q], InSession(q))
    BY <1>1, <1>4 DEF DriverStarts, Move, TypeOK
  <2>2. /\ on[q] \in Devices /\ HostOf[on[q]] = HostOf[dev[q]]
        /\ nodeDb[on[q]].state = "busy"
    BY <1>1, <2>1, NotExpired DEF DocHeld
  <2>3. nodeDb'[on[q]] = InSession(q)
    BY <1>1, <2>1, <2>2 DEF Update
  <2> QED
    BY <1>1, <2>1, <2>2, <2>3 DEF Placed, DocHeld, InSession
<1>5. CASE \/ HubRecords(q) \/ HubDeletes(q) \/ HubGivesUp(q)
  <2>1. /\ dev' = dev /\ on' = on /\ nodeDb' = nodeDb /\ expired' = expired
        /\ at[q] # "new" /\ (at'[q] = "starting" <=> at[q] = "starting")
        /\ Using(q)' => Using(q)
    BY <1>1, <1>5 DEF HubRecords, HubDeletes, HubGivesUp, Move, TypeOK, Using
  <2> QED
    BY <1>1, <2>1 DEF Placed, DocHeld
<1>6. CASE \/ NodeRefuses(q) \/ DriverFails(q) \/ HubUnblocks(q)
           \/ NodeDeletes(q) \/ DriverDies(q)
  <2>1. at'[q] \in {"broken", "over"} /\ at[q] # "new" /\ dev' = dev
    BY <1>1, <1>6 DEF NodeRefuses, DriverFails, HubUnblocks, NodeDeletes,
       DriverDies, Move, TypeOK
  <2> QED
    BY <1>1, <2>1 DEF Placed, DocHeld, Using
<1> QED
  BY <1>2, <1>3, <1>4, <1>5, <1>6 DEF RequestStep

(***************************************************************************)
(* A step of a request writes a session only when its driver has started.   *)
(***************************************************************************)
LEMMA SessionsKept ==
  ASSUME OneUserInv, NEW q \in Requests, RequestStep(q)
  PROVE  SessionsPast'
<1>1. TypeOK /\ SessionsPast /\ nodeDb \in [Devices -> Doc]
  BY DEF OneUserInv, TypeOK
<1>2. expired' = expired /\ \A r \in Requests : Past(r) => Past(r)'
  BY <1>1 DEF TypeOK, RequestStep, HubForwards, NodeAllocates, NodeRefuses,
     DriverStarts, DriverFails, HubRecords, HubUnblocks, HubGivesUp, HubDeletes,
     NodeDeletes, DriverDies, Move, Past
<1>3. ASSUME NEW d \in Devices
      PROVE  /\ nodeDb'[d].state # "busy" => nodeDb'[d].session = None
             /\ \/ nodeDb'[d].session = nodeDb[d].session
                \/ nodeDb'[d].session = None
                \/ nodeDb'[d].session = q /\ Past(q)'
  <2>1. nodeDb[d].state # "busy" => nodeDb[d].session = None
    BY <1>1 DEF SessionsPast
  <2>2. CASE NodeAllocates(q) \/ NodeRefuses(q)
    <3>1. \/ nodeDb' = nodeDb
          \/ \E e \in Eligible(q) : nodeDb' = BlockDevice(nodeDb, e)
      BY <2>2 DEF NodeAllocates, NodeRefuses
    <3> QED
      BY <1>1, <2>1, <3>1 DEF BlockDevice, Doc
  <2>3. CASE DriverStarts(q)
    <3>1. Past(q)'
      BY <1>1, <2>3 DEF DriverStarts, Move, Past, TypeOK
    <3> QED
      BY <1>1, <2>1, <2>3, <3>1 DEF DriverStarts, Update, InSession
  <2>4. CASE DriverFails(q) \/ NodeDeletes(q)
    BY <1>1, <2>1, <2>4 DEF DriverFails, NodeDeletes, Update, UnblockSession, Free
  <2>5. CASE UNCHANGED nodeDb
    BY <2>1, <2>5
  <2> QED
    BY <2>2, <2>3, <2>4, <2>5 DEF RequestStep, HubForwards,
       HubRecords, HubUnblocks, HubGivesUp, HubDeletes, DriverDies
<1>4. \A d \in Devices : nodeDb[d].session \in Requests \cup {None}
  BY <1>1, DocTypes
<1>5. \A r \in expired : r \in Requests
  BY <1>1 DEF TypeOK
<1> QED
  BY <1>1, <1>2, <1>3, <1>4, <1>5 DEF SessionsPast

(***************************************************************************)
(* A step of a request keeps the invariant.  Only NodeAllocates makes a new *)
(* user, and it finds the document free.                                    *)
(***************************************************************************)
LEMMA RequestKeeps ==
  ASSUME OneUserInv, NEW q \in Requests, RequestStep(q)
  PROVE  OneUserInv'
<1>1. TypeOK'
  BY RequestTypes DEF OneUserInv
<1>2. (\A r \in Requests : Placed(r)' /\ DocHeld(r)') /\ SessionsPast'
  BY OthersKeep, OwnKept, SessionsKept
<1>3. \A r \in Requests : r # q => Using(r)' = Using(r) /\ on'[r] = on[r]
  BY OthersKeep DEF Using
<1>4. ASSUME NEW r \in Requests, r # q, Using(r), Using(q)'
      PROVE  on'[q] # on[r]
  <2>1. TypeOK /\ DocHeld(r)
    BY DEF OneUserInv
  <2>2. CASE NodeAllocates(q)
    BY <1>4, <2>1, <2>2 DEF NodeAllocates, DocHeld, TypeOK
  <2>3. CASE ~NodeAllocates(q)
    <3>1. Using(q) /\ on'[q] = on[q]
      BY <1>4, <2>1, <2>3 DEF RequestStep, HubForwards, NodeRefuses,
         DriverStarts, DriverFails, HubRecords, HubUnblocks, HubGivesUp,
         HubDeletes, NodeDeletes, DriverDies, Move, Using, TypeOK
    <3> QED
      BY <1>4, <3>1 DEF OneUserInv, OneUser
  <2> QED
    BY <2>2, <2>3
<1>5. OneUser'
  <2> SUFFICES ASSUME NEW r \in Requests, NEW s \in Requests,
                      Using(r)', Using(s)', on'[r] = on'[s], r # s
               PROVE  FALSE
    BY DEF OneUser
  <2>1. CASE r = q
    BY <2>1, <1>3, <1>4
  <2>2. CASE s = q
    BY <2>2, <1>3, <1>4
  <2>3. CASE r # q /\ s # q
    BY <2>3, <1>3 DEF OneUserInv, OneUser
  <2> QED
    BY <2>1, <2>2, <2>3
<1> QED
  BY <1>1, <1>2, <1>5 DEF OneUserInv

(***************************************************************************)
(* A step that makes no new user, lets no request come back to its node and *)
(* leaves the documents of the users as they are keeps the invariant.       *)
(***************************************************************************)
LEMMA QuietKeeps ==
  ASSUME OneUserInv, TypeOK', UNCHANGED <<dev, on>>, SessionsPast',
         \A q \in Requests :
            /\ at'[q] # "new" => at[q] # "new"
            /\ Using(q)' => /\ Using(q)
                            /\ (at'[q] = "starting") <=> (at[q] = "starting")
                            /\ nodeDb'[on[q]] = nodeDb[on[q]]
  PROVE  OneUserInv'
<1>1. \A q \in Requests : Placed(q)'
  BY DEF OneUserInv, Placed
<1>2. \A q \in Requests : DocHeld(q)'
  BY DEF OneUserInv, DocHeld
<1>3. OneUser'
  BY DEF OneUserInv, OneUser
<1> QED
  BY <1>1, <1>2, <1>3 DEF OneUserInv

(***************************************************************************)
(* Documents lose sessions, nobody is found idle, and nobody comes back.    *)
(***************************************************************************)
LEMMA SessionsStay ==
  ASSUME OneUserInv, TypeOK', expired' = expired,
         \A q \in Requests : Past(q) => Past(q)',
         \A d \in Devices : \/ nodeDb'[d] = nodeDb[d]
                            \/ nodeDb'[d].session = None
  PROVE  SessionsPast'
<1>1. \A d \in Devices : nodeDb[d].session \in Requests \cup {None}
  BY DocTypes DEF OneUserInv, TypeOK
<1>2. \A q \in expired : q \in Requests
  BY DEF OneUserInv, TypeOK
<1> QED
  BY <1>1, <1>2 DEF OneUserInv, SessionsPast

(***************************************************************************)
(* A hub that finds a session idle does not touch the node; a node that     *)
(* does ends the use of the device.                                         *)
(***************************************************************************)
LEMMA ReleaseKeeps ==
  ASSUME OneUserInv, NEW d \in Devices, ReleaseStep(d)
  PROVE  OneUserInv'
<1>1. TypeOK /\ TypeOK' /\ SessionsPast /\ nodeDb \in [Devices -> Doc]
  BY ReleaseTypes DEF OneUserInv, TypeOK
<1>2. CASE HubReleasesIdle(d)
  <2>1. UNCHANGED <<dev, on, nodeDb, expired>>
    BY <1>2 DEF HubReleasesIdle
  <2>2. \A q \in Requests : \/ at'[q] = at[q]
                            \/ at[q] = "active" /\ at'[q] = "idle"
    BY <1>1, <1>2 DEF HubReleasesIdle
  <2>3. SessionsPast'
    BY <1>1, <2>1, <2>2, SessionsStay DEF Past
  <2> QED
    BY <1>1, <2>1, <2>2, <2>3, QuietKeeps DEF Using
<1>3. CASE NodeReleasesIdle(d)
  <2>1. /\ UNCHANGED <<at, dev, on>>
        /\ expired' = expired \cup {nodeDb[d].session}
        /\ nodeDb[d].session # None
        /\ nodeDb' = Update(nodeDb, d, Free)
    BY <1>3 DEF NodeReleasesIdle, requestVars, Candidate
  <2>2. \A e \in Devices : \/ nodeDb'[e] = nodeDb[e]
                           \/ e = d /\ nodeDb'[e].session = None
    BY <1>1, <2>1 DEF Update, Free
  <2>3. SessionsPast'
    BY <1>1, <2>1, <2>2 DEF SessionsPast, Past
  <2>4. ASSUME NEW q \in Requests, Using(q)'
        PROVE  Using(q) /\ nodeDb'[on[q]] = nodeDb[on[q]]
    <3>1. Using(q) /\ q # nodeDb[d].session
      BY <2>1, <2>4 DEF Using
    <3>2. on[q] # d /\ on[q] \in Devices
      BY <2>1, <3>1 DEF OneUserInv, DocHeld
    <3> QED
      BY <2>1, <3>1, <3>2 DEF Update
  <2> QED
    BY <1>1, <2>1, <2>3, <2>4, QuietKeeps
<1> QED
  BY <1>2, <1>3 DEF ReleaseStep

(***************************************************************************)
(* The jobs, the starts and the stops are quiet, unless a node forgets.     *)
(***************************************************************************)
LEMMA RegistryKeeps ==
  ASSUME "outage" \notin Environment, OneUserInv,
         \/ \E n \in Nodes : JobStep(n) \/ NodeStarts(n) \/ NodeCrashes(n)
         \/ StaleStep
         \/ HubRestarts
  PROVE  OneUserInv'
<1>1. TypeOK /\ TypeOK' /\ SessionsPast /\ nodeDb \in [Devices -> Doc]
  BY RegistryTypes DEF OneUserInv, TypeOK
<1>2. \A q \in Requests :
         Using(q) => on[q] \in Devices /\ nodeDb[on[q]].state = "busy"
  BY DEF OneUserInv, DocHeld
<1>3. ASSUME NEW n \in Nodes, JobStep(n)
      PROVE  OneUserInv'
  <2>1. UNCHANGED <<at, dev, on, expired>>
    BY <1>3 DEF JobStep, NodeProbesHub, NodeForgetsDevices, NodeLists, NodePosts,
       NodePostFails, requestVars
  <2>2. \/ nodeDb' = nodeDb
        \/ nodeDb' = AddNewDevices(nodeDb, HostedBy(n), Listed(n))
    BY <1>3 DEF JobStep, NodeProbesHub, NodeForgetsDevices, NodeLists, NodePosts,
       NodePostFails
  <2>3. \A e \in Devices :
           \/ nodeDb'[e] = nodeDb[e]
           \/ nodeDb[e].state = "none" /\ nodeDb'[e].session = nodeDb[e].session
    BY <1>1, <2>2 DEF AddNewDevices, HostedBy, Listed
  <2>4. \A e \in Devices : \/ nodeDb'[e] = nodeDb[e]
                           \/ nodeDb'[e].session = None
    BY <1>1, <2>3 DEF SessionsPast
  <2>5. \A q \in Requests : Past(q)' <=> Past(q)
    BY <2>1 DEF Past
  <2>6. SessionsPast'
    BY <1>1, <2>1, <2>4, <2>5, SessionsStay
  <2>7. \A q \in Requests :
           /\ Using(q)' <=> Using(q)
           /\ Using(q) => nodeDb'[on[q]] = nodeDb[on[q]]
    BY <1>2, <2>1, <2>3 DEF Using
  <2> QED
    BY <1>1, <2>1, <2>6, <2>7, QuietKeeps
<1>4. ASSUME UNCHANGED <<at, dev, on, nodeDb, expired>>
      PROVE  OneUserInv'
  <2>1. SessionsPast'
    BY <1>1, <1>4 DEF SessionsPast, Past
  <2> QED
    BY <1>1, <1>4, <2>1, QuietKeeps DEF Using
<1>5. ASSUME NEW n \in Nodes, NodeStarts(n)
      PROVE  OneUserInv'
  BY <1>4, <1>5 DEF NodeStarts, requestVars
<1>6. ASSUME NEW n \in Nodes, NodeCrashes(n)
      PROVE  OneUserInv'
  <2>1. UNCHANGED <<dev, on, expired>>
    BY <1>6 DEF NodeCrashes
  <2>2. ASSUME NEW q \in Requests, dev[q] # None, HostOf[dev[q]] = n
        PROVE  /\ ~Using(q)' /\ (at'[q] # "new" => at[q] # "new")
               /\ Past(q) => Past(q)'
    BY <1>1, <1>6, <2>2 DEF NodeCrashes, AfterCrash, Using, TypeOK, Stages, Past
  <2>3. ASSUME NEW q \in Requests, ~(dev[q] # None /\ HostOf[dev[q]] = n)
        PROVE  at'[q] = at[q]
    BY <1>1, <1>6, <2>3 DEF NodeCrashes
  <2>4. nodeDb' = RemoveDevices(nodeDb, HostedBy(n))
    BY <1>6 DEF NodeCrashes
  <2>5. \A e \in Devices : \/ nodeDb'[e] = nodeDb[e]
                           \/ HostOf[e] = n /\ nodeDb'[e].session = None
    BY <1>1, <2>4 DEF RemoveDevices, HostedBy, Missing
  <2>6. SessionsPast'
    <3>1. \A q \in Requests : Past(q) => Past(q)'
      BY <2>2, <2>3 DEF Past
    <3> QED
      BY <1>1, <2>1, <2>5, <3>1, SessionsStay
  <2>7. ASSUME NEW q \in Requests, Using(q)'
        PROVE  /\ Using(q) /\ at'[q] = at[q]
               /\ nodeDb'[on[q]] = nodeDb[on[q]]
    <3>1. ~(dev[q] # None /\ HostOf[dev[q]] = n)
      BY <2>2, <2>7
    <3>2. at'[q] = at[q] /\ Using(q)
      BY <2>1, <2>3, <2>7, <3>1 DEF Using
    <3>3. /\ on[q] \in Devices /\ HostOf[on[q]] = HostOf[dev[q]]
          /\ dev[q] \in Devices
      BY <3>2 DEF OneUserInv, DocHeld, Placed, Using
    <3>4. HostOf[on[q]] # n
      BY <3>1, <3>3, RegistryAssumption
    <3> QED
      BY <2>5, <3>2, <3>3, <3>4
  <2>8. \A q \in Requests : at'[q] # "new" => at[q] # "new"
    BY <2>2, <2>3
  <2> QED
    BY <1>1, <2>1, <2>6, <2>7, <2>8, QuietKeeps
<1>7. CASE StaleStep
  BY <1>4, <1>7 DEF StaleStep, HubProbesNodes, HubFindsDead, HubRemovesStale,
     requestVars
<1>8. CASE HubRestarts
  <2>1. UNCHANGED <<dev, on, nodeDb, expired>>
    BY <1>8 DEF HubRestarts
  <2>2. \A q \in Requests : at'[q] = AfterRestart(at[q]) /\ at[q] \in Stages
    BY <1>1, <1>8 DEF HubRestarts, TypeOK
  <2>3. \A q \in Requests :
           /\ at'[q] # "new" => at[q] # "new"
           /\ Past(q) => Past(q)'
           /\ Using(q)' => Using(q) /\ ((at'[q] = "starting") <=> (at[q] = "starting"))
    BY <2>1, <2>2 DEF AfterRestart, Using, Stages, Past
  <2>4. SessionsPast'
    BY <1>1, <2>1, <2>3, SessionsStay
  <2> QED
    BY <1>1, <2>1, <2>3, <2>4, QuietKeeps
<1> QED
  BY <1>3, <1>5, <1>6, <1>7, <1>8

(***************************************************************************)
(* The invariant holds at first, and a step keeps it unless a node forgets. *)
(***************************************************************************)
LEMMA OneUserInit == Init => OneUserInv
BY RegistryInit DEF Init, OneUserInv, Placed, DocHeld, SessionsPast, Past, Using,
   OneUser, Missing

LEMMA OneUserStep ==
  ASSUME "outage" \notin Environment
  PROVE  OneUserInv /\ [Next]_vars => OneUserInv'
<1> SUFFICES ASSUME OneUserInv, [Next]_vars
             PROVE  OneUserInv'
  OBVIOUS
<1>1. CASE UNCHANGED vars
  <2>1. TypeOK'
    BY <1>1, RegistryStep DEF OneUserInv
  <2>2. SessionsPast'
    BY <1>1 DEF OneUserInv, SessionsPast, Past, vars
  <2> QED
    BY <1>1, <2>1, <2>2, QuietKeeps DEF vars, Using
<1>2. CASE \E q \in Requests : RequestStep(q)
  BY <1>2, RequestKeeps
<1>3. CASE \E d \in Devices : ReleaseStep(d)
  BY <1>3, ReleaseKeeps
<1> QED
  BY <1>1, <1>2, <1>3, RegistryKeeps DEF Next

(***************************************************************************)
(* As long as every probe of the hub is answered, a node never lends a      *)
(* device to two requests, whatever crashes, restarts, times out or fails,  *)
(* and whatever still comes of a session that the node has found idle.      *)
(***************************************************************************)
THEOREM NodeServesOne ==
  ASSUME "outage" \notin Environment
  PROVE  Spec => []OneUser
<1>1. OneUserInv => OneUser
  BY DEF OneUserInv
<1> QED
  BY <1>1, OneUserInit, OneUserStep, PTL DEF Spec

-----------------------------------------------------------------------------
(***************************************************************************)
(* The lease of a device is the one request its node has lent it to.        *)
(***************************************************************************)
LEMMA UserIsUsing ==
  ASSUME OneUserInv, NEW d \in Devices
  PROVE  /\ \A q \in Requests : Using(q) /\ on[q] = d => UserOf(d) = q
         /\ (\A q \in Requests : ~(Using(q) /\ on[q] = d)) => UserOf(d) = None
BY DEF UserOf, OneUserInv, OneUser

(***************************************************************************)
(* A device whose users are the same after a step has the same lease.       *)
(***************************************************************************)
LEMMA LeaseStays ==
  ASSUME OneUserInv, OneUserInv', NEW d \in Devices,
         \A q \in Requests :
            (Using(q)' /\ on'[q] = d) <=> (Using(q) /\ on[q] = d)
  PROVE  UserOf(d)' = UserOf(d)
<1>1. /\ \A q \in Requests : Using(q)' /\ on'[q] = d => UserOf(d)' = q
      /\ (\A q \in Requests : ~(Using(q)' /\ on'[q] = d)) => UserOf(d)' = None
  BY DEF UserOf, OneUserInv, OneUser
<1> QED
  BY <1>1, UserIsUsing

(***************************************************************************)
(* A step that neither begins nor ends a use or a wait leaves the leases    *)
(* alone.                                                                   *)
(***************************************************************************)
LEMMA UsesStay ==
  ASSUME OneUserInv, OneUserInv', UNCHANGED <<dev, on>>,
         \A q \in Requests :
            /\ Using(q)' <=> Using(q)
            /\ at'[q] = "forwarded" <=> at[q] = "forwarded"
  PROVE  UNCHANGED Lease!leaseVars
<1>1. \A d \in Devices : UserOf(d)' = UserOf(d)
  BY LeaseStays
<1>2. Unanswered' = Unanswered
  BY DEF Unanswered
<1> QED
  BY <1>1, <1>2 DEF Lease!leaseVars

(***************************************************************************)
(* A request whose use of a device ends gives back this device alone.       *)
(***************************************************************************)
LEMMA UseEnds ==
  ASSUME OneUserInv, OneUserInv', UNCHANGED <<dev, on>>,
         NEW q \in Requests, Using(q), ~Using(q)',
         \A r \in Requests :
            /\ r # q => (Using(r)' <=> Using(r))
            /\ at'[r] = "forwarded" <=> at[r] = "forwarded"
  PROVE  Lease!TakeBack(on[q]) /\ on[q] \in Devices
<1>1. on[q] \in Devices /\ q # None
  BY RegistryAssumption DEF OneUserInv, DocHeld
<1>2. UserOf(on[q]) = q
  BY <1>1, UserIsUsing
<1>3. UserOf(on[q])' = None
  <2>1. \A r \in Requests : ~(Using(r)' /\ on'[r] = on[q])
    BY DEF OneUserInv, OneUser
  <2> QED
    BY <2>1 DEF UserOf
<1>4. ASSUME NEW e \in Devices, e # on[q]
      PROVE  UserOf(e)' = UserOf(e)
  <2>1. \A r \in Requests :
           (Using(r)' /\ on'[r] = e) <=> (Using(r) /\ on[r] = e)
    BY <1>4
  <2> QED
    BY <2>1, LeaseStays
<1>5. Unanswered' = Unanswered
  BY DEF Unanswered
<1> QED
  BY <1>1, <1>2, <1>3, <1>4, <1>5 DEF Lease!TakeBack

(***************************************************************************)
(* What a step of one request does to the uses and the waits.               *)
(***************************************************************************)
LEMMA OnlyItsUse ==
  ASSUME OneUserInv, NEW q \in Requests, RequestStep(q)
  PROVE  \A r \in Requests : r # q => /\ at'[r] = at[r] /\ dev'[r] = dev[r]
                                      /\ on'[r] = on[r]
                                      /\ Using(r)' <=> Using(r)
<1>1. \A r \in Requests : r # q => /\ at'[r] = at[r] /\ dev'[r] = dev[r]
                                   /\ on'[r] = on[r] /\ expired' = expired
  BY OthersKeep
<1> QED
  BY <1>1 DEF Using

(***************************************************************************)
(* The hub's forwarding asks a node: the request has no device before.      *)
(***************************************************************************)
Unasked(q) == at[q] = "new" => dev[q] = None

LeaseInv ==
  /\ OneUserInv
  /\ \A q \in Requests : Unasked(q)

LEMMA UnaskedKept ==
  ASSUME TypeOK, [Next]_vars, \A q \in Requests : Unasked(q)
  PROVE  \A q \in Requests : Unasked(q)'
<1>1. \A q \in Requests :
         \/ at'[q] # "new"
         \/ at[q] = "new" /\ dev'[q] = dev[q]
  <2>1. CASE UNCHANGED vars
    BY <2>1 DEF vars
  <2>2. ASSUME NEW q \in Requests, RequestStep(q)
        PROVE  \A r \in Requests : \/ at'[r] # "new"
                                   \/ at[r] = "new" /\ dev'[r] = dev[r]
    BY <2>2 DEF TypeOK, RequestStep, HubForwards, NodeAllocates, NodeRefuses,
       DriverStarts, DriverFails, HubRecords, HubUnblocks, HubGivesUp, HubDeletes,
       NodeDeletes, DriverDies, Move
  <2>3. ASSUME NEW d \in Devices, ReleaseStep(d)
        PROVE  /\ dev' = dev
               /\ \A q \in Requests : at'[q] = "new" => at[q] = "new"
    BY <2>3 DEF ReleaseStep, HubReleasesIdle, NodeReleasesIdle, requestVars
  <2>4. ASSUME NEW n \in Nodes, JobStep(n) \/ NodeStarts(n)
        PROVE  UNCHANGED <<at, dev>>
    BY <2>4 DEF JobStep, NodeProbesHub, NodeForgetsDevices, NodeLists, NodePosts,
       NodePostFails, NodeStarts, requestVars
  <2>5. CASE StaleStep
    BY <2>5 DEF StaleStep, HubProbesNodes, HubFindsDead, HubRemovesStale,
       requestVars
  <2>6. ASSUME NEW n \in Nodes, NodeCrashes(n)
        PROVE  /\ dev' = dev
               /\ \A q \in Requests : at'[q] = "new" => at[q] = "new"
    BY <2>6 DEF NodeCrashes, AfterCrash
  <2>7. CASE HubRestarts
    BY <2>7 DEF HubRestarts, AfterRestart
  <2> QED
    BY <2>1, <2>2, <2>3, <2>4, <2>5, <2>6, <2>7 DEF Next
<1> QED
  BY <1>1 DEF Unasked

(***************************************************************************)
(* A step of a request asks a node, is its answer, ends the use of one      *)
(* device, or does nothing to the leases.                                   *)
(***************************************************************************)
LEMMA RequestLeases ==
  ASSUME LeaseInv, OneUserInv', NEW q \in Requests, RequestStep(q)
  PROVE  [Lease!Next]_Lease!leaseVars
<1>1. /\ TypeOK /\ Placed(q) /\ DocHeld(q) /\ Unasked(q)
      /\ OneUserInv /\ TypeOK'
  BY DEF LeaseInv, OneUserInv
<1>2. \A r \in Requests : r # q => /\ at'[r] = at[r] /\ dev'[r] = dev[r]
                                   /\ on'[r] = on[r]
                                   /\ Using(r)' <=> Using(r)
  BY <1>1, OnlyItsUse
<1>3. ASSUME ~Using(q), ~Using(q)'
      PROVE  \A e \in Devices : UserOf(e)' = UserOf(e)
  <2> SUFFICES ASSUME NEW e \in Devices
               PROVE  UserOf(e)' = UserOf(e)
    OBVIOUS
  <2>1. \A r \in Requests :
           (Using(r)' /\ on'[r] = e) <=> (Using(r) /\ on[r] = e)
    BY <1>2, <1>3
  <2> QED
    BY <1>1, <2>1, LeaseStays
<1>4. CASE HubForwards(q)
  <2>1. PICK d \in Devices : dev' = [dev EXCEPT ![q] = d]
    BY <1>4 DEF HubForwards
  <2>2. /\ dev[q] = None
        /\ ~Using(q) /\ ~Using(q)'
        /\ at[q] = "new" /\ at'[q] = "forwarded"
    BY <1>1, <1>4 DEF HubForwards, Move, TypeOK, Unasked, Using
  <2>3. Unanswered' = Unanswered \cup {q}
    BY <1>2, <2>2 DEF Unanswered
  <2>4. Lease!Ask(q, d)
    BY <1>3, <2>1, <2>2, <2>3 DEF Lease!Ask
  <2> QED
    BY <2>4 DEF Lease!Next
<1>5. CASE NodeAllocates(q)
  <2>1. PICK d \in Eligible(q) : /\ nodeDb[d].state = "free"
                                 /\ on' = [on EXCEPT ![q] = d]
    BY <1>5 DEF NodeAllocates
  <2>2. /\ dev' = dev /\ dev[q] \in Devices /\ on'[q] = d
        /\ expired' = expired
        /\ at[q] = "forwarded" /\ at'[q] = "starting"
    BY <1>1, <1>5, <2>1 DEF NodeAllocates, Move, TypeOK, Placed
  <2>3. ~Using(q) /\ Using(q)'
    BY <1>1, <2>2, NotExpired DEF Using
  <2>4. d \in Devices /\ Lease!Suits(q, d)
    BY <1>1, <2>2, EligibleDevice DEF Lease!Suits
  <2>5. \A r \in Requests : ~(Using(r) /\ on[r] = d)
    BY <2>1 DEF LeaseInv, OneUserInv, DocHeld
  <2>6. UserOf(d) = None
    BY <1>1, <2>4, <2>5, UserIsUsing
  <2>7. UserOf(d)' = q
    <3>1. \A r \in Requests : Using(r)' /\ on'[r] = d => r = q
      BY <1>2, <2>5
    <3> QED
      BY <2>2, <2>3, <3>1 DEF UserOf
  <2>8. \A e \in Devices : e # d => UserOf(e)' = UserOf(e)
    <3> SUFFICES ASSUME NEW e \in Devices, e # d
                 PROVE  UserOf(e)' = UserOf(e)
      OBVIOUS
    <3>1. \A r \in Requests :
             (Using(r)' /\ on'[r] = e) <=> (Using(r) /\ on[r] = e)
      BY <1>2, <2>2, <2>3
    <3> QED
      BY <1>1, <3>1, LeaseStays
  <2>9. q \in Unanswered /\ Unanswered' = Unanswered \ {q}
    BY <1>2, <2>2 DEF Unanswered
  <2>10. Lease!Lend(q, d)
    BY <2>2, <2>4, <2>6, <2>7, <2>8, <2>9 DEF Lease!Lend
  <2> QED
    BY <2>4, <2>10 DEF Lease!Next
<1>6. CASE NodeRefuses(q)
  <2>1. /\ dev' = dev
        /\ at[q] = "forwarded" /\ at'[q] = "broken"
        /\ ~Using(q) /\ ~Using(q)'
    BY <1>1, <1>6 DEF NodeRefuses, Move, TypeOK, Using
  <2>2. q \in Unanswered /\ Unanswered' = Unanswered \ {q}
    BY <1>2, <2>1 DEF Unanswered
  <2>3. Lease!Refuse(q)
    BY <1>3, <2>1, <2>2 DEF Lease!Refuse
  <2> QED
    BY <2>3 DEF Lease!Next
<1>7. CASE \/ DriverStarts(q) \/ DriverFails(q) \/ HubRecords(q) \/ HubUnblocks(q)
           \/ HubGivesUp(q) \/ HubDeletes(q) \/ NodeDeletes(q) \/ DriverDies(q)
  <2>1. /\ UNCHANGED <<dev, on, expired>>
        /\ at[q] # "forwarded" \/ at' = at
        /\ at'[q] # "forwarded" \/ at' = at
        /\ Using(q)' => Using(q)
    BY <1>1, <1>7 DEF DriverStarts, DriverFails, HubRecords, HubUnblocks,
       HubGivesUp, HubDeletes, NodeDeletes, DriverDies, Move, TypeOK, Using
  <2>2. \A r \in Requests : at'[r] = "forwarded" <=> at[r] = "forwarded"
    BY <1>2, <2>1
  <2>3. CASE Using(q)' <=> Using(q)
    <3>1. UNCHANGED Lease!leaseVars
      BY <1>1, <1>2, <2>1, <2>2, <2>3, UsesStay
    <3> QED
      BY <3>1
  <2>4. CASE Using(q) /\ ~Using(q)'
    <3>1. Lease!TakeBack(on[q]) /\ on[q] \in Devices
      BY <1>1, <1>2, <2>1, <2>2, <2>4, UseEnds
    <3> QED
      BY <3>1 DEF Lease!Next
  <2> QED
    BY <2>1, <2>3, <2>4
<1> QED
  BY <1>4, <1>5, <1>6, <1>7 DEF RequestStep

(***************************************************************************)
(* The hub's job ends no lease; a node that finds a session idle takes back *)
(* its device.                                                              *)
(***************************************************************************)
LEMMA ReleaseLeases ==
  ASSUME LeaseInv, OneUserInv', NEW d \in Devices, ReleaseStep(d)
  PROVE  [Lease!Next]_Lease!leaseVars
<1>1. TypeOK /\ OneUserInv
  BY DEF LeaseInv, OneUserInv
<1>2. CASE HubReleasesIdle(d)
  <2>1. /\ UNCHANGED <<dev, on, expired>>
        /\ \A q \in Requests : \/ at'[q] = at[q]
                               \/ at[q] = "active" /\ at'[q] = "idle"
    BY <1>1, <1>2 DEF HubReleasesIdle, TypeOK
  <2>2. UNCHANGED Lease!leaseVars
    BY <1>1, <2>1, UsesStay DEF Using
  <2> QED
    BY <2>2
<1>3. CASE NodeReleasesIdle(d)
  <2>1. PICK q \in Requests : q = nodeDb[d].session
    BY <1>1, <1>3, DocTypes DEF NodeReleasesIdle, Candidate, TypeOK
  <2>2. /\ UNCHANGED <<at, dev, on>>
        /\ expired' = expired \cup {q}
    BY <1>3, <2>1 DEF NodeReleasesIdle, requestVars
  <2>3. /\ ~Using(q)'
        /\ \A r \in Requests : r # q => (Using(r)' <=> Using(r))
    BY <2>2 DEF Using
  <2>4. CASE Using(q)
    <3>1. Lease!TakeBack(on[q]) /\ on[q] \in Devices
      BY <1>1, <2>2, <2>3, <2>4, UseEnds
    <3> QED
      BY <3>1 DEF Lease!Next
  <2>5. CASE ~Using(q)
    <3>1. UNCHANGED Lease!leaseVars
      BY <1>1, <2>2, <2>3, <2>5, UsesStay
    <3> QED
      BY <3>1
  <2> QED
    BY <2>4, <2>5
<1> QED
  BY <1>2, <1>3 DEF ReleaseStep

(***************************************************************************)
(* A node that crashes takes back its devices and drops its requests; the   *)
(* other jobs, starts and restarts do nothing to the leases.                *)
(***************************************************************************)
LEMMA RegistryLeases ==
  ASSUME LeaseInv, OneUserInv',
         \/ \E n \in Nodes : JobStep(n) \/ NodeStarts(n) \/ NodeCrashes(n)
         \/ StaleStep
         \/ HubRestarts
  PROVE  [Lease!Next]_Lease!leaseVars
<1>1. TypeOK /\ OneUserInv
  BY DEF LeaseInv, OneUserInv
<1>2. ASSUME NEW n \in Nodes, JobStep(n) \/ NodeStarts(n)
      PROVE  UNCHANGED Lease!leaseVars
  <2>1. UNCHANGED <<at, dev, on, expired>>
    BY <1>2 DEF JobStep, NodeProbesHub, NodeForgetsDevices, NodeLists, NodePosts,
       NodePostFails, NodeStarts, requestVars
  <2> QED
    BY <1>1, <2>1, UsesStay DEF Using
<1>3. CASE StaleStep
  <2>1. UNCHANGED <<at, dev, on, expired>>
    BY <1>3 DEF StaleStep, HubProbesNodes, HubFindsDead, HubRemovesStale,
       requestVars
  <2> QED
    BY <1>1, <2>1, UsesStay DEF Using
<1>4. CASE HubRestarts
  <2>1. /\ UNCHANGED <<dev, on, expired>>
        /\ \A q \in Requests : at'[q] = AfterRestart(at[q])
    BY <1>1, <1>4 DEF HubRestarts
  <2>2. \A q \in Requests : /\ Using(q)' <=> Using(q)
                            /\ at'[q] = "forwarded" <=> at[q] = "forwarded"
    BY <2>1 DEF AfterRestart, Using
  <2> QED
    BY <1>1, <2>1, <2>2, UsesStay
<1>5. ASSUME NEW n \in Nodes, NodeCrashes(n)
      PROVE  Lease!Stop(n)
  <2>1. UNCHANGED <<dev, on, expired>>
    BY <1>5 DEF NodeCrashes
  <2>2. ASSUME NEW q \in Requests, at[q] # "new", HostOf[dev[q]] = n
        PROVE  ~Using(q)' /\ at'[q] # "forwarded"
    <3>1. dev[q] # None
      BY <2>2, RegistryAssumption DEF LeaseInv, OneUserInv, Placed
    <3> QED
      BY <1>1, <1>5, <2>2, <3>1 DEF NodeCrashes, AfterCrash, Using, TypeOK
  <2>3. ASSUME NEW q \in Requests, at[q] = "new" \/ HostOf[dev[q]] # n
        PROVE  at'[q] = at[q]
    BY <1>5, <2>3 DEF NodeCrashes, AfterCrash
  <2>4. Unanswered' = {q \in Unanswered : HostOf[dev[q]] # n}
    BY <2>2, <2>3 DEF Unanswered
  <2>5. \A q \in Requests : Using(q) => HostOf[on[q]] = HostOf[dev[q]]
    BY <1>1 DEF OneUserInv, DocHeld
  <2>6. \A q \in Requests :
           Using(q)' <=> (Using(q) /\ HostOf[dev[q]] # n)
    BY <2>1, <2>2, <2>3 DEF Using
  <2>7. ASSUME NEW d \in Devices, HostOf[d] = n
        PROVE  UserOf(d)' = None
    <3>1. \A q \in Requests : ~(Using(q)' /\ on'[q] = d)
      BY <2>1, <2>5, <2>6, <2>7
    <3> QED
      BY <3>1 DEF UserOf
  <2>8. ASSUME NEW d \in Devices, HostOf[d] # n
        PROVE  UserOf(d)' = UserOf(d)
    <3>1. \A q \in Requests :
             (Using(q)' /\ on'[q] = d) <=> (Using(q) /\ on[q] = d)
      BY <2>1, <2>5, <2>6, <2>8
    <3> QED
      BY <1>1, <3>1, LeaseStays
  <2> QED
    BY <2>1, <2>4, <2>7, <2>8 DEF Lease!Stop
<1> QED
  BY <1>2, <1>3, <1>4, <1>5 DEF Lease!Next

(***************************************************************************)
(* Hub and nodes implement NodeLease as long as every probe of the hub is   *)
(* answered: whatever the hub forgets, offers again or gives up, a request  *)
(* comes to one node at most once, gets there a device it has asked for,    *)
(* and has it alone until it gives it back or the node finds it idle.       *)
(***************************************************************************)
THEOREM NodesImplementLease ==
  ASSUME "outage" \notin Environment
  PROVE  Spec => ImplementsNodeLease
<1>1. Init => LeaseInv /\ Lease!Init
  <2> SUFFICES ASSUME Init
               PROVE  LeaseInv /\ Lease!Init
    OBVIOUS
  <2>1. OneUserInv
    BY OneUserInit
  <2>2. \A d \in Devices : UserOf(d) = None
    BY DEF UserOf, Using, Init
  <2> QED
    BY <2>1, <2>2 DEF LeaseInv, Unasked, Init, Unanswered, Lease!Init
<1>2. LeaseInv /\ [Next]_vars => LeaseInv' /\ [Lease!Next]_Lease!leaseVars
  <2> SUFFICES ASSUME LeaseInv, [Next]_vars
               PROVE  LeaseInv' /\ [Lease!Next]_Lease!leaseVars
    OBVIOUS
  <2>1. OneUserInv'
    BY OneUserStep DEF LeaseInv
  <2>2. LeaseInv'
    BY <2>1, UnaskedKept DEF LeaseInv, OneUserInv
  <2>3. CASE UNCHANGED vars
    <3>1. UNCHANGED <<at, dev, on, expired>>
      BY <2>3 DEF vars
    <3>2. UNCHANGED Lease!leaseVars
      BY <2>1, <3>1, UsesStay DEF LeaseInv, Using
    <3> QED
      BY <2>2, <3>2
  <2>4. CASE \E q \in Requests : RequestStep(q)
    BY <2>1, <2>2, <2>4, RequestLeases
  <2>5. CASE \E d \in Devices : ReleaseStep(d)
    BY <2>1, <2>2, <2>5, ReleaseLeases
  <2>6. CASE \/ \E n \in Nodes : JobStep(n) \/ NodeStarts(n) \/ NodeCrashes(n)
             \/ StaleStep
             \/ HubRestarts
    BY <2>1, <2>2, <2>6, RegistryLeases
  <2> QED
    BY <2>3, <2>4, <2>5, <2>6 DEF Next
<1> QED
  BY <1>1, <1>2, PTL DEF Spec, ImplementsNodeLease, Lease!Spec

-----------------------------------------------------------------------------
(***************************************************************************)
(* The strengthening of HubKnowsSession: the hub's document of a device     *)
(* belongs to one request of those it still deals with; a session is known  *)
(* to a node only where the hub has documents, so that no document the hub  *)
(* inserts has one; and the hub has documents of running nodes only, those  *)
(* of all devices of a node or none, so that none of them is stale.         *)
(***************************************************************************)
Attached(q) ==
  q \in heard /\ at[q] \in {"forwarded", "starting", "running", "broken", "active"}

HubHolds(q) ==
  /\ at[q] = "active" => q \in heard
  /\ Attached(q) => hubDb[dev[q]] =
        [state |-> "busy", session |-> IF at[q] = "active" THEN q ELSE None]

AttachedApart ==
  \A r, s \in Requests :
     Attached(r) /\ Attached(s) /\ dev[r] = dev[s] => r = s

Asked(q) ==
  /\ at[q] # "new" => dev[q] \in Devices /\ hubDb[dev[q]].state # "none"
  /\ at[q] = "starting" => on[q] \in Devices /\ HostOf[on[q]] = HostOf[dev[q]]

NoSession(d) ==
  /\ hubDb[d].state # "busy" => hubDb[d].session = None
  /\ hubDb[d].state = "none" => list[d] = None /\ nodeDb[d].session = None

SameHost ==
  \A d, e \in Devices :
     HostOf[d] = HostOf[e] /\ hubDb[d].state = "none" => hubDb[e].state = "none"

NoneStale ==
  /\ \A d \in Devices : hubDb[d].state # "none" => HostOf[d] \in up
  /\ \A d \in seen : HostOf[d] \in up /\ HostOf[d] \notin dead
  /\ seen = {} => dead = {}
  /\ \A n \in Nodes : job[n] # "idle" => n \in up

HubInv ==
  /\ TypeOK
  /\ \A q \in Requests : HubHolds(q) /\ Asked(q)
  /\ \A d \in Devices : NoSession(d)
  /\ AttachedApart
  /\ SameHost
  /\ NoneStale

(***************************************************************************)
(* A step of a request neither inserts nor removes a document of the hub,   *)
(* and a document that is not busy afterwards has no session.               *)
(***************************************************************************)
LEMMA RequestStates ==
  ASSUME HubInv, NEW q \in Requests, RequestStep(q), NEW d \in Devices
  PROVE  /\ hubDb'[d].state = "none" <=> hubDb[d].state = "none"
         /\ hubDb'[d].state # "busy" => hubDb'[d].session = None
<1>1. /\ TypeOK /\ hubDb \in [Devices -> Doc] /\ q # None
      /\ hubDb[d].state # "busy" => hubDb[d].session = None
  BY RegistryAssumption DEF HubInv, NoSession, TypeOK
<1>2. CASE HubForwards(q)
  <2>1. PICK e \in Devices : /\ hubDb[e].state = "free"
                             /\ hubDb' = BlockDevice(hubDb, e)
    BY <1>2 DEF HubForwards
  <2> QED
    BY <1>1, <2>1 DEF BlockDevice, Doc
<1>3. CASE HubRecords(q) \/ HubUnblocks(q) \/ HubGivesUp(q)
  BY <1>1, <1>3 DEF HubRecords, HubUnblocks, HubGivesUp, Update, Free, InSession
<1>4. CASE HubDeletes(q)
  <2>1. hubDb' = UnblockSession(hubDb, q)
    BY <1>4 DEF HubDeletes
  <2> QED
    BY <1>1, <2>1 DEF UnblockSession, Free
<1>5. CASE DriverDies(q)
  <2>1. hubDb' = hubDb \/ hubDb' = UnblockDriver(hubDb, q)
    BY <1>5 DEF DriverDies
  <2> QED
    BY <1>1, <2>1 DEF UnblockDriver, Free
<1>6. CASE UNCHANGED hubDb
  BY <1>1, <1>6
<1> QED
  BY <1>2, <1>3, <1>4, <1>5, <1>6 DEF RequestStep, NodeAllocates, NodeRefuses,
     DriverStarts, DriverFails, NodeDeletes

(***************************************************************************)
(* A step of one request leaves the hub's documents of the others alone.    *)
(***************************************************************************)
LEMMA OthersKnown ==
  ASSUME HubInv, NEW q \in Requests, RequestStep(q),
         NEW r \in Requests, r # q
  PROVE  /\ at'[r] = at[r] /\ dev'[r] = dev[r] /\ on'[r] = on[r]
         /\ r \in heard' <=> r \in heard
         /\ HubHolds(r)' /\ Asked(r)'
<1>1. TypeOK /\ HubHolds(r) /\ Asked(r) /\ hubDb \in [Devices -> Doc]
  BY DEF HubInv, TypeOK
<1>2. /\ at'[r] = at[r] /\ dev'[r] = dev[r] /\ on'[r] = on[r]
      /\ r \in heard' <=> r \in heard
  BY <1>1 DEF TypeOK, RequestStep, HubForwards, NodeAllocates, NodeRefuses,
     DriverStarts, DriverFails, HubRecords, HubUnblocks, HubGivesUp, HubDeletes,
     NodeDeletes, DriverDies, Move
<1>3. ASSUME Attached(r)
      PROVE  hubDb'[dev[r]] = hubDb[dev[r]]
  <2>1. /\ dev[r] \in Devices
        /\ hubDb[dev[r]].state = "busy"
        /\ hubDb[dev[r]].session \in {None, r}
        /\ Attached(q) => dev[q] # dev[r]
        /\ q # None
    BY <1>1, <1>3, RegistryAssumption DEF HubHolds, Asked, Attached, HubInv,
       AttachedApart
  <2>2. CASE HubForwards(q)
    <3>1. PICK e \in Devices : /\ hubDb[e].state = "free"
                               /\ hubDb' = BlockDevice(hubDb, e)
      BY <2>2 DEF HubForwards
    <3> QED
      BY <2>1, <3>1, <1>1 DEF BlockDevice
  <2>3. CASE HubRecords(q) \/ HubUnblocks(q) \/ HubGivesUp(q)
    <3>1. \/ hubDb' = hubDb
          \/ /\ Attached(q)
             /\ \E doc : hubDb' = Update(hubDb, dev[q], doc)
      BY <2>3, <1>1 DEF HubRecords, HubUnblocks, HubGivesUp, Attached
    <3> QED
      BY <1>1, <2>1, <3>1 DEF Update
  <2>4. CASE HubDeletes(q)
    BY <2>1, <2>4 DEF HubDeletes, UnblockSession
  <2>5. CASE DriverDies(q)
    BY <2>1, <2>5 DEF DriverDies, UnblockDriver
  <2>6. CASE UNCHANGED hubDb
    BY <2>6
  <2> QED
    BY <2>2, <2>3, <2>4, <2>5, <2>6 DEF RequestStep, NodeAllocates, NodeRefuses,
       DriverStarts, DriverFails, NodeDeletes
<1>4. HubHolds(r)'
  BY <1>1, <1>2, <1>3 DEF HubHolds, Attached
<1>5. Asked(r)'
  BY <1>1, <1>2, RequestStates DEF Asked
<1> QED
  BY <1>2, <1>4, <1>5

(***************************************************************************)
(* The hub keeps its document of a request in step with the request.        *)
(***************************************************************************)
LEMMA OwnKnown ==
  ASSUME HubInv, NEW q \in Requests, RequestStep(q)
  PROVE  HubHolds(q)'
<1>1. TypeOK /\ HubHolds(q) /\ Asked(q) /\ hubDb \in [Devices -> Doc]
  BY DEF HubInv, TypeOK
<1>2. CASE HubForwards(q)
  <2>1. PICK d \in Devices : /\ hubDb[d].state = "free"
                             /\ hubDb' = BlockDevice(hubDb, d)
                             /\ dev' = [dev EXCEPT ![q] = d]
    BY <1>2 DEF HubForwards
  <2>2. at'[q] = "forwarded" /\ dev'[q] = d
    BY <1>1, <1>2, <2>1 DEF HubForwards, Move, TypeOK
  <2>3. hubDb[d].session = None
    BY <2>1 DEF HubInv, NoSession
  <2>4. hubDb'[d] = [state |-> "busy", session |-> None]
    BY <1>1, <2>1, <2>3 DEF BlockDevice, Doc
  <2> QED
    BY <2>2, <2>4 DEF HubHolds
<1>3. CASE HubRecords(q)
  <2>1. /\ at'[q] = "active" /\ dev' = dev /\ q \in heard'
        /\ hubDb' = Update(hubDb, dev[q], InSession(q))
        /\ dev[q] \in Devices /\ hubDb[dev[q]].state # "none"
    BY <1>1, <1>3 DEF HubRecords, Move, TypeOK, Asked
  <2>2. hubDb'[dev[q]] = InSession(q)
    BY <1>1, <2>1 DEF Update
  <2> QED
    BY <2>1, <2>2 DEF HubHolds, InSession
<1>4. CASE NodeAllocates(q) \/ NodeRefuses(q) \/ DriverStarts(q) \/ DriverFails(q)
  <2>1. /\ Attached(q)' <=> Attached(q)
        /\ at[q] # "active" /\ at'[q] # "active"
        /\ UNCHANGED <<hubDb, dev>>
    BY <1>1, <1>4 DEF NodeAllocates, NodeRefuses, DriverStarts, DriverFails, Move,
       TypeOK, Attached
  <2> QED
    BY <1>1, <2>1 DEF HubHolds
<1>5. CASE \/ HubUnblocks(q) \/ HubGivesUp(q) \/ HubDeletes(q) \/ NodeDeletes(q)
           \/ DriverDies(q)
  <2>1. ~Attached(q)' /\ at'[q] # "active"
    BY <1>1, <1>5 DEF HubUnblocks, HubGivesUp, HubDeletes, NodeDeletes, DriverDies,
       Move, TypeOK, Attached
  <2> QED
    BY <2>1 DEF HubHolds
<1> QED
  BY <1>2, <1>3, <1>4, <1>5 DEF RequestStep

(***************************************************************************)
(* A request has a document at the hub from its forwarding, and its node    *)
(* lends it a device of the same host.                                      *)
(***************************************************************************)
LEMMA OwnAsked ==
  ASSUME HubInv, NEW q \in Requests, RequestStep(q)
  PROVE  Asked(q)'
<1>1. TypeOK /\ Asked(q)
  BY DEF HubInv
<1>2. CASE HubForwards(q)
  <2>1. PICK d \in Devices : /\ hubDb[d].state = "free"
                             /\ dev' = [dev EXCEPT ![q] = d]
    BY <1>2 DEF HubForwards
  <2>2. at'[q] = "forwarded" /\ dev'[q] = d
    BY <1>1, <1>2, <2>1 DEF HubForwards, Move, TypeOK
  <2> QED
    BY <2>1, <2>2, RequestStates DEF Asked
<1>3. CASE NodeAllocates(q)
  <2>1. PICK d \in Eligible(q) : on' = [on EXCEPT ![q] = d]
    BY <1>3 DEF NodeAllocates
  <2>2. at[q] = "forwarded" /\ dev' = dev /\ hubDb' = hubDb /\ on'[q] = d
    BY <1>1, <1>3, <2>1 DEF NodeAllocates, TypeOK
  <2> QED
    BY <1>1, <2>2, EligibleDevice DEF Asked
<1>4. CASE ~HubForwards(q) /\ ~NodeAllocates(q)
  <2>1. /\ at[q] # "new" /\ dev' = dev /\ on' = on
        /\ at'[q] = "starting" => at[q] = "starting"
    BY <1>1, <1>4 DEF RequestStep, NodeRefuses, DriverStarts, DriverFails,
       HubRecords, HubUnblocks, HubGivesUp, HubDeletes, NodeDeletes, DriverDies,
       Move, TypeOK
  <2> QED
    BY <1>1, <2>1, RequestStates DEF Asked
<1> QED
  BY <1>2, <1>3, <1>4

(***************************************************************************)
(* A session comes to a node's document only where the hub has one too.     *)
(***************************************************************************)
LEMMA RequestNoSession ==
  ASSUME HubInv, NEW q \in Requests, RequestStep(q), NEW d \in Devices
  PROVE  NoSession(d)'
<1>1. /\ TypeOK /\ Asked(q) /\ NoSession(d) /\ nodeDb \in [Devices -> Doc]
  BY DEF HubInv, TypeOK
<1>2. list' = list
  BY DEF RequestStep, HubForwards, NodeAllocates, NodeRefuses,
     DriverStarts, DriverFails, HubRecords, HubUnblocks, HubGivesUp, HubDeletes,
     NodeDeletes, DriverDies, registryVars
<1>3. ASSUME hubDb[d].state = "none"
      PROVE  nodeDb'[d].session = None
  <2>1. nodeDb[d].session = None
    BY <1>1, <1>3 DEF NoSession
  <2>2. CASE NodeAllocates(q) \/ NodeRefuses(q)
    <3>1. nodeDb' = nodeDb \/ \E e \in Eligible(q) : nodeDb' = BlockDevice(nodeDb, e)
      BY <2>2 DEF NodeAllocates, NodeRefuses
    <3> QED
      BY <1>1, <2>1, <3>1 DEF BlockDevice, Doc
  <2>3. CASE DriverStarts(q)
    <3>1. /\ on[q] \in Devices /\ HostOf[on[q]] = HostOf[dev[q]]
          /\ dev[q] \in Devices /\ hubDb[dev[q]].state # "none"
      BY <1>1, <2>3 DEF DriverStarts, Asked
    <3>2. on[q] # d
      BY <1>3, <3>1 DEF HubInv, SameHost
    <3> QED
      BY <1>1, <2>1, <2>3, <3>2 DEF DriverStarts, Update
  <2>4. CASE DriverFails(q) \/ NodeDeletes(q)
    BY <1>1, <2>1, <2>4 DEF DriverFails, NodeDeletes, Update, UnblockSession, Free
  <2>5. CASE UNCHANGED nodeDb
    BY <2>1, <2>5
  <2> QED
    BY <2>2, <2>3, <2>4, <2>5 DEF RequestStep, HubForwards,
       HubRecords, HubUnblocks, HubGivesUp, HubDeletes, DriverDies
<1> QED
  BY <1>1, <1>2, <1>3, RequestStates DEF NoSession

(***************************************************************************)
(* Only HubForwards makes the hub deal with a request, and it finds the     *)
(* document of the device free.                                             *)
(***************************************************************************)
LEMMA RequestKnown ==
  ASSUME HubInv, NEW q \in Requests, RequestStep(q)
  PROVE  HubInv'
<1>1. TypeOK'
  BY RequestTypes DEF HubInv
<1>2. /\ \A r \in Requests : HubHolds(r)' /\ Asked(r)'
      /\ \A d \in Devices : NoSession(d)'
  BY OthersKnown, OwnKnown, OwnAsked, RequestNoSession
<1>3. \A r \in Requests : r # q => Attached(r)' = Attached(r) /\ dev'[r] = dev[r]
  BY OthersKnown DEF Attached
<1>4. ASSUME NEW r \in Requests, r # q, Attached(r), Attached(q)'
      PROVE  dev'[q] # dev[r]
  <2>1. TypeOK /\ HubHolds(r)
    BY DEF HubInv
  <2>2. CASE HubForwards(q)
    BY <1>4, <2>1, <2>2 DEF HubForwards, HubHolds, TypeOK
  <2>3. CASE ~HubForwards(q)
    <3>1. Attached(q) /\ dev'[q] = dev[q]
      BY <1>4, <2>1, <2>3 DEF RequestStep, NodeAllocates, NodeRefuses,
         DriverStarts, DriverFails, HubRecords, HubUnblocks, HubGivesUp,
         HubDeletes, NodeDeletes, DriverDies, Move, Attached, TypeOK
    <3> QED
      BY <1>4, <3>1 DEF HubInv, AttachedApart
  <2> QED
    BY <2>2, <2>3
<1>5. AttachedApart'
  <2> SUFFICES ASSUME NEW r \in Requests, NEW s \in Requests,
                      Attached(r)', Attached(s)', dev'[r] = dev'[s], r # s
               PROVE  FALSE
    BY DEF AttachedApart
  <2>1. CASE r = q
    BY <2>1, <1>3, <1>4
  <2>2. CASE s = q
    BY <2>2, <1>3, <1>4
  <2>3. CASE r # q /\ s # q
    BY <2>3, <1>3 DEF HubInv, AttachedApart
  <2> QED
    BY <2>1, <2>2, <2>3
<1>6. SameHost'
  BY RequestStates DEF HubInv, SameHost
<1>7. NoneStale'
  <2>1. UNCHANGED registryVars
    BY DEF RequestStep, HubForwards, NodeAllocates, NodeRefuses,
       DriverStarts, DriverFails, HubRecords, HubUnblocks, HubGivesUp, HubDeletes,
       NodeDeletes, DriverDies
  <2> QED
    BY <2>1, RequestStates DEF HubInv, NoneStale, registryVars
<1> QED
  BY <1>1, <1>2, <1>5, <1>6, <1>7 DEF HubInv

(***************************************************************************)
(* The hub's job frees the document of no request but the one it finds      *)
(* idle; the job of a node frees none of the hub's.                         *)
(***************************************************************************)
LEMMA ReleaseKnown ==
  ASSUME HubInv, NEW d \in Devices, ReleaseStep(d)
  PROVE  HubInv'
<1>1. /\ TypeOK /\ TypeOK'
      /\ hubDb \in [Devices -> Doc] /\ nodeDb \in [Devices -> Doc]
  BY ReleaseTypes DEF HubInv, TypeOK
<1>2. UNCHANGED <<dev, on, heard, registryVars>>
  BY DEF ReleaseStep, HubReleasesIdle, NodeReleasesIdle, requestVars
<1>3. ASSUME NEW e \in Devices
      PROVE  /\ hubDb'[e].state = "none" <=> hubDb[e].state = "none"
             /\ hubDb'[e].state # "busy" => hubDb'[e].session = None
             /\ nodeDb'[e].session \in {nodeDb[e].session, None}
  <2>1. hubDb[e].state # "busy" => hubDb[e].session = None
    BY DEF HubInv, NoSession
  <2> QED
    BY <1>1, <2>1 DEF ReleaseStep, HubReleasesIdle, NodeReleasesIdle, Candidate,
       Update, Free
<1>4. \A e \in Devices : NoSession(e)'
  BY <1>2, <1>3 DEF HubInv, NoSession, registryVars
<1>5. SameHost' /\ NoneStale'
  BY <1>2, <1>3 DEF HubInv, SameHost, NoneStale, registryVars
<1>6. \A q \in Requests : \/ at'[q] = at[q]
                          \/ at[q] = "active" /\ at'[q] = "idle"
  BY <1>1 DEF ReleaseStep, HubReleasesIdle, NodeReleasesIdle, requestVars, TypeOK
<1>7. \A q \in Requests : Asked(q)'
  BY <1>2, <1>3, <1>6 DEF HubInv, Asked
<1>8. \A q \in Requests : Attached(q)' => Attached(q) /\ at'[q] = at[q]
  BY <1>2, <1>6 DEF Attached
<1>9. AttachedApart'
  BY <1>2, <1>8 DEF HubInv, AttachedApart
<1>10. ASSUME NEW q \in Requests, Attached(q)'
       PROVE  hubDb'[dev[q]] = hubDb[dev[q]]
  <2>1. /\ Attached(q) /\ at'[q] = at[q]
        /\ dev[q] \in Devices
        /\ hubDb[dev[q]] =
              [state |-> "busy", session |-> IF at[q] = "active" THEN q ELSE None]
    BY <1>8, <1>10 DEF HubInv, HubHolds, Asked, Attached
  <2>2. CASE HubReleasesIdle(d)
    <3>1. d # dev[q]
      <4>1. ASSUME d = dev[q]
            PROVE  at'[q] # at[q]
        <5>1. hubDb[d].session # None
          BY <2>2 DEF HubReleasesIdle, Candidate
        <5>2. at[q] = "active" /\ q = hubDb[d].session
          BY <2>1, <4>1, <5>1
        <5> QED
          BY <2>2, <5>2 DEF HubReleasesIdle
      <4> QED
        BY <2>1, <4>1
    <3> QED
      BY <1>1, <2>1, <2>2, <3>1 DEF HubReleasesIdle, Update
  <2>3. CASE NodeReleasesIdle(d)
    BY <2>3 DEF NodeReleasesIdle
  <2> QED
    BY <2>2, <2>3 DEF ReleaseStep
<1>11. \A q \in Requests : HubHolds(q)'
  BY <1>2, <1>6, <1>8, <1>10 DEF HubInv, HubHolds
<1> QED
  BY <1>1, <1>4, <1>5, <1>7, <1>9, <1>11 DEF HubInv

(***************************************************************************)
(* Jobs and starts: the list of a node only adds documents, and those have  *)
(* no session; the hub finds no document of a node that is down.            *)
(***************************************************************************)
LEMMA ListKnown ==
  ASSUME HubInv, NEW n \in Nodes, JobStep(n)
  PROVE  HubInv'
<1>1. /\ TypeOK /\ TypeOK' /\ NoneStale /\ SameHost
      /\ hubDb \in [Devices -> Doc] /\ nodeDb \in [Devices -> Doc]
      /\ \A d \in Devices : NoSession(d)
  BY RegistryTypes DEF HubInv, TypeOK
<1>2. UNCHANGED <<at, dev, on, heard, up, seen, dead>>
  BY DEF JobStep, NodeProbesHub, NodeForgetsDevices, NodeLists, NodePosts,
     NodePostFails, requestVars
<1>3. \/ hubDb' = hubDb
      \/ /\ hubDb' = AddNewDevices(hubDb, HostedBy(n), list)
         /\ job[n] = "posting"
  BY DEF JobStep, NodeProbesHub, NodeForgetsDevices, NodeLists, NodePosts,
     NodePostFails
<1>4. ASSUME NEW d \in Devices
      PROVE  /\ hubDb[d].state # "none" => hubDb'[d] = hubDb[d]
             /\ \/ hubDb'[d] = hubDb[d]
                \/ HostOf[d] = n /\ hubDb'[d] = [state |-> "free", session |-> None]
  <2>1. hubDb[d].state = "none" => list[d] = None
    BY <1>1 DEF NoSession
  <2> QED
    BY <1>1, <1>3, <2>1 DEF AddNewDevices, HostedBy
<1>5. n \in up /\ \A m \in Nodes : m # n => job'[m] = job[m]
  BY <1>1 DEF JobStep, NodeProbesHub, NodeForgetsDevices, NodeLists, NodePosts,
     NodePostFails, TypeOK, NoneStale
<1>6. NoneStale'
  BY <1>1, <1>2, <1>4, <1>5 DEF NoneStale
<1>7. SameHost'
  <2>1. CASE hubDb' = hubDb
    BY <1>1, <2>1 DEF SameHost
  <2>2. CASE hubDb' = AddNewDevices(hubDb, HostedBy(n), list)
    <3>1. \A d \in Devices : HostOf[d] = n => hubDb'[d].state # "none"
      BY <1>1, <2>2 DEF AddNewDevices, HostedBy
    <3>2. \A d \in Devices : HostOf[d] # n => hubDb'[d] = hubDb[d]
      BY <1>4
    <3> QED
      BY <1>1, <3>1, <3>2 DEF SameHost
  <2> QED
    BY <1>3, <2>1, <2>2
<1>8. ASSUME NEW d \in Devices
      PROVE  NoSession(d)'
  <2>1. /\ list'[d] \in {list[d], nodeDb[d].session, None}
        /\ nodeDb'[d].session \in {nodeDb[d].session, None}
    BY <1>1 DEF JobStep, NodeProbesHub, NodeForgetsDevices, NodeLists, NodePosts,
       NodePostFails, Listed, Unlisted, AddNewDevices, RemoveDevices, HostedBy,
       Missing, TypeOK
  <2> QED
    BY <1>1, <1>4, <2>1 DEF NoSession
<1>9. \A q \in Requests : Asked(q)'
  BY <1>2, <1>4 DEF HubInv, Asked
<1>10. \A q \in Requests : HubHolds(q)'
  BY <1>2, <1>4 DEF HubInv, HubHolds, Attached, Asked
<1>11. AttachedApart'
  BY <1>2 DEF HubInv, AttachedApart, Attached
<1> QED
  BY <1>1, <1>6, <1>7, <1>8, <1>9, <1>10, <1>11 DEF HubInv

LEMMA RegistryKnown ==
  ASSUME {"restart", "crash", "slow"} \cap Environment = {}, HubInv,
         \/ \E n \in Nodes : JobStep(n) \/ NodeStarts(n) \/ NodeCrashes(n)
         \/ StaleStep
         \/ HubRestarts
  PROVE  HubInv'
<1>1. TypeOK /\ TypeOK' /\ NoneStale /\ hubDb \in [Devices -> Doc]
  BY RegistryTypes DEF HubInv, TypeOK
<1>2. ASSUME UNCHANGED <<at, dev, on, heard, list, hubDb, nodeDb>>, NoneStale'
      PROVE  HubInv'
  <2>1. \A q \in Requests : HubHolds(q)' /\ Asked(q)'
    BY <1>2 DEF HubInv, HubHolds, Attached, Asked
  <2>2. \A d \in Devices : NoSession(d)'
    BY <1>2 DEF HubInv, NoSession
  <2>3. AttachedApart' /\ SameHost'
    BY <1>2 DEF HubInv, AttachedApart, Attached, SameHost
  <2> QED
    BY <1>1, <1>2, <2>1, <2>2, <2>3 DEF HubInv
<1>3. ASSUME NEW n \in Nodes, NodeStarts(n)
      PROVE  HubInv'
  <2>1. NoneStale'
    BY <1>1, <1>3 DEF NodeStarts, NoneStale, TypeOK
  <2> QED
    BY <1>2, <1>3, <2>1 DEF NodeStarts, requestVars
<1>4. (\A n \in Nodes : ~NodeCrashes(n)) /\ ~HubRestarts
  BY DEF NodeCrashes, HubRestarts
<1>5. CASE StaleStep
  <2>1. UNCHANGED <<up, requestVars, job, list, nodeDb>>
    BY <1>5 DEF StaleStep, HubProbesNodes, HubFindsDead, HubRemovesStale
  <2>2. hubDb' = hubDb
    <3>1. CASE HubRemovesStale
      <4>1. {d \in seen : HostOf[d] \in dead} = {}
        BY <1>1 DEF NoneStale
      <4> QED
        BY <1>1, <3>1, <4>1 DEF HubRemovesStale, RemoveDevices
    <3> QED
      BY <1>5, <3>1 DEF StaleStep, HubProbesNodes, HubFindsDead
  <2>3. /\ \A d \in seen' : HostOf[d] \in up /\ HostOf[d] \notin dead'
        /\ seen' = {} => dead' = {}
    <3>1. CASE HubProbesNodes
      BY <1>1, <3>1 DEF HubProbesNodes, NoneStale
    <3>2. CASE HubFindsDead
      BY <1>1, <3>2 DEF HubFindsDead, NoneStale
    <3>3. CASE HubRemovesStale
      BY <3>3 DEF HubRemovesStale
    <3> QED
      BY <1>5, <3>1, <3>2, <3>3 DEF StaleStep
  <2>4. NoneStale'
    BY <1>1, <2>1, <2>2, <2>3 DEF NoneStale
  <2> QED
    BY <1>2, <2>1, <2>2, <2>4 DEF requestVars
<1> QED
  BY <1>3, <1>4, <1>5, ListKnown

(***************************************************************************)
(* As long as the hub does not restart and nodes neither crash nor answer   *)
(* too late, the hub's document of a device names the session it has handed *)
(* out until the hub's own job finds it idle, however the hub gives up or   *)
(* is not reached by its nodes, and whatever the nodes' jobs release.       *)
(***************************************************************************)
THEOREM HandedOutIsKnown ==
  ASSUME {"restart", "crash", "slow"} \cap Environment = {}
  PROVE  Spec => []HubKnowsSession
<1>1. Init => HubInv
  BY RegistryInit DEF Init, HubInv, HubHolds, Attached, AttachedApart, Asked,
     NoSession, SameHost, NoneStale, Missing
<1>2. HubInv /\ [Next]_vars => HubInv'
  <2> SUFFICES ASSUME HubInv, [Next]_vars
               PROVE  HubInv'
    OBVIOUS
  <2>1. CASE UNCHANGED vars
    BY <2>1 DEF vars, HubInv, TypeOK, HubHolds, Attached, AttachedApart, Asked,
       NoSession, SameHost, NoneStale
  <2>2. CASE \E q \in Requests : RequestStep(q)
    BY <2>2, RequestKnown
  <2>3. CASE \E d \in Devices : ReleaseStep(d)
    BY <2>3, ReleaseKnown
  <2> QED
    BY <2>1, <2>2, <2>3, RegistryKnown DEF Next
<1>3. HubInv => HubKnowsSession
  BY DEF HubInv, HubHolds, Attached, HubKnowsSession, InSession
<1> QED
  BY <1>1, <1>2, <1>3, PTL DEF Spec

=============================================================================
