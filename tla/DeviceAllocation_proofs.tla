---------------------- MODULE DeviceAllocation_proofs ----------------------
(***************************************************************************)
(* Theorems about DeviceAllocation for every set of devices and requests,   *)
(* every assignment of locks and filters and every limit.                   *)
(***************************************************************************)
EXTENDS DeviceAllocation, FiniteSetTheorems, TLAPS

-----------------------------------------------------------------------------
(* Type correctness *)

\* The database operations return databases.
LEMMA UpdatesTyped ==
    ASSUME NEW db \in Database, NEW d \in Devices
    PROVE  /\ BlockDevice(db, d) \in Database
           /\ UnblockDevice(db, d) \in Database
           /\ UserBlockDevice(db, d) \in Database
           /\ UserUnblockDevice(db, d) \in Database
           /\ RemoveDevice(db, d) \in Database
           /\ AddNewDevice(db, d) \in Database
<1> USE DEF Database, Doc, CommandAge
<1>1. BlockDevice(db, d) \in Database  BY DEF BlockDevice
<1>2. UnblockDevice(db, d) \in Database  BY DEF UnblockDevice, Cleared
<1>3. UserBlockDevice(db, d) \in Database  BY DEF UserBlockDevice
<1>4. UserUnblockDevice(db, d) \in Database  BY DEF UserUnblockDevice
<1>5. RemoveDevice(db, d) \in Database  BY DEF RemoveDevice, AbsentDoc, NewDoc
<1>6. AddNewDevice(db, d) \in Database  BY DEF AddNewDevice, NewDoc
<1>7. QED  BY <1>1, <1>2, <1>3, <1>4, <1>5, <1>6

\* Recording a session keeps the database a database.
LEMMA AssignTyped ==
    ASSUME NEW db \in Database, NEW d \in Devices, NEW r \in Requests
    PROVE  AssignSession(db, d, r) \in Database
  BY DEF AssignSession, Database, Doc, CommandAge

\* So does stamping the devices of a session.
LEMMA StampTyped ==
    ASSUME NEW db \in Database, NEW r \in Requests
    PROVE  UpdateCmdExecutedTime(db, r) \in Database
  BY DEF UpdateCmdExecutedTime, Database, Doc, CommandAge

\* A request that prepares, starts or gives back a device has one in hand.
HoldsDevice ==
    \A r \in Requests :
        pc[r] \in {"configuring", "starting", "aborting"} => held[r] \in Devices

TypeInv == TypeOK /\ HoldsDevice

\* The end of a release moves at most one request, and only out of a release.
LEMMA ResumeTyped ==
    ASSUME TypeOK, NEW u \in Unblock, ResumeAfter(u)
    PROVE  /\ pc' \in [Requests -> Control]
           /\ proxied' \subseteq Requests
           /\ \A r \in Requests :
                 pc'[r] # pc[r] => pc'[r] \in {"failed", "closed", "quitting"}
<1>1. CASE LastOf(u)
  <2>1. u.by \in Requests  BY <1>1 DEF LastOf, Unblock
  <2>2. AfterUnblock(u.by) \in {"failed", "closed", "quitting"}
    BY DEF AfterUnblock
  <2>3. QED  BY <1>1, <2>1, <2>2 DEF ResumeAfter, TypeOK, Control
<1>2. CASE ~LastOf(u)  BY <1>2 DEF ResumeAfter, TypeOK
<1>3. QED  BY <1>1, <1>2

\* A release that begins is added with its device and its initiator.
LEMMA BeginTyped ==
    ASSUME TypeOK, NEW S \in SUBSET Devices, NEW by \in Requests \cup {None},
           BeginUnblock(S, by)
    PROVE  unblocks' \subseteq Unblock
  BY DEF BeginUnblock, TypeOK, Unblock

\* The steps of a request keep the types.
LEMMA RequestStepTyped ==
    ASSUME TypeInv, NEW r \in Requests, RequestStep(r)
    PROVE  TypeInv'
<1> USE AllocationAssumption DEF TypeInv, HoldsDevice
<1>1. CASE EnqueueRequest(r)
  <2>1. Append(queue[LockOf[r]], r) \in Seq(Requests)  BY DEF TypeOK
  <2>2. QED  BY <1>1, <2>1 DEF EnqueueRequest, TypeOK, Control
<1>2. CASE AcquireLock(r)
  <2>1. Tail(queue[LockOf[r]]) \in Seq(Requests)
    BY <1>2 DEF AcquireLock, TypeOK
  <2>2. QED  BY <1>2, <2>1 DEF AcquireLock, TypeOK, Control
<1>3. CASE AllocateDevice(r)
  <2>1. PICK d \in Obtainable(doc, Wanted[r], r \in ByUdid) :
           doc' = BlockDevice(doc, d) /\ held' = [held EXCEPT ![r] = d]
    BY <1>3 DEF AllocateDevice
  <2>2. d \in Devices  BY DEF Obtainable
  <2>3. doc' \in Database  BY <2>1, <2>2, UpdatesTyped DEF TypeOK
  <2>4. QED  BY <1>3, <2>1, <2>2, <2>3 DEF AllocateDevice, TypeOK, Control
<1>4. CASE GiveUp(r)
  BY <1>4 DEF GiveUp, FailInsideLock, ReleaseLock, TypeOK, Control
<1>5. CASE ConfigureDevice(r)
  BY <1>5 DEF ConfigureDevice, ReleaseLock, TypeOK, Control
<1>6. CASE ConfigureFails(r)
  BY <1>6 DEF ConfigureFails, FailInsideLock, ReleaseLock, TypeOK, Control
<1>7. CASE SessionStarts(r)
  <2>1. held[r] \in Devices  BY <1>7 DEF SessionStarts
  <2>2. doc' \in Database  BY <1>7, <2>1, AssignTyped DEF SessionStarts, TypeOK
  <2>3. QED  BY <1>7, <2>2 DEF SessionStarts, TypeOK, Control
<1>8. CASE SessionFails(r)
  <2>1. held[r] \in Devices  BY <1>8 DEF SessionFails
  <2>2. unblocks' \subseteq Unblock
    BY <1>8, <2>1, BeginTyped DEF SessionFails, TypeOK
  <2>3. QED  BY <1>8, <2>1, <2>2 DEF SessionFails, TypeOK, Control
<1>9. CASE StartThrows(r)
  BY <1>9 DEF StartThrows, TypeOK, Control
<1>10. CASE Command(r)
  BY <1>10, StampTyped DEF Command, TypeOK
<1>11. CASE DeleteSession(r)
  <2>1. MatchingSession(doc, r) \in SUBSET Devices  BY DEF MatchingSession
  <2>2. unblocks' \subseteq Unblock
    BY <1>11, <2>1, BeginTyped DEF DeleteSession
  <2>3. QED  BY <1>11, <2>2 DEF DeleteSession, TypeOK, Control
<1>12. CASE QuitDriver(r)
  BY <1>12 DEF QuitDriver, TypeOK, Control
<1>13. CASE ProxyDelete(r)
  <2>1. MatchingSession(doc, r) \in SUBSET Devices  BY DEF MatchingSession
  <2>2. unblocks' \subseteq Unblock
    BY <1>13, <2>1, BeginTyped DEF ProxyDelete
  <2>3. doc' \in Database  BY <1>13, StampTyped DEF ProxyDelete, TypeOK
  <2>4. QED  BY <1>13, <2>2, <2>3 DEF ProxyDelete, TypeOK, Control
<1>14. CASE NodeReportsShutdown(r)
  <2>1. doc' \in Database
    BY <1>14, UpdatesTyped DEF NodeReportsShutdown, MatchingSession, TypeOK
  <2>2. QED  BY <1>14, <2>1 DEF NodeReportsShutdown, TypeOK
<1>15. CASE ClientDisconnects(r)
  BY <1>15 DEF ClientDisconnects, TypeOK
<1>16. CASE CleanPendingSession(r)
  BY <1>16 DEF CleanPendingSession, TypeOK
<1>17. QED
  BY <1>1, <1>2, <1>3, <1>4, <1>5, <1>6, <1>7, <1>8, <1>9, <1>10, <1>11, <1>12,
     <1>13, <1>14, <1>15, <1>16 DEF RequestStep

\* The clock, the dashboard and the trackers keep the types.
LEMMA DeviceStepTyped ==
    ASSUME TypeInv, NEW d \in Devices, DeviceStep(d)
    PROVE  TypeInv'
<1> USE DEF TypeInv, HoldsDevice, TypeOK
<1>1. CASE CommandTimeout(d)
  BY <1>1 DEF CommandTimeout, Database, Doc, CommandAge
<1>2. CASE UserBlocks(d)
  BY <1>2, UpdatesTyped DEF UserBlocks
<1>3. CASE UserUnblocks(d)
  BY <1>3, UpdatesTyped DEF UserUnblocks
<1>4. CASE DeviceLost(d)
  BY <1>4, UpdatesTyped DEF DeviceLost
<1>5. CASE DeviceFound(d)
  BY <1>5, UpdatesTyped DEF DeviceFound
<1>6. QED  BY <1>1, <1>2, <1>3, <1>4, <1>5 DEF DeviceStep

\* The end of a release keeps the types.
LEMMA UnblockStepTyped ==
    ASSUME TypeInv, NEW u \in Unblock, UnblockStep(u)
    PROVE  TypeInv'
<1>1. TypeOK /\ HoldsDevice /\ ResumeAfter(u) /\ u.dev \in Devices
  BY DEF UnblockStep, FinishUnblock, UnblockFails, TypeInv, Unblock
<1>2. doc' \in Database
  BY <1>1, UpdatesTyped DEF UnblockStep, FinishUnblock, UnblockFails, TypeOK
<1>3. TypeOK'
  BY <1>1, <1>2, ResumeTyped
  DEF UnblockStep, FinishUnblock, UnblockFails, TypeOK
<1>4. HoldsDevice'
  BY <1>1, ResumeTyped
  DEF UnblockStep, FinishUnblock, UnblockFails, HoldsDevice
<1>5. QED  BY <1>3, <1>4 DEF TypeInv

\* The release job keeps the types.
LEMMA ReleaseStepTyped ==
    ASSUME TypeInv, ReleaseBlockedDevices
    PROVE  TypeInv'
<1>1. {d \in IdleDevices(doc) : MayUnblock(d)} \in SUBSET Devices
  BY DEF IdleDevices, UnblockCandidates, BusyDevices
<1>2. unblocks' \subseteq Unblock
  BY <1>1, BeginTyped DEF ReleaseBlockedDevices, TypeInv
<1>3. QED  BY <1>2 DEF ReleaseBlockedDevices, TypeInv, HoldsDevice, TypeOK

\* The server starts with typed state.
LEMMA InitTyped == Init => TypeInv
<1>1. NewDoc \in Doc  BY DEF NewDoc, Doc, CommandAge
<1>2. <<>> \in Seq(Requests)  OBVIOUS
<1>3. QED  BY <1>1, <1>2 DEF Init, TypeInv, HoldsDevice, TypeOK, Database, Control

(***************************************************************************)
(* In every environment the fields of the documents, the states of the       *)
(* requests and the queues of the locks keep their types, and createSession  *)
(* never goes on without the device it got from allocateDeviceForSession.    *)
(***************************************************************************)
THEOREM TypeCorrect == Spec => [](TypeOK /\ HoldsDevice)
<1>1. Init => TypeInv  BY InitTyped
<1>2. TypeInv /\ [Next]_vars => TypeInv'
  <2> SUFFICES ASSUME TypeInv, [Next]_vars PROVE TypeInv'
    OBVIOUS
  <2>1. CASE UNCHANGED vars
    BY <2>1 DEF vars, TypeInv, HoldsDevice, TypeOK
  <2>2. QED
    BY <2>1, RequestStepTyped, DeviceStepTyped, UnblockStepTyped,
       ReleaseStepTyped DEF Next
<1>3. TypeInv => TypeOK /\ HoldsDevice  BY DEF TypeInv
<1>4. QED  BY <1>1, <1>2, <1>3, PTL DEF Spec

-----------------------------------------------------------------------------
(***************************************************************************)
(* The inductive invariant behind ExclusiveClaim and SessionCap.            *)
(*                                                                          *)
(* ExclusiveClaim alone is not inductive: it does not say that a claimed    *)
(* device is busy (so that no other request obtains it), nor that a release *)
(* that waits for its file write belongs to whoever has the device now (so  *)
(* that it does not free a device that was given away again meanwhile).     *)
(***************************************************************************)
Setup == {"configuring", "starting", "aborting"}

InSession == {"active", "releasing", "quitting", "closed"}

\* The device of a request that sets a session up: blocked and not yet used.
SetupDevice ==
    \A r \in Requests :
        pc[r] \in Setup => /\ doc[held[r]].busy
                           /\ doc[held[r]].session = None
                           /\ doc[held[r]].lastCmd = "none"

SetupApart ==
    \A r, s \in Requests :
        pc[r] \in Setup /\ pc[s] \in Setup /\ held[r] = held[s] => r = s

\* The device that records a session is the one its request was given.
SessionDevice ==
    \A d \in Devices : \A r \in Requests :
        doc[d].session = r => doc[d].busy /\ pc[r] \in InSession /\ held[r] = d

\* The release job sees only devices with a session.
StampedDevice ==
    \A d \in Devices :
        doc[d].busy /\ doc[d].lastCmd # "none" => doc[d].session # None

\* A waiting release belongs to the request that has the device, or is the
\* release job's for a device with a session.
UnblockOwner ==
    \A u \in unblocks :
        /\ doc[u.dev].busy
        /\ \/ u.by = None /\ doc[u.dev].session # None
           \/ u.by # None /\ pc[u.by] = "aborting" /\ held[u.by] = u.dev
           \/ u.by # None /\ pc[u.by] = "releasing" /\ doc[u.dev].session = u.by

UnblockApart == \A u, v \in unblocks : u.dev = v.dev => u = v

AllStored == \A d \in Devices : doc[d].stored

NobodyBlocks == "block" \notin Environment => \A d \in Devices : ~doc[d].userBlocked

IInv ==
    /\ TypeInv
    /\ SetupDevice
    /\ SetupApart
    /\ SessionDevice
    /\ StampedDevice
    /\ UnblockOwner
    /\ UnblockApart
    /\ AllStored
    /\ NobodyBlocks

\* What IInv says beyond types; the proofs below split it into its parts.
Strong ==
    /\ SetupDevice
    /\ SetupApart
    /\ SessionDevice
    /\ StampedDevice
    /\ UnblockOwner
    /\ UnblockApart
    /\ AllStored
    /\ NobodyBlocks

\* The poll of allocateDeviceForSession finds no busy device: the override for
\* blocked devices asked for by udid does not apply in a tame environment.
LEMMA ObtainableIsFree ==
    ASSUME Tame, TypeOK, NobodyBlocks, NEW r \in Requests,
           NEW d \in Obtainable(doc, Wanted[r], r \in ByUdid)
    PROVE  d \in Devices /\ ~doc[d].busy
  BY AllocationAssumption DEF Tame, TypeOK, NobodyBlocks, Obtainable, IsFree

\* Steps that touch neither the database, nor the releases, nor what the
\* invariant says of a request.
LEMMA QuietSteps ==
    ASSUME IInv, NEW r \in Requests, UNCHANGED <<doc, held, unblocks>>,
           \/ UNCHANGED pc
           \/ /\ pc[r] \notin {"aborting", "releasing"}
              /\ \E c \in Control :
                    /\ pc' = [pc EXCEPT ![r] = c]
                    /\ c \in Setup => c # "aborting" /\ pc[r] \in Setup
                    /\ pc[r] \in InSession => c \in InSession
    PROVE  Strong'
<1>1. ASSUME NEW q \in Requests
      PROVE  /\ pc'[q] \in Setup => pc[q] \in Setup
             /\ pc[q] \in InSession => pc'[q] \in InSession
             /\ pc[q] \in {"aborting", "releasing"} => pc'[q] = pc[q]
  BY DEF IInv, TypeInv, TypeOK, Setup, InSession
<1>2. SetupDevice' /\ SetupApart'
  BY <1>1 DEF IInv, SetupDevice, SetupApart
<1>3. SessionDevice'
  BY <1>1 DEF IInv, SessionDevice
<1>4. UnblockOwner'
  BY <1>1 DEF IInv, TypeInv, TypeOK, UnblockOwner, Unblock
<1>5. StampedDevice' /\ UnblockApart' /\ AllStored' /\ NobodyBlocks'
  BY DEF IInv, StampedDevice, UnblockApart, AllStored, NobodyBlocks
<1>6. QED  BY <1>2, <1>3, <1>4, <1>5 DEF Strong

\* blockDevice takes a device no other request has, and no release waits for.
LEMMA AllocateStrong ==
    ASSUME Tame, IInv, NEW r \in Requests, AllocateDevice(r)
    PROVE  Strong'
<1>1. PICK d \in Obtainable(doc, Wanted[r], r \in ByUdid) :
         doc' = BlockDevice(doc, d) /\ held' = [held EXCEPT ![r] = d]
  BY DEF AllocateDevice
<1>2. d \in Devices /\ ~doc[d].busy
  BY <1>1, ObtainableIsFree DEF IInv, TypeInv
<1>3. doc' = [doc EXCEPT ![d] = [doc[d] EXCEPT !.busy = TRUE, !.lastCmd = "none"]]
  BY <1>1, <1>2 DEF BlockDevice, IInv, AllStored
<1>4. doc[d].session = None
  BY <1>2 DEF IInv, SessionDevice, TypeInv, TypeOK, Database, Doc
<1>5. /\ doc'[d] = [doc[d] EXCEPT !.busy = TRUE, !.lastCmd = "none"]
      /\ \A e \in Devices \ {d} : doc'[e] = doc[e]
  BY <1>2, <1>3 DEF IInv, TypeInv, TypeOK, Database
<1>6. /\ doc'[d].busy /\ doc'[d].lastCmd = "none" /\ doc'[d].session = None
      /\ doc'[d].stored /\ doc'[d].userBlocked = doc[d].userBlocked
  BY <1>2, <1>4, <1>5 DEF IInv, TypeInv, TypeOK, Database, Doc, AllStored
<1>7. /\ pc[r] = "polling" /\ pc' = [pc EXCEPT ![r] = "configuring"]
      /\ held' = [held EXCEPT ![r] = d] /\ unblocks' = unblocks
  BY <1>1 DEF AllocateDevice
<1>8. ASSUME NEW q \in Requests, q # r, pc'[q] \in Setup
      PROVE  /\ pc[q] \in Setup /\ held'[q] = held[q] /\ held[q] \in Devices
             /\ held[q] # d /\ doc'[held[q]] = doc[held[q]]
  <2>1. pc[q] \in Setup /\ held'[q] = held[q]
    BY <1>7, <1>8 DEF IInv, TypeInv, TypeOK
  <2>2. held[q] \in Devices /\ doc[held[q]].busy
    BY <2>1 DEF IInv, TypeInv, HoldsDevice, SetupDevice, Setup
  <2>3. QED  BY <1>2, <1>5, <2>1, <2>2
<1>9. held'[r] = d  BY <1>7 DEF IInv, TypeInv, TypeOK
<1>10. SetupDevice'
  BY <1>6, <1>8, <1>9 DEF IInv, SetupDevice
<1>11. SetupApart'
  BY <1>8, <1>9 DEF IInv, SetupApart
<1>12. SessionDevice'
  <2> SUFFICES ASSUME NEW e \in Devices, NEW q \in Requests, doc'[e].session = q
               PROVE  doc'[e].busy /\ pc'[q] \in InSession /\ held'[q] = e
    BY DEF SessionDevice
  <2>1. e # d /\ doc'[e] = doc[e]
    BY <1>5, <1>6, StoreAssumption
  <2>2. doc[e].busy /\ pc[q] \in InSession /\ held[q] = e
    BY <2>1 DEF IInv, SessionDevice
  <2>3. q # r  BY <1>7, <2>2 DEF InSession
  <2>4. QED  BY <1>7, <2>1, <2>2, <2>3 DEF IInv, TypeInv, TypeOK
<1>13. StampedDevice' /\ AllStored' /\ NobodyBlocks'
  BY <1>2, <1>5, <1>6 DEF IInv, StampedDevice, AllStored, NobodyBlocks
<1>14. UnblockOwner' /\ UnblockApart'
  BY <1>2, <1>5, <1>6, <1>7
  DEF IInv, TypeInv, TypeOK, UnblockOwner, UnblockApart, Unblock
<1>15. QED  BY <1>14, <1>10, <1>11, <1>12, <1>13 DEF Strong

\* Steps that change no more of a document than its command time and the mark
\* of the dashboard.
LEMMA TouchSteps ==
    ASSUME IInv, UNCHANGED <<pc, held, unblocks>>,
           \A d \in Devices :
               /\ doc'[d].stored = doc[d].stored
               /\ doc'[d].busy = doc[d].busy
               /\ doc'[d].session = doc[d].session
               /\ doc[d].busy /\ doc'[d].lastCmd # doc[d].lastCmd =>
                      doc[d].session # None
               /\ "block" \notin Environment =>
                      doc'[d].userBlocked = doc[d].userBlocked
    PROVE  Strong'
<1>1. SetupDevice'
  BY DEF IInv, TypeInv, HoldsDevice, SetupDevice, Setup
<1>2. SetupApart' /\ SessionDevice' /\ StampedDevice' /\ AllStored' /\ NobodyBlocks'
  BY DEF IInv, SetupApart, SessionDevice, StampedDevice, AllStored, NobodyBlocks
<1>3. UnblockOwner' /\ UnblockApart'
  BY DEF IInv, TypeInv, TypeOK, UnblockOwner, UnblockApart, Unblock
<1>4. QED  BY <1>1, <1>2, <1>3 DEF Strong

\* A command changes nothing but the command time of devices in session.
LEMMA StampChanges ==
    ASSUME TypeOK, NEW r \in Requests, doc' = UpdateCmdExecutedTime(doc, r)
    PROVE  \A d \in Devices :
               /\ doc'[d].stored = doc[d].stored
               /\ doc'[d].busy = doc[d].busy
               /\ doc'[d].session = doc[d].session
               /\ doc'[d].lastCmd # doc[d].lastCmd => doc[d].session # None
               /\ doc'[d].userBlocked = doc[d].userBlocked
  BY StoreAssumption
  DEF UpdateCmdExecutedTime, MatchingSession, TypeOK, Database, Doc

\* A command of a session keeps the invariant.
LEMMA CommandStrong ==
    ASSUME IInv, NEW r \in Requests, Command(r)
    PROVE  Strong'
  BY StampChanges, TouchSteps DEF Command, IInv, TypeInv

\* createSession records the session on the device that was blocked for it.
LEMMA SessionStartsStrong ==
    ASSUME IInv, NEW r \in Requests, SessionStarts(r)
    PROVE  Strong'
<1> DEFINE h == held[r]
<1>1. pc[r] = "starting" /\ pc' = [pc EXCEPT ![r] = "active"]
      /\ held' = held /\ unblocks' = unblocks
  BY DEF SessionStarts
<1>2. h \in Devices /\ doc[h].busy /\ doc[h].session = None
  BY <1>1 DEF IInv, TypeInv, HoldsDevice, SetupDevice, Setup
<1>3. /\ doc'[h].busy /\ doc'[h].session = r /\ doc'[h].stored
      /\ doc'[h].userBlocked = doc[h].userBlocked
      /\ \A e \in Devices \ {h} : doc'[e] = doc[e]
  BY <1>2 DEF SessionStarts, AssignSession, IInv, AllStored, TypeInv, TypeOK,
              Database, Doc
<1>4. ASSUME NEW q \in Requests, pc'[q] \in Setup
      PROVE  /\ pc[q] \in Setup /\ held[q] \in Devices /\ held[q] # h
  <2>1. q # r /\ pc[q] \in Setup
    BY <1>1, <1>4 DEF IInv, TypeInv, TypeOK, Setup
  <2>2. held[q] \in Devices
    BY <2>1 DEF IInv, TypeInv, HoldsDevice, Setup
  <2>3. QED  BY <1>1, <2>1, <2>2 DEF IInv, SetupApart, Setup
<1>5. SetupDevice' /\ SetupApart'
  BY <1>1, <1>3, <1>4 DEF IInv, SetupDevice, SetupApart
<1>6. SessionDevice'
  <2> SUFFICES ASSUME NEW e \in Devices, NEW q \in Requests, doc'[e].session = q
               PROVE  doc'[e].busy /\ pc'[q] \in InSession /\ held'[q] = e
    BY DEF SessionDevice
  <2>1. CASE e = h
    BY <1>1, <1>3, <2>1 DEF IInv, TypeInv, TypeOK, InSession
  <2>2. CASE e # h
    BY <1>1, <1>3, <2>2 DEF IInv, TypeInv, TypeOK, SessionDevice, InSession
  <2>3. QED  BY <2>1, <2>2
<1>7. StampedDevice' /\ AllStored' /\ NobodyBlocks'
  BY <1>2, <1>3, StoreAssumption DEF IInv, StampedDevice, AllStored, NobodyBlocks
<1>8. UnblockOwner' /\ UnblockApart'
  <2> SUFFICES ASSUME NEW u \in unblocks
               PROVE  /\ doc'[u.dev].busy
                      /\ \/ u.by = None /\ doc'[u.dev].session # None
                         \/ /\ u.by # None
                            /\ pc'[u.by] = "aborting"
                            /\ held'[u.by] = u.dev
                         \/ /\ u.by # None
                            /\ pc'[u.by] = "releasing"
                            /\ doc'[u.dev].session = u.by
    BY <1>1 DEF UnblockOwner, UnblockApart, IInv
  <2>1. u.dev \in Devices /\ u.by \in Requests \cup {None}
    BY DEF IInv, TypeInv, TypeOK, Unblock
  <2>2. u.dev # h
    BY <1>1, <1>2, StoreAssumption
    DEF IInv, UnblockOwner, SetupApart, Setup, TypeInv, TypeOK, Unblock
  <2>3. QED
    BY <1>1, <1>3, <2>1, <2>2 DEF IInv, TypeInv, TypeOK, UnblockOwner
<1>9. QED  BY <1>5, <1>6, <1>7, <1>8 DEF Strong

\* A session that does not start begins the release of its own device.
LEMMA SessionFailsStrong ==
    ASSUME Tame, IInv, NEW r \in Requests, SessionFails(r)
    PROVE  Strong'
<1> DEFINE h == held[r]
<1>1. pc[r] = "starting" /\ doc' = doc /\ held' = held
  BY DEF SessionFails
<1>2. h \in Devices /\ doc[h].stored /\ doc[h].busy
  BY <1>1 DEF IInv, TypeInv, HoldsDevice, SetupDevice, Setup, AllStored
<1>3. /\ pc' = [pc EXCEPT ![r] = "aborting"]
      /\ unblocks' = unblocks \cup {[dev |-> h, by |-> r]}
      /\ \A u \in unblocks : u.dev # h
  BY <1>2 DEF SessionFails, BeginUnblock, MayUnblock, Tame
<1>4. ASSUME NEW q \in Requests
      PROVE  /\ pc'[q] \in Setup <=> pc[q] \in Setup
             /\ pc[q] \in InSession => pc'[q] \in InSession
             /\ pc[q] \in {"aborting", "releasing"} => pc'[q] = pc[q]
  BY <1>1, <1>3 DEF IInv, TypeInv, TypeOK, Setup, InSession
<1>5. SetupDevice' /\ SetupApart' /\ SessionDevice' /\ StampedDevice'
      /\ AllStored' /\ NobodyBlocks'
  BY <1>1, <1>4 DEF IInv, SetupDevice, SetupApart, SessionDevice, StampedDevice,
                    AllStored, NobodyBlocks
<1>6. UnblockApart'
  BY <1>3 DEF IInv, UnblockApart
<1>7. pc'[r] = "aborting" /\ r # None
  BY <1>3, StoreAssumption DEF IInv, TypeInv, TypeOK
<1>8. UnblockOwner'
  BY <1>1, <1>2, <1>3, <1>4, <1>7 DEF IInv, TypeInv, TypeOK, UnblockOwner, Unblock
<1>9. QED  BY <1>5, <1>6, <1>8 DEF Strong

\* DeleteSession and ProxyDelete: the request lets its device be released.
LEMMA DeleteStrong ==
    ASSUME Tame, IInv, NEW r \in Requests,
           DeleteSession(r) \/ ProxyDelete(r)
    PROVE  Strong'
<1> DEFINE S == MatchingSession(doc, r)
<1>1. /\ pc[r] = "active"
      /\ \A d \in S : MayUnblock(d)
      /\ unblocks' = unblocks \cup {[dev |-> d, by |-> r] : d \in S}
      /\ held' = held
      /\ \E c \in {"quitting", "closed", "releasing"} :
            /\ pc' = [pc EXCEPT ![r] = c]
            /\ S # {} => c = "releasing"
  BY DEF DeleteSession, ProxyDelete, BeginUnblock
<1>2. \A d \in Devices :
         /\ doc'[d].stored = doc[d].stored
         /\ doc'[d].busy = doc[d].busy
         /\ doc'[d].session = doc[d].session
         /\ doc'[d].lastCmd # doc[d].lastCmd => doc[d].session # None
         /\ doc'[d].userBlocked = doc[d].userBlocked
  BY StampChanges DEF DeleteSession, ProxyDelete, IInv, TypeInv
<1>3. ASSUME NEW q \in Requests
      PROVE  /\ pc'[q] \in Setup <=> pc[q] \in Setup
             /\ pc[q] \in InSession => pc'[q] \in InSession
             /\ pc[q] \in {"aborting", "releasing"} => pc'[q] = pc[q]
  BY <1>1 DEF IInv, TypeInv, TypeOK, Setup, InSession
<1>4. SetupDevice' /\ SetupApart'
  BY <1>1, <1>2, <1>3
  DEF IInv, TypeInv, HoldsDevice, SetupDevice, SetupApart, Setup
<1>5. SessionDevice' /\ StampedDevice' /\ AllStored' /\ NobodyBlocks'
  BY <1>1, <1>2, <1>3
  DEF IInv, SessionDevice, StampedDevice, AllStored, NobodyBlocks
<1>6. ASSUME NEW d \in S
      PROVE  /\ d \in Devices /\ doc[d].busy /\ doc[d].session = r
             /\ \A u \in unblocks : u.dev # d
  BY <1>1 DEF MatchingSession, MayUnblock, Tame, IInv, SessionDevice
<1>7. UnblockApart'
  BY <1>1, <1>6 DEF IInv, UnblockApart
<1>8. UnblockOwner'
  <2> SUFFICES ASSUME NEW u \in unblocks'
               PROVE  /\ doc'[u.dev].busy
                      /\ \/ u.by = None /\ doc'[u.dev].session # None
                         \/ /\ u.by # None
                            /\ pc'[u.by] = "aborting"
                            /\ held'[u.by] = u.dev
                         \/ /\ u.by # None
                            /\ pc'[u.by] = "releasing"
                            /\ doc'[u.dev].session = u.by
    BY DEF UnblockOwner
  <2>1. CASE u \in unblocks
    BY <1>1, <1>2, <1>3, <2>1 DEF IInv, TypeInv, TypeOK, Unblock, UnblockOwner
  <2>2. CASE u \notin unblocks
    <3>1. u.dev \in S /\ u.by = r  BY <1>1, <2>2
    <3>2. pc'[r] = "releasing"  BY <1>1, <3>1 DEF IInv, TypeInv, TypeOK
    <3>3. QED  BY <1>2, <1>6, <3>1, <3>2, StoreAssumption
  <2>3. QED  BY <2>1, <2>2
<1>9. QED  BY <1>4, <1>5, <1>7, <1>8 DEF Strong

\* The /unblock call of a node frees a device no release waits for.
LEMMA NodeReportsShutdownStrong ==
    ASSUME Tame, IInv, NEW r \in Requests, NodeReportsShutdown(r)
    PROVE  Strong'
<1>1. PICK d \in MatchingSession(doc, r) :
         MayUnblock(d) /\ doc' = UserUnblockDevice(doc, d)
  BY DEF NodeReportsShutdown
<1>2. d \in Devices /\ doc[d].stored /\ doc[d].session = r
  BY <1>1 DEF MatchingSession
<1>3. \A u \in unblocks : u.dev # d
  BY <1>1 DEF MayUnblock, Tame
<1>4. /\ ~doc'[d].busy /\ doc'[d].session = None /\ doc'[d].stored
      /\ ~doc'[d].userBlocked
      /\ \A e \in Devices \ {d} : doc'[e] = doc[e]
  BY <1>1, <1>2 DEF UserUnblockDevice, IInv, TypeInv, TypeOK, Database, Doc
<1>5. UNCHANGED <<pc, held, unblocks>>  BY DEF NodeReportsShutdown
<1>6. \A q \in Requests : pc[q] \in Setup => held[q] \in Devices \ {d}
  BY <1>2, StoreAssumption
  DEF IInv, TypeInv, HoldsDevice, SetupDevice, Setup
<1>7. SetupDevice' /\ SetupApart'
  BY <1>4, <1>5, <1>6 DEF IInv, SetupDevice, SetupApart
<1>8. SessionDevice' /\ StampedDevice' /\ AllStored' /\ NobodyBlocks'
  BY <1>4, <1>5, StoreAssumption
  DEF IInv, SessionDevice, StampedDevice, AllStored, NobodyBlocks
<1>9. UnblockOwner' /\ UnblockApart'
  BY <1>3, <1>4, <1>5
  DEF IInv, TypeInv, TypeOK, UnblockOwner, UnblockApart, Unblock
<1>10. QED  BY <1>7, <1>8, <1>9 DEF Strong

\* Every step of a request keeps the invariant.
LEMMA RequestStepStrong ==
    ASSUME Tame, IInv, NEW r \in Requests, RequestStep(r)
    PROVE  Strong'
<1>1. CASE EnqueueRequest(r)
  BY <1>1, QuietSteps DEF EnqueueRequest, Control, Setup, InSession
<1>2. CASE AcquireLock(r)
  BY <1>2, QuietSteps DEF AcquireLock, Control, Setup, InSession
<1>3. CASE AllocateDevice(r)  BY <1>3, AllocateStrong
<1>4. CASE GiveUp(r)
  BY <1>4, QuietSteps DEF GiveUp, FailInsideLock, Control, Setup, InSession
<1>5. CASE ConfigureDevice(r)
  BY <1>5, QuietSteps DEF ConfigureDevice, Control, Setup, InSession
<1>6. CASE ConfigureFails(r)
  BY <1>6, QuietSteps DEF ConfigureFails, FailInsideLock, Control, Setup, InSession
<1>7. CASE SessionStarts(r)  BY <1>7, SessionStartsStrong
<1>8. CASE SessionFails(r)  BY <1>8, SessionFailsStrong
<1>9. CASE StartThrows(r)
  BY <1>9, QuietSteps DEF StartThrows, Control, Setup, InSession
<1>10. CASE Command(r)  BY <1>10, CommandStrong
<1>11. CASE DeleteSession(r)  BY <1>11, DeleteStrong
<1>12. CASE QuitDriver(r)
  BY <1>12, QuietSteps DEF QuitDriver, Control, Setup, InSession
<1>13. CASE ProxyDelete(r)  BY <1>13, DeleteStrong
<1>14. CASE NodeReportsShutdown(r)  BY <1>14, NodeReportsShutdownStrong
<1>15. CASE ClientDisconnects(r)
  BY <1>15, QuietSteps DEF ClientDisconnects
<1>16. CASE CleanPendingSession(r)
  BY <1>16, QuietSteps DEF CleanPendingSession
<1>17. QED
  BY <1>1, <1>2, <1>3, <1>4, <1>5, <1>6, <1>7, <1>8, <1>9, <1>10, <1>11, <1>12,
     <1>13, <1>14, <1>15, <1>16 DEF RequestStep

\* The clock and the dashboard keep the invariant.
LEMMA DeviceStepStrong ==
    ASSUME Tame, IInv, NEW d \in Devices, DeviceStep(d)
    PROVE  Strong'
<1>1. CASE CommandTimeout(d)
  <2>1. doc[d].busy => doc[d].session # None
    BY <1>1 DEF CommandTimeout, IInv, StampedDevice
  <2>2. QED  BY <1>1, <2>1, TouchSteps
             DEF CommandTimeout, IInv, TypeInv, TypeOK, Database, Doc
<1>2. CASE UserBlocks(d)
  BY <1>2, TouchSteps
  DEF UserBlocks, UserBlockDevice, IInv, TypeInv, TypeOK, Database, Doc
<1>3. ~UserUnblocks(d) /\ ~DeviceLost(d) /\ ~DeviceFound(d)
  BY DEF Tame, UserUnblocks, DeviceLost, DeviceFound
<1>4. QED  BY <1>1, <1>2, <1>3 DEF DeviceStep

\* A release that waits is the only one of its request.
LEMMA OneReleaseEach ==
    ASSUME IInv, NEW u \in unblocks, u.by # None
    PROVE  LastOf(u)
<1> SUFFICES ASSUME NEW v \in unblocks, v.by = u.by PROVE v = u
  BY DEF LastOf
<1>1. u \in Unblock /\ v \in Unblock  BY DEF IInv, TypeInv, TypeOK
<1>2. held[u.by] = u.dev
  BY <1>1, StoreAssumption DEF IInv, UnblockOwner, SessionDevice, Unblock
<1>3. held[v.by] = v.dev
  BY <1>1, StoreAssumption DEF IInv, UnblockOwner, SessionDevice, Unblock
<1>4. QED  BY <1>2, <1>3 DEF IInv, UnblockApart

\* Once its release is over, a request is neither setting up nor releasing.
LEMMA ResumeChanges ==
    ASSUME IInv, NEW u \in unblocks, ResumeAfter(u)
    PROVE  /\ u.by # None => pc'[u.by] \notin Setup \cup {"releasing"}
           /\ \A q \in Requests :
                 /\ q # u.by => pc'[q] = pc[q]
                 /\ pc'[q] \in Setup => pc[q] \in Setup
                 /\ pc[q] \in InSession => pc'[q] \in InSession
<1>1. u \in Unblock  BY DEF IInv, TypeInv, TypeOK
<1>2. CASE u.by = None
  BY <1>2 DEF ResumeAfter, LastOf
<1>3. CASE u.by # None
  <2>1. LastOf(u)  BY <1>3, OneReleaseEach
  <2>2. u.by \in Requests  BY <1>1, <1>3 DEF Unblock
  <2>3. pc' = [pc EXCEPT ![u.by] = AfterUnblock(u.by)]
    BY <2>1 DEF ResumeAfter
  <2>4. pc[u.by] = "aborting" \/ pc[u.by] = "releasing"
    BY <1>3 DEF IInv, UnblockOwner
  <2>5. /\ AfterUnblock(u.by) \in {"failed", "closed", "quitting"}
        /\ pc[u.by] = "releasing" => AfterUnblock(u.by) \in {"closed", "quitting"}
    BY DEF AfterUnblock
  <2>6. QED
    BY <2>2, <2>3, <2>4, <2>5 DEF IInv, TypeInv, TypeOK, Setup, InSession
<1>4. QED  BY <1>2, <1>3

\* The document a release clears is still that of its initiator.
LEMMA UnblockStepStrong ==
    ASSUME IInv, NEW u \in Unblock, UnblockStep(u)
    PROVE  Strong'
<1> DEFINE d == u.dev
<1>1. /\ u \in unblocks /\ unblocks' = unblocks \ {u} /\ held' = held
      /\ ResumeAfter(u)
      /\ doc' = doc \/ doc' = UnblockDevice(doc, d)
  BY DEF UnblockStep, FinishUnblock, UnblockFails
<1>2. d \in Devices /\ u.by \in Requests \cup {None}  BY DEF Unblock
<1>3. /\ u.by # None => pc'[u.by] \notin Setup \cup {"releasing"}
      /\ \A q \in Requests :
            /\ q # u.by => pc'[q] = pc[q]
            /\ pc'[q] \in Setup => pc[q] \in Setup
            /\ pc[q] \in InSession => pc'[q] \in InSession
  BY <1>1, ResumeChanges
<1>4. /\ \A e \in Devices \ {d} : doc'[e] = doc[e]
      /\ \/ doc'[d] = doc[d]
         \/ /\ ~doc'[d].busy /\ doc'[d].session = None /\ doc'[d].stored
            /\ ~doc'[d].userBlocked
  <2>1. CASE doc' = doc  BY <2>1
  <2>2. CASE doc' = UnblockDevice(doc, d)
    <3>1. doc \in [Devices -> Doc]  BY DEF IInv, TypeInv, TypeOK, Database
    <3>2. doc' = [doc EXCEPT ![d] = Cleared(doc[d])] /\ doc[d].stored
      BY <1>2, <2>2 DEF UnblockDevice, IInv, AllStored
    <3>3. doc'[d] = Cleared(doc[d])  BY <1>2, <3>1, <3>2
    <3>4. \A e \in Devices \ {d} : doc'[e] = doc[e]  BY <3>1, <3>2
    <3>5. doc[d] \in Doc  BY <1>2, <3>1
    <3>6. /\ ~Cleared(doc[d]).busy /\ Cleared(doc[d]).session = None
          /\ Cleared(doc[d]).stored /\ ~Cleared(doc[d]).userBlocked
      BY <3>2, <3>5 DEF Cleared, Doc
    <3>7. QED  BY <3>3, <3>4, <3>6
  <2>3. QED  BY <1>1, <2>1, <2>2
<1>5. ASSUME NEW q \in Requests, pc'[q] \in Setup
      PROVE  /\ pc[q] \in Setup /\ held[q] \in Devices /\ held[q] # d
  <2>1. pc[q] \in Setup  BY <1>3, <1>5
  <2>2. held[q] \in Devices
    BY <2>1 DEF IInv, TypeInv, HoldsDevice, Setup
  <2>3. q # u.by  BY <1>3, <1>5, StoreAssumption
  <2>4. held[q] # d
    <3>1. CASE u.by = None
      BY <1>1, <2>1, <3>1 DEF IInv, UnblockOwner, SetupDevice
    <3>2. CASE u.by # None /\ pc[u.by] = "aborting" /\ held[u.by] = d
      BY <1>2, <2>1, <2>3, <3>2 DEF IInv, SetupApart, Setup
    <3>3. CASE u.by # None /\ pc[u.by] = "releasing" /\ doc[d].session = u.by
      BY <2>1, <3>3 DEF IInv, SetupDevice
    <3>4. QED  BY <1>1, <3>1, <3>2, <3>3 DEF IInv, UnblockOwner
  <2>5. QED  BY <2>1, <2>2, <2>4
<1>6. SetupDevice' /\ SetupApart'
  BY <1>1, <1>4, <1>5 DEF IInv, SetupDevice, SetupApart
<1>7. SessionDevice' /\ StampedDevice' /\ AllStored' /\ NobodyBlocks'
  BY <1>1, <1>3, <1>4, StoreAssumption
  DEF IInv, SessionDevice, StampedDevice, AllStored, NobodyBlocks
<1>8. UnblockApart'
  BY <1>1 DEF IInv, UnblockApart
<1>9. UnblockOwner'
  <2> SUFFICES ASSUME NEW v \in unblocks'
               PROVE  /\ doc'[v.dev].busy
                      /\ \/ v.by = None /\ doc'[v.dev].session # None
                         \/ /\ v.by # None
                            /\ pc'[v.by] = "aborting"
                            /\ held'[v.by] = v.dev
                         \/ /\ v.by # None
                            /\ pc'[v.by] = "releasing"
                            /\ doc'[v.dev].session = v.by
    BY DEF UnblockOwner
  <2>1. v \in unblocks /\ v # u /\ v \in Unblock
    BY <1>1 DEF IInv, TypeInv, TypeOK
  <2>2. v.dev \in Devices \ {d}
    BY <1>1, <2>1 DEF IInv, UnblockApart, Unblock
  <2>3. v.by # None => v.by # u.by
    BY <1>1, <2>1, OneReleaseEach DEF LastOf
  <2>4. QED
    BY <1>1, <1>3, <1>4, <2>1, <2>2, <2>3 DEF IInv, UnblockOwner, Unblock
<1>10. QED  BY <1>6, <1>7, <1>8, <1>9 DEF Strong

\* The release job takes only devices with a session.
LEMMA ReleaseStepStrong ==
    ASSUME Tame, IInv, ReleaseBlockedDevices
    PROVE  Strong'
<1> DEFINE S == {d \in IdleDevices(doc) : MayUnblock(d)}
<1>1. /\ unblocks' = unblocks \cup {[dev |-> d, by |-> None] : d \in S}
      /\ UNCHANGED <<doc, pc, held>>
  BY DEF ReleaseBlockedDevices, BeginUnblock
<1>2. ASSUME NEW d \in S
      PROVE  /\ d \in Devices /\ doc[d].busy /\ doc[d].session # None
             /\ \A u \in unblocks : u.dev # d
  BY DEF IdleDevices, UnblockCandidates, BusyDevices, MayUnblock, Tame, IInv,
         StampedDevice
<1>3. SetupDevice' /\ SetupApart' /\ SessionDevice' /\ StampedDevice'
      /\ AllStored' /\ NobodyBlocks'
  BY <1>1 DEF IInv, SetupDevice, SetupApart, SessionDevice, StampedDevice,
              AllStored, NobodyBlocks
<1>4. UnblockOwner' /\ UnblockApart'
  BY <1>1, <1>2 DEF IInv, UnblockOwner, UnblockApart
<1>5. QED  BY <1>3, <1>4 DEF Strong

\* The invariant is inductive.
LEMMA IInvHolds == ASSUME Tame PROVE Spec => []IInv
<1>1. Init => IInv
  <2>1. Init => TypeInv  BY InitTyped
  <2>2. Init => Strong
    BY StoreAssumption
    DEF Init, Strong, SetupDevice, SetupApart, SessionDevice, StampedDevice,
        UnblockOwner, UnblockApart, AllStored, NobodyBlocks, Setup, NewDoc
  <2>3. QED  BY <2>1, <2>2 DEF IInv, Strong
<1>2. IInv /\ [Next]_vars => IInv'
  <2> SUFFICES ASSUME IInv, [Next]_vars PROVE TypeInv' /\ Strong'
    BY DEF IInv, Strong
  <2>1. CASE UNCHANGED vars
    BY <2>1 DEF vars, IInv, Strong, TypeInv, TypeOK, HoldsDevice, SetupDevice,
                SetupApart, SessionDevice, StampedDevice, UnblockOwner,
                UnblockApart, AllStored, NobodyBlocks
  <2>2. CASE Next
    <3>1. TypeInv'
      BY <2>2, RequestStepTyped, DeviceStepTyped, UnblockStepTyped,
         ReleaseStepTyped DEF Next, IInv
    <3>2. Strong'
      BY <2>2, RequestStepStrong, DeviceStepStrong, UnblockStepStrong,
         ReleaseStepStrong DEF Next
    <3>3. QED  BY <3>1, <3>2
  <2>3. QED  BY <2>1, <2>2
<1>3. QED  BY <1>1, <1>2, PTL DEF Spec

(***************************************************************************)
(* docs/architecture.md: while a request relies on a device, no other        *)
(* request gets it, whatever the numbers of requests, devices and locks.     *)
(***************************************************************************)
THEOREM ClaimsAreExclusive == ASSUME Tame PROVE Spec => []ExclusiveClaim
<1>1. IInv => ExclusiveClaim
  <2> SUFFICES ASSUME IInv, NEW d \in Devices, NEW r \in Requests,
                      NEW s \in Requests, Claims(r, d), Claims(s, d)
               PROVE  r = s
    BY DEF ExclusiveClaim
  <2>1. CASE doc[d].session = None
    BY <2>1, StoreAssumption DEF Claims, IInv, SetupApart, Setup
  <2>2. CASE doc[d].session # None
    BY <2>2 DEF Claims, IInv, SetupDevice, Setup
  <2>3. QED  BY <2>1, <2>2
<1>2. QED  BY <1>1, IInvHolds, PTL

-----------------------------------------------------------------------------
(* The limit on the number of sessions *)

BusyIsNotNew == \A d \in Devices : doc'[d].busy => doc[d].busy

\* Only AllocateDevice makes a device busy that was not: the createSession
\* that sets busy again when the session exists finds it set.
LEMMA OnlyAllocationMakesBusy ==
    ASSUME Tame, IInv, [Next]_vars,
           \A r \in Requests : ~AllocateDevice(r)
    PROVE  BusyIsNotNew
<1> USE DEF BusyIsNotNew
<1>1. ASSUME NEW r \in Requests, RequestStep(r) PROVE BusyIsNotNew
  <2>1. CASE SessionStarts(r)
    <3>1. held[r] \in Devices /\ doc[held[r]].busy
      BY <2>1 DEF SessionStarts, IInv, TypeInv, HoldsDevice, SetupDevice, Setup
    <3>2. QED
      BY <2>1, <3>1 DEF SessionStarts, AssignSession, IInv, TypeInv, TypeOK,
                        Database, Doc
  <2>2. CASE Command(r) \/ ProxyDelete(r)
    BY <2>2, StampChanges DEF Command, ProxyDelete, IInv, TypeInv
  <2>3. CASE NodeReportsShutdown(r)
    <3>1. PICK d \in MatchingSession(doc, r) : doc' = UserUnblockDevice(doc, d)
      BY <2>3 DEF NodeReportsShutdown
    <3>2. QED
      BY <3>1 DEF MatchingSession, UserUnblockDevice, IInv, TypeInv, TypeOK,
                  Database, Doc
  <2>4. CASE doc' = doc  BY <2>4
  <2>5. QED
    BY <1>1, <2>1, <2>2, <2>3, <2>4
    DEF RequestStep, EnqueueRequest, AcquireLock, GiveUp, ConfigureDevice,
        ConfigureFails, SessionFails, StartThrows, DeleteSession, QuitDriver,
        ClientDisconnects, CleanPendingSession
<1>2. ASSUME NEW d \in Devices, DeviceStep(d) PROVE BusyIsNotNew
  <2>1. CASE CommandTimeout(d)
    BY <2>1 DEF CommandTimeout, IInv, TypeInv, TypeOK, Database, Doc
  <2>2. CASE UserBlocks(d)
    BY <2>2 DEF UserBlocks, UserBlockDevice, IInv, TypeInv, TypeOK, Database, Doc
  <2>3. QED
    BY <1>2, <2>1, <2>2
    DEF DeviceStep, Tame, UserUnblocks, DeviceLost, DeviceFound
<1>3. ASSUME NEW u \in Unblock, UnblockStep(u) PROVE BusyIsNotNew
  <2>1. doc' = doc \/ doc' = UnblockDevice(doc, u.dev)
    BY <1>3 DEF UnblockStep, FinishUnblock, UnblockFails
  <2>2. u.dev \in Devices  BY DEF Unblock
  <2>3. CASE doc' = UnblockDevice(doc, u.dev) /\ doc' # doc
    <3>1. doc' = [doc EXCEPT ![u.dev] = Cleared(doc[u.dev])]
      BY <2>3 DEF UnblockDevice
    <3>2. doc \in [Devices -> Doc]  BY DEF IInv, TypeInv, TypeOK, Database
    <3>3. doc[u.dev] \in Doc  BY <2>2, <3>2
    <3>4. ~Cleared(doc[u.dev]).busy  BY <3>3 DEF Cleared, Doc
    <3>5. QED  BY <2>2, <3>1, <3>2, <3>4
  <2>4. QED  BY <2>1, <2>3
<1>4. CASE ReleaseBlockedDevices \/ UNCHANGED vars
  BY <1>4 DEF ReleaseBlockedDevices, vars
<1>5. QED  BY <1>1, <1>2, <1>3, <1>4 DEF Next

\* A set that has at most one element more than another.
LEMMA OneMore ==
    ASSUME NEW S, IsFiniteSet(S), NEW x, NEW T \in SUBSET (S \cup {x})
    PROVE  /\ Cardinality(S) \in Nat
           /\ Cardinality(T) \in Nat
           /\ Cardinality(T) <= Cardinality(S) + 1
<1>1. Cardinality(S) \in Nat  BY FS_CardinalityType
<1>2. /\ IsFiniteSet(S \cup {x})
      /\ Cardinality(S \cup {x}) = Cardinality(S) \/
         Cardinality(S \cup {x}) = Cardinality(S) + 1
  BY FS_AddElement
<1>3. IsFiniteSet(T) /\ Cardinality(T) <= Cardinality(S \cup {x})
  BY <1>2, FS_Subset
<1>4. Cardinality(T) \in Nat  BY <1>3, FS_CardinalityType
<1>5. QED  BY <1>1, <1>2, <1>3, <1>4

(***************************************************************************)
(* IPluginArgs.maxSessions: however the requests interleave under their      *)
(* different locks, the busy devices are never more than the limit, so that  *)
(* the test for equality in allocateDeviceForSession is enough.              *)
(***************************************************************************)
THEOREM CapIsKept == ASSUME Tame PROVE Spec => []SessionCap
<1> USE AllocationAssumption, StoreAssumption
<1>1. IsFiniteSet(BusyDevices(doc)) /\ Cardinality(BusyDevices(doc)) \in Nat
  BY FS_Subset, FS_CardinalityType DEF BusyDevices
<1>2. Init => SessionCap
  <2>1. Init => BusyDevices(doc) = {}
    BY DEF Init, BusyDevices, NewDoc
  <2>2. Cardinality({}) = 0  BY FS_EmptySet
  <2>3. Init => Cardinality(BusyDevices(doc)) = 0  BY <2>1, <2>2
  <2>4. QED  BY <2>3 DEF SessionCap
<1>3. IInv /\ SessionCap /\ [Next]_vars => SessionCap'
  <2> SUFFICES ASSUME IInv, SessionCap, [Next]_vars PROVE SessionCap'
    OBVIOUS
  <2>1. CASE \A r \in Requests : ~AllocateDevice(r)
    <3>1. BusyDevices(doc') \subseteq BusyDevices(doc)
      BY <2>1, OnlyAllocationMakesBusy DEF BusyIsNotNew, BusyDevices, IInv, AllStored
    <3>2. Cardinality(BusyDevices(doc')) <= Cardinality(BusyDevices(doc))
          /\ Cardinality(BusyDevices(doc')) \in Nat
      BY <1>1, <3>1, FS_Subset, FS_CardinalityType
    <3>3. QED  BY <1>1, <3>2 DEF SessionCap
  <2>2. ASSUME NEW r \in Requests, AllocateDevice(r) PROVE SessionCap'
    <3>1. PICK d \in Obtainable(doc, Wanted[r], r \in ByUdid) :
             doc' = BlockDevice(doc, d)
      BY <2>2 DEF AllocateDevice
    <3>2. d \in Devices  BY DEF Obtainable
    <3>3. \A e \in Devices \ {d} : doc'[e] = doc[e]
      BY <3>1, <3>2 DEF BlockDevice, IInv, TypeInv, TypeOK, Database
    <3>4. BusyDevices(doc') \subseteq BusyDevices(doc) \cup {d}
      BY <3>3 DEF BusyDevices
    <3>5. /\ Cardinality(BusyDevices(doc)) \in Nat
          /\ Cardinality(BusyDevices(doc')) \in Nat
          /\ Cardinality(BusyDevices(doc')) <= Cardinality(BusyDevices(doc)) + 1
      BY <1>1, <3>4, OneMore
    <3>6. Cardinality(BusyDevices(doc)) # MaxSessions
      BY <2>2 DEF AllocateDevice, AtCapacity
    <3>7. QED  BY <3>5, <3>6 DEF SessionCap
  <2>3. QED  BY <2>1, <2>2
<1>4. QED  BY <1>2, <1>3, IInvHolds, PTL DEF Spec

=============================================================================
