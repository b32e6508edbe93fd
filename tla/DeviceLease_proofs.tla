------------------------ MODULE DeviceLease_proofs ------------------------
(***************************************************************************)
(* DeviceAllocation implements DeviceLease in every tame environment.  The   *)
(* argument has three parts: claims are exclusive, so that a device has one  *)
(* claimant; every step but the allocation leaves the claims as they are or  *)
(* ends those on one device; and the allocation adds one claim on a device   *)
(* nobody claims, below the limit.                                           *)
(***************************************************************************)
EXTENDS DeviceAllocation_proofs

\* Claimant finds the one request that relies on a device.
LEMMA ClaimantIsClaims ==
    ASSUME ExclusiveClaim, NEW d \in Devices
    PROVE  /\ Claimant(d) \in Requests => Claims(Claimant(d), d)
           /\ \A r \in Requests : Claims(r, d) => Claimant(d) = r
           /\ Claimant(d) \in Requests \cup {None}
           /\ Claimant(d) = None <=> \A r \in Requests : ~Claims(r, d)
  BY StoreAssumption DEF ExclusiveClaim, Claimant

\* A device somebody relies on is busy, and so counts against the limit.
LEMMA ClaimedIsBusy ==
    ASSUME IInv, NEW d \in Devices, NEW r \in Requests, Claims(r, d)
    PROVE  doc[d].busy /\ held[r] = d
  BY StoreAssumption DEF IInv, Claims, SetupDevice, SessionDevice, Setup

\* A step after which only claims on one device are gone takes that device
\* back, or changes no lease.
LEMMA ShrinkStep ==
    ASSUME ExclusiveClaim, ExclusiveClaim', held' = held, NEW d,
           \A e \in Devices : \A r \in Requests :
               /\ Claims(r, e)' => Claims(r, e)
               /\ e # d => (Claims(r, e) => Claims(r, e)')
    PROVE  [Lease!Next]_Lease!leaseVars
<1> DEFINE L == [e \in Devices |-> Claimant(e)]
<1>1. \A e \in Devices :
         /\ Claimant(e)' \in {Claimant(e), None}
         /\ e # d => Claimant(e)' = Claimant(e)
  BY StoreAssumption DEF ExclusiveClaim, Claimant
<1>2. CASE \A e \in Devices : Claimant(e)' = Claimant(e)
  BY <1>2 DEF Lease!leaseVars
<1>3. CASE d \in Devices /\ Claimant(d)' = None /\ Claimant(d) # None
  <2>1. L' = [L EXCEPT ![d] = None]  BY <1>1, <1>3
  <2>2. Lease!TakeBack(d)  BY <1>3, <2>1 DEF Lease!TakeBack
  <2>3. QED  BY <1>3, <2>2 DEF Lease!Next
<1>4. QED  BY <1>1, <1>2, <1>3

\* The claims on devices other than d are the same after the step, and those
\* on d are not more.
Shrinks(d) ==
    \A e \in Devices : \A r \in Requests :
        /\ Claims(r, e)' => Claims(r, e)
        /\ e # d => (Claims(r, e) => Claims(r, e)')

\* Steps that record no other session and move one request among the states
\* in which it claims what it claimed, or to a state in which it claims
\* nothing.
LEMMA MoveShrinks ==
    ASSUME IInv, NEW r \in Requests, held' = held, NEW c \in Control,
           pc' = [pc EXCEPT ![r] = c],
           \A e \in Devices : doc'[e].session = doc[e].session,
           \/ c \notin {"configuring", "starting", "active", "releasing"}
           \/ c \in {"configuring", "starting"} /\ pc[r] \in {"configuring", "starting"}
           \/ c \in {"active", "releasing"} /\ pc[r] \in {"active", "releasing"}
    PROVE  Shrinks(held[r])
<1>1. ASSUME NEW e \in Devices, NEW q \in Requests, q # r
      PROVE  Claims(q, e)' <=> Claims(q, e)
  BY <1>1 DEF Claims, IInv, TypeInv, TypeOK
<1>2. ASSUME NEW e \in Devices
      PROVE  /\ Claims(r, e)' => Claims(r, e)
             /\ Claims(r, e) => e = held[r]
  BY ClaimedIsBusy DEF Claims, IInv, TypeInv, TypeOK
<1>3. QED  BY <1>1, <1>2 DEF Shrinks

\* The session of no device but d changes, and that of d is at most cleared.
SessionsKeptBut(d) ==
    \A e \in Devices :
        \/ doc'[e].session = doc[e].session
        \/ e = d /\ doc'[e].session = None

\* Steps that move no request and leave the sessions of all devices but one.
LEMMA ClearShrinks ==
    ASSUME IInv, NEW d, UNCHANGED pc, UNCHANGED held,
           SessionsKeptBut(d)
    PROVE  Shrinks(d)
  BY StoreAssumption DEF Shrinks, Claims, SessionsKeptBut

\* When the session is recorded, the claim of its request stays what it was.
LEMMA StartShrinks ==
    ASSUME IInv, NEW r \in Requests, SessionStarts(r)
    PROVE  Shrinks(None)
<1> DEFINE h == held[r]
<1>1. pc[r] = "starting" /\ pc' = [pc EXCEPT ![r] = "active"] /\ held' = held
  BY DEF SessionStarts
<1>2. h \in Devices /\ doc[h].session = None
  BY <1>1 DEF IInv, TypeInv, HoldsDevice, SetupDevice, Setup
<1>3. doc'[h].session = r /\ \A e \in Devices \ {h} : doc'[e] = doc[e]
  BY <1>2 DEF SessionStarts, AssignSession, IInv, AllStored, TypeInv, TypeOK,
              Database, Doc
<1>4. \A e \in Devices : doc[e].session # r
  BY <1>1 DEF IInv, SessionDevice, InSession
<1>5. ASSUME NEW e \in Devices, NEW q \in Requests
      PROVE  Claims(q, e)' <=> Claims(q, e)
  <2>1. CASE q = r
    BY <1>1, <1>3, <1>4, <2>1 DEF Claims, IInv, TypeInv, TypeOK
  <2>2. CASE q # r
    BY <1>1, <1>2, <1>3, <2>2, StoreAssumption
    DEF Claims, IInv, TypeInv, TypeOK
  <2>3. QED  BY <2>1, <2>2
<1>6. QED  BY <1>5 DEF Shrinks

\* Apart from the allocation, a step of a request ends at most its own claim.
LEMMA RequestShrinks ==
    ASSUME Tame, IInv, NEW r \in Requests, RequestStep(r), ~AllocateDevice(r)
    PROVE  held' = held /\ \E d : Shrinks(d)
<1>1. CASE EnqueueRequest(r)
  BY <1>1, MoveShrinks DEF EnqueueRequest, Control
<1>2. CASE AcquireLock(r)
  BY <1>2, MoveShrinks DEF AcquireLock, Control
<1>3. CASE GiveUp(r)
  BY <1>3, MoveShrinks DEF GiveUp, FailInsideLock, Control
<1>4. CASE ConfigureDevice(r)
  BY <1>4, MoveShrinks DEF ConfigureDevice, Control
<1>5. CASE ConfigureFails(r)
  BY <1>5, MoveShrinks DEF ConfigureFails, FailInsideLock, Control
<1>6. CASE SessionStarts(r)
  BY <1>6, StartShrinks DEF SessionStarts
<1>7. CASE SessionFails(r)
  <2>1. \E c \in {"aborting", "failed"} : pc' = [pc EXCEPT ![r] = c]
    BY <1>7 DEF SessionFails
  <2>2. QED  BY <1>7, <2>1, MoveShrinks DEF SessionFails, Control
<1>8. CASE StartThrows(r)
  BY <1>8, MoveShrinks DEF StartThrows, Control
<1>9. CASE Command(r)
  <2>1. SessionsKeptBut(None)
    BY <1>9, StampChanges DEF Command, IInv, TypeInv, SessionsKeptBut
  <2>2. QED  BY <1>9, <2>1, ClearShrinks DEF Command
<1>10. CASE DeleteSession(r) \/ ProxyDelete(r)
  <2>1. \E c \in {"quitting", "closed", "releasing"} :
           pc' = [pc EXCEPT ![r] = c]
    BY <1>10 DEF DeleteSession, ProxyDelete
  <2>2. \A e \in Devices : doc'[e].session = doc[e].session
    BY <1>10, StampChanges DEF DeleteSession, ProxyDelete, IInv, TypeInv
  <2>3. pc[r] = "active" /\ held' = held
    BY <1>10 DEF DeleteSession, ProxyDelete
  <2>4. QED  BY <2>1, <2>2, <2>3, MoveShrinks DEF Control
<1>11. CASE QuitDriver(r)
  BY <1>11, MoveShrinks DEF QuitDriver, Control
<1>12. CASE NodeReportsShutdown(r)
  <2>1. PICK d \in MatchingSession(doc, r) : doc' = UserUnblockDevice(doc, d)
    BY <1>12 DEF NodeReportsShutdown
  <2>2. SessionsKeptBut(d)
    BY <2>1 DEF MatchingSession, UserUnblockDevice, IInv, TypeInv, TypeOK,
                Database, Doc, SessionsKeptBut
  <2>3. QED  BY <1>12, <2>2, ClearShrinks DEF NodeReportsShutdown
<1>13. CASE ClientDisconnects(r) \/ CleanPendingSession(r)
  <2>1. UNCHANGED <<doc, pc, held>>
    BY <1>13 DEF ClientDisconnects, CleanPendingSession
  <2>2. Shrinks(None)  BY <2>1 DEF Shrinks, Claims
  <2>3. QED  BY <2>1, <2>2
<1>14. QED
  BY <1>1, <1>2, <1>3, <1>4, <1>5, <1>6, <1>7, <1>8, <1>9, <1>10, <1>11, <1>12,
     <1>13 DEF RequestStep

\* The clock and the dashboard change no claim.
LEMMA DeviceShrinks ==
    ASSUME Tame, IInv, NEW d \in Devices, DeviceStep(d)
    PROVE  held' = held /\ Shrinks(d)
<1>1. CASE CommandTimeout(d)
  BY <1>1, ClearShrinks
  DEF CommandTimeout, IInv, TypeInv, TypeOK, Database, Doc, SessionsKeptBut
<1>2. CASE UserBlocks(d)
  BY <1>2, ClearShrinks
  DEF UserBlocks, UserBlockDevice, IInv, TypeInv, TypeOK, Database, Doc,
      SessionsKeptBut
<1>3. ~UserUnblocks(d) /\ ~DeviceLost(d) /\ ~DeviceFound(d)
  BY DEF Tame, UserUnblocks, DeviceLost, DeviceFound
<1>4. QED  BY <1>1, <1>2, <1>3 DEF DeviceStep, CommandTimeout, UserBlocks

\* The end of a release ends claims on the released device only.
LEMMA UnblockShrinks ==
    ASSUME IInv, NEW u \in Unblock, UnblockStep(u)
    PROVE  held' = held /\ Shrinks(u.dev)
<1> DEFINE d == u.dev
<1>1. /\ u \in unblocks /\ held' = held /\ ResumeAfter(u)
      /\ doc' = doc \/ doc' = UnblockDevice(doc, d)
      /\ d \in Devices
  BY DEF UnblockStep, FinishUnblock, UnblockFails, Unblock
<1>2. /\ u.by # None => pc'[u.by] \notin Setup \cup {"releasing"}
      /\ \A q \in Requests :
            /\ q # u.by => pc'[q] = pc[q]
            /\ pc'[q] \in Setup => pc[q] \in Setup
            /\ pc[q] \in InSession => pc'[q] \in InSession
  BY <1>1, ResumeChanges
<1>3. SessionsKeptBut(d)
  BY <1>1 DEF UnblockDevice, Cleared, IInv, TypeInv, TypeOK, Database, Doc,
              SessionsKeptBut
<1>4. ASSUME NEW e \in Devices, NEW q \in Requests, q # u.by
      PROVE  /\ Claims(q, e)' => Claims(q, e)
             /\ e # d => (Claims(q, e) => Claims(q, e)')
  BY <1>1, <1>2, <1>3, <1>4, StoreAssumption DEF Claims, SessionsKeptBut
<1>5. ASSUME NEW e \in Devices, u.by \in Requests
      PROVE  /\ ~Claims(u.by, e)'
             /\ Claims(u.by, e) => e = d
  <2>1. u.by # None  BY <1>5, StoreAssumption
  <2>2. pc'[u.by] \in {"failed", "closed", "quitting"}
    <3>1. LastOf(u)  BY <1>1, <2>1, OneReleaseEach
    <3>2. pc' = [pc EXCEPT ![u.by] = AfterUnblock(u.by)]
      BY <1>1, <3>1 DEF ResumeAfter
    <3>3. QED  BY <1>5, <3>2 DEF AfterUnblock, IInv, TypeInv, TypeOK
  <2>3. held[u.by] = d
    BY <1>1, <1>5, <2>1 DEF IInv, UnblockOwner, SessionDevice
  <2>4. QED  BY <1>5, <2>2, <2>3, ClaimedIsBusy DEF Claims
<1>6. QED  BY <1>1, <1>4, <1>5 DEF Shrinks

\* A request that waits was not given a device before.
Unserved ==
    \A r \in Requests : pc[r] \in {"received", "queued", "polling"} => held[r] = None

\* Unserved is an invariant: only AllocateDevice gives a device, and it ends
\* the wait.
LEMMA UnservedHolds == Spec => []Unserved
<1>1. Init => Unserved  BY DEF Init, Unserved
<1>2. TypeInv /\ Unserved /\ [Next]_vars => Unserved'
  <2> SUFFICES ASSUME TypeInv, Unserved, [Next]_vars PROVE Unserved'
    OBVIOUS
  <2> USE DEF Unserved, TypeInv, TypeOK
  <2>1. ASSUME NEW r \in Requests, RequestStep(r) PROVE Unserved'
    <3>1. CASE AllocateDevice(r)  BY <3>1 DEF AllocateDevice
    <3>2. CASE ~AllocateDevice(r)
      BY <2>1, <3>2
      DEF RequestStep, EnqueueRequest, AcquireLock, GiveUp, FailInsideLock,
          ConfigureDevice, ConfigureFails, SessionStarts, SessionFails,
          StartThrows, Command, DeleteSession, QuitDriver, ProxyDelete,
          NodeReportsShutdown, ClientDisconnects, CleanPendingSession
    <3>3. QED  BY <3>1, <3>2
  <2>2. ASSUME NEW d \in Devices, DeviceStep(d) PROVE Unserved'
    BY <2>2 DEF DeviceStep, CommandTimeout, UserBlocks, UserUnblocks, DeviceLost,
                DeviceFound
  <2>3. ASSUME NEW u \in Unblock, UnblockStep(u) PROVE Unserved'
    BY <2>3, ResumeTyped DEF UnblockStep, FinishUnblock, UnblockFails
  <2>4. CASE ReleaseBlockedDevices \/ UNCHANGED vars
    BY <2>4 DEF ReleaseBlockedDevices, vars
  <2>5. QED  BY <2>1, <2>2, <2>3, <2>4 DEF Next
<1>3. TypeOK /\ HoldsDevice => TypeInv  BY DEF TypeInv
<1>4. QED  BY <1>1, <1>2, <1>3, TypeCorrect, PTL DEF Spec

\* The cardinality the instance sees is the cardinality.
LEMMA SameCardinality == \A S : Lease!Cardinality(S) = Cardinality(S)
  BY DEF Cardinality, Lease!Cardinality

\* The allocation lends the device it blocks.
LEMMA AllocateLends ==
    ASSUME Tame, IInv, Unserved, ExclusiveClaim, ExclusiveClaim', SessionCap,
           NEW r \in Requests, AllocateDevice(r)
    PROVE  Lease!Next
<1> USE AllocationAssumption
<1>1. PICK d \in Obtainable(doc, Wanted[r], r \in ByUdid) :
         doc' = BlockDevice(doc, d) /\ held' = [held EXCEPT ![r] = d]
  BY DEF AllocateDevice
<1>2. d \in Devices /\ ~doc[d].busy
  BY <1>1, ObtainableIsFree DEF IInv, TypeInv
<1>3. \A e \in Devices : doc'[e].session = doc[e].session
  BY <1>1 DEF BlockDevice, IInv, TypeInv, TypeOK, Database, Doc
<1>4. pc[r] = "polling" /\ pc' = [pc EXCEPT ![r] = "configuring"]
  BY DEF AllocateDevice
<1>5. \A q \in Requests : ~Claims(q, d)
  BY <1>2, ClaimedIsBusy
<1>6. \A e \in Devices : ~Claims(r, e)
  BY <1>4 DEF Claims
<1>7. \A e \in Devices : \A q \in Requests :
         Claims(q, e)' <=> Claims(q, e) \/ (q = r /\ e = d)
  <2> TAKE e \in Devices
  <2> TAKE q \in Requests
  <2>1. CASE q = r
    BY <1>1, <1>4, <1>6, <2>1 DEF Claims, IInv, TypeInv, TypeOK
  <2>2. CASE q # r
    BY <1>1, <1>3, <1>4, <2>2 DEF Claims, IInv, TypeInv, TypeOK
  <2>3. QED  BY <2>1, <2>2
<1>8. /\ Claimant(d) = None /\ Claimant(d)' = r
      /\ \A e \in Devices \ {d} : Claimant(e)' = Claimant(e)
  BY <1>2, <1>5, <1>7, StoreAssumption DEF ExclusiveClaim, Claimant
<1>9. held[r] = None /\ \A q \in Requests : held'[q] = IF q = r THEN d ELSE held[q]
  BY <1>1, <1>4 DEF Unserved, IInv, TypeInv, TypeOK
<1>10. Cardinality(Lease!Lent) < MaxSessions
  <2>1. Lease!Lent \subseteq BusyDevices(doc)
    BY ClaimantIsClaims, ClaimedIsBusy
    DEF Lease!Lent, BusyDevices, IInv, AllStored
  <2>2. IsFiniteSet(BusyDevices(doc))
    BY StoreAssumption, FS_Subset DEF BusyDevices
  <2>3. /\ Cardinality(Lease!Lent) <= Cardinality(BusyDevices(doc))
        /\ Cardinality(Lease!Lent) \in Nat
        /\ Cardinality(BusyDevices(doc)) \in Nat
    BY <2>1, <2>2, FS_Subset, FS_CardinalityType
  <2>4. Cardinality(BusyDevices(doc)) # MaxSessions
    BY DEF AllocateDevice, AtCapacity
  <2>5. QED  BY <2>3, <2>4 DEF SessionCap
<1>11. Lease!Lend(r, d)
  <2>1. r \notin {q \in Requests : held[q] # None}  BY <1>9
  <2>2. {q \in Requests : held[q] # None}'
           = {q \in Requests : held[q] # None} \cup {r}
    BY <1>2, <1>9, StoreAssumption
  <2>3. [e \in Devices |-> Claimant(e)]'
           = [[e \in Devices |-> Claimant(e)] EXCEPT ![d] = r]
    BY <1>2, <1>8
  <2>4. Lease!Cardinality(Lease!Lent) < MaxSessions  BY <1>10, SameCardinality
  <2>5. QED  BY <1>2, <1>8, <2>1, <2>2, <2>3, <2>4 DEF Lease!Lend
<1>12. QED  BY <1>2, <1>11 DEF Lease!Next

(***************************************************************************)
(* Whatever the numbers of requests, devices, locks and nodes: a device is   *)
(* lent to one request at a time, to each request at most once, and never    *)
(* beyond maxSessions (createSession, allocateDeviceForSession and every     *)
(* path of unblockDevice together).                                          *)
(***************************************************************************)
THEOREM Implementation == ASSUME Tame PROVE Spec => ImplementsLease
<1>1. Init => Lease!Init
  <2> SUFFICES ASSUME Init PROVE Lease!Init
    OBVIOUS
  <2>1. \A d \in Devices : Claimant(d) = None
    BY StoreAssumption DEF Init, Claimant, Claims, NewDoc
  <2>2. QED  BY <2>1 DEF Init, Lease!Init
<1>2. /\ IInv /\ Unserved /\ SessionCap
      /\ ExclusiveClaim /\ ExclusiveClaim'
      /\ [Next]_vars
      => [Lease!Next]_Lease!leaseVars
  <2> SUFFICES ASSUME IInv, Unserved, SessionCap, ExclusiveClaim,
                      ExclusiveClaim', [Next]_vars
               PROVE  [Lease!Next]_Lease!leaseVars
    OBVIOUS
  <2>1. ASSUME NEW r \in Requests, AllocateDevice(r) PROVE Lease!Next
    BY <2>1, AllocateLends
  <2>2. ASSUME held' = held, NEW d, Shrinks(d)
        PROVE  [Lease!Next]_Lease!leaseVars
    BY <2>2, ShrinkStep DEF Shrinks
  <2>3. CASE ReleaseBlockedDevices \/ UNCHANGED vars
    <3>1. UNCHANGED <<doc, pc, held>>
      BY <2>3 DEF ReleaseBlockedDevices, vars
    <3>2. Shrinks(None)  BY <3>1 DEF Shrinks, Claims
    <3>3. QED  BY <2>2, <3>1, <3>2
  <2>4. QED
    BY <2>1, <2>2, <2>3, RequestShrinks, DeviceShrinks, UnblockShrinks DEF Next
<1>3. QED
  BY <1>1, <1>2, IInvHolds, UnservedHolds, CapIsKept, ClaimsAreExclusive, PTL
  DEF Spec, ImplementsLease, Lease!Spec

=============================================================================
