----------------------- MODULE SessionRecords_proofs -----------------------
(***************************************************************************)
(* What the server keeps of a request agrees with the request: its entry    *)
(* among the pending sessions, its entry in the table of the proxy, its     *)
(* lock and its name in the document of its device.                         *)
(***************************************************************************)
EXTENDS DeviceAllocation_proofs

-----------------------------------------------------------------------------
(* The pending sessions and the proxied sessions *)

(***************************************************************************)
(* A request that has begun a release waits for it, so that what it does    *)
(* afterwards happens once, and only to a request whose entries are due.    *)
(***************************************************************************)
ReleaseAwaited ==
    \A u \in unblocks : u.by # None => pc[u.by] \in {"aborting", "releasing"}

\* The end of a release lets its request go on, and no other.
LEMMA ResumeMoves ==
    ASSUME TypeOK, ReleaseAwaited, NEW u \in unblocks, ResumeAfter(u)
    PROVE  \/ ~LastOf(u) /\ UNCHANGED <<pc, proxied>>
           \/ /\ LastOf(u) /\ u.by \in Requests
              /\ pc[u.by] \in {"aborting", "releasing"}
              /\ pc'[u.by] \in {"failed", "closed", "quitting"}
              /\ \A q \in Requests \ {u.by} : pc'[q] = pc[q]
              /\ proxied' = proxied \ {u.by}
<1>1. CASE LastOf(u)
  <2>1. u.by \in Requests /\ u.by # None  BY <1>1 DEF LastOf, TypeOK, Unblock
  <2>2. AfterUnblock(u.by) \in {"failed", "closed", "quitting"}  BY DEF AfterUnblock
  <2>3. QED  BY <1>1, <2>1, <2>2 DEF ResumeAfter, TypeOK, ReleaseAwaited
<1>2. CASE ~LastOf(u)  BY <1>2 DEF ResumeAfter
<1>3. QED  BY <1>1, <1>2

\* No step but its end leaves a release alone.
LEMMA AwaitedStep ==
    ASSUME TypeInv, ReleaseAwaited, [Next]_vars
    PROVE  ReleaseAwaited'
<1> USE DEF TypeInv, TypeOK, ReleaseAwaited
<1>1. ASSUME NEW r \in Requests, RequestStep(r) PROVE ReleaseAwaited'
  <2>1. CASE SessionFails(r) \/ DeleteSession(r) \/ ProxyDelete(r)
    <3>1. PICK S : \/ unblocks' = unblocks
                   \/ /\ unblocks' = unblocks \cup {[dev |-> d, by |-> r] : d \in S}
                      /\ S # {} => pc'[r] \in {"aborting", "releasing"}
      BY <2>1 DEF SessionFails, DeleteSession, ProxyDelete, BeginUnblock
    <3>2. /\ pc[r] \notin {"aborting", "releasing"}
          /\ \A q \in Requests \ {r} : pc'[q] = pc[q]
      BY <2>1 DEF SessionFails, DeleteSession, ProxyDelete
    <3>3. ASSUME NEW u \in unblocks, u.by # None
          PROVE  pc'[u.by] \in {"aborting", "releasing"}
      BY <3>2, <3>3 DEF Unblock
    <3>4. ASSUME NEW u \in unblocks', u \notin unblocks
          PROVE  pc'[u.by] \in {"aborting", "releasing"}
      BY <3>1, <3>4
    <3>5. QED  BY <3>3, <3>4
  <2>2. CASE /\ unblocks' = unblocks
             /\ \/ pc' = pc
                \/ /\ pc[r] \notin {"aborting", "releasing"}
                   /\ \A q \in Requests \ {r} : pc'[q] = pc[q]
    BY <2>2 DEF Unblock
  <2>3. QED
    BY <1>1, <2>1, <2>2
    DEF RequestStep, EnqueueRequest, AcquireLock, AllocateDevice, GiveUp,
        ConfigureDevice, ConfigureFails, FailInsideLock, SessionStarts, StartThrows,
        Command, QuitDriver, NodeReportsShutdown, ClientDisconnects,
        CleanPendingSession
<1>2. ASSUME NEW d \in Devices, DeviceStep(d) PROVE ReleaseAwaited'
  BY <1>2 DEF DeviceStep, CommandTimeout, UserBlocks, UserUnblocks, DeviceLost,
              DeviceFound
<1>3. ASSUME NEW u \in Unblock, UnblockStep(u) PROVE ReleaseAwaited'
  <2>1. u \in unblocks /\ unblocks' = unblocks \ {u} /\ ResumeAfter(u)
    BY <1>3 DEF UnblockStep, FinishUnblock, UnblockFails
  <2>2. ASSUME NEW v \in unblocks', v.by # None
        PROVE  pc'[v.by] \in {"aborting", "releasing"}
    <3>1. v \in unblocks /\ v # u /\ v.by \in Requests  BY <2>1, <2>2 DEF Unblock
    <3>2. LastOf(u) => v.by # u.by  BY <3>1 DEF LastOf
    <3>3. QED  BY <2>1, <2>2, <3>1, <3>2, ResumeMoves
  <2>3. QED  BY <2>2
<1>4. CASE ReleaseBlockedDevices
  <2>1. \A u \in unblocks' : u \in unblocks \/ u.by = None
    BY <1>4 DEF ReleaseBlockedDevices, BeginUnblock
  <2>2. pc' = pc  BY <1>4 DEF ReleaseBlockedDevices
  <2>3. QED  BY <2>1, <2>2
<1>5. CASE UNCHANGED vars  BY <1>5 DEF vars
<1>6. QED  BY <1>1, <1>2, <1>3, <1>4, <1>5 DEF Next

Waiting == {"queued", "polling", "configuring", "starting"}

\* Who leaves the wait for a session leaves the pending sessions.
LEMMA PendingStep ==
    ASSUME "start" \notin Environment, TypeInv, ReleaseAwaited, PendingIsLive,
           [Next]_vars
    PROVE  PendingIsLive'
<1> USE DEF TypeInv, TypeOK, PendingIsLive
<1>1. ASSUME NEW r \in Requests, RequestStep(r) PROVE PendingIsLive'
  <2>1. CASE \E c \in Waiting : pc' = [pc EXCEPT ![r] = c] /\ pending' \subseteq pending \cup {r}
    BY <2>1 DEF Waiting
  <2>2. CASE /\ \E c \in Control : pc' = [pc EXCEPT ![r] = c]
             /\ pending' = pending \ {r}
    BY <2>2
  <2>3. CASE /\ \E c \in Control : pc' = [pc EXCEPT ![r] = c]
             /\ pc[r] \notin Waiting /\ pending' = pending
    BY <2>3 DEF Waiting
  <2>4. CASE pc' = pc /\ pending' \subseteq pending
    BY <2>4
  <2>5. CASE EnqueueRequest(r) \/ AcquireLock(r) \/ AllocateDevice(r) \/ ConfigureDevice(r)
    BY <2>1, <2>5
    DEF EnqueueRequest, AcquireLock, AllocateDevice, ConfigureDevice, Waiting
  <2>6. CASE GiveUp(r) \/ ConfigureFails(r) \/ SessionStarts(r) \/ SessionFails(r)
    BY <2>2, <2>6
    DEF GiveUp, ConfigureFails, FailInsideLock, SessionStarts, SessionFails, Control
  <2>7. CASE DeleteSession(r) \/ QuitDriver(r) \/ ProxyDelete(r)
    BY <2>3, <2>7 DEF DeleteSession, QuitDriver, ProxyDelete, Control, Waiting
  <2>8. QED
    BY <1>1, <2>4, <2>5, <2>6, <2>7
    DEF RequestStep, StartThrows, Command, NodeReportsShutdown, ClientDisconnects,
        CleanPendingSession
<1>2. ASSUME NEW d \in Devices, DeviceStep(d) PROVE PendingIsLive'
  BY <1>2 DEF DeviceStep, CommandTimeout, UserBlocks, UserUnblocks, DeviceLost,
              DeviceFound
<1>3. ASSUME NEW u \in Unblock, UnblockStep(u) PROVE PendingIsLive'
  <2>1. u \in unblocks /\ ResumeAfter(u) /\ pending' = pending
    BY <1>3 DEF UnblockStep, FinishUnblock, UnblockFails
  <2>2. QED  BY <2>1, ResumeMoves
<1>4. CASE ReleaseBlockedDevices \/ UNCHANGED vars
  BY <1>4 DEF ReleaseBlockedDevices, vars
<1>5. QED  BY <1>1, <1>2, <1>3, <1>4 DEF Next

\* The invariant that the two tables share.
LEMMA AwaitedHolds == Spec => [](TypeInv /\ ReleaseAwaited)
<1>1. Spec => []TypeInv
  <2>1. TypeOK /\ HoldsDevice => TypeInv  BY DEF TypeInv
  <2>2. QED  BY <2>1, TypeCorrect, PTL
<1>2. Init => ReleaseAwaited  BY DEF Init, ReleaseAwaited
<1>3. QED  BY <1>1, <1>2, AwaitedStep, PTL DEF Spec

(***************************************************************************)
(* The queue of the dashboard lists only requests that still wait, unless    *)
(* createSession throws where nothing is undone.                             *)
(***************************************************************************)
THEOREM PendingSessionsAreLive ==
    ASSUME "start" \notin Environment PROVE Spec => []PendingIsLive
<1>1. Init => PendingIsLive  BY DEF Init, PendingIsLive
<1>2. QED  BY <1>1, AwaitedHolds, PendingStep, PTL DEF Spec

\* A request is in the proxy's table as long as its remote session is open.
LEMMA ProxyStep ==
    ASSUME TypeInv, ReleaseAwaited, ProxyMatchesSession, [Next]_vars
    PROVE  ProxyMatchesSession'
<1> DEFINE Open(q) == pc[q] \in {"active", "releasing"} /\ held[q] \in Remote
<1> USE DEF TypeInv, TypeOK, ProxyMatchesSession
<1>1. ASSUME NEW r \in Requests, RequestStep(r) PROVE ProxyMatchesSession'
  <2>1. ASSUME \A q \in Requests \ {r} :
                  /\ pc'[q] = pc[q] /\ held'[q] = held[q]
                  /\ q \in proxied' <=> q \in proxied,
               r \in proxied' <=> pc'[r] \in {"active", "releasing"} /\ held'[r] \in Remote
        PROVE  ProxyMatchesSession'
    BY <2>1
  <2>2. CASE /\ \E c \in Control \ {"active", "releasing"} : pc' = [pc EXCEPT ![r] = c]
             /\ \/ held' = held
                \/ \E d \in Devices : held' = [held EXCEPT ![r] = d]
             /\ proxied' = proxied
             /\ pc[r] \notin {"active", "releasing"}
    BY <2>1, <2>2
  <2>3. CASE EnqueueRequest(r) \/ AcquireLock(r) \/ GiveUp(r)
             \/ ConfigureDevice(r) \/ ConfigureFails(r) \/ SessionFails(r)
             \/ StartThrows(r) \/ QuitDriver(r)
    BY <2>2, <2>3
    DEF EnqueueRequest, AcquireLock, GiveUp, ConfigureDevice, ConfigureFails,
        FailInsideLock, SessionFails, StartThrows, QuitDriver, Control
  <2>4. CASE AllocateDevice(r)
    <3>1. PICK d \in Obtainable(doc, Wanted[r], r \in ByUdid) : held' = [held EXCEPT ![r] = d]
      BY <2>4 DEF AllocateDevice
    <3>2. d \in Devices  BY AllocationAssumption DEF Obtainable
    <3>3. QED  BY <2>2, <2>4, <3>1, <3>2 DEF AllocateDevice, Control
  <2>5. CASE SessionStarts(r)
    BY <2>1, <2>5 DEF SessionStarts
  <2>6. CASE DeleteSession(r)
    BY <2>1, <2>6 DEF DeleteSession
  <2>7. CASE ProxyDelete(r)
    BY <2>1, <2>7 DEF ProxyDelete
  <2>8. CASE UNCHANGED <<pc, held, proxied>>  BY <2>8
  <2>9. QED
    BY <1>1, <2>3, <2>4, <2>5, <2>6, <2>7, <2>8
    DEF RequestStep, Command, NodeReportsShutdown, ClientDisconnects,
        CleanPendingSession
<1>2. ASSUME NEW d \in Devices, DeviceStep(d) PROVE ProxyMatchesSession'
  BY <1>2 DEF DeviceStep, CommandTimeout, UserBlocks, UserUnblocks, DeviceLost,
              DeviceFound
<1>3. ASSUME NEW u \in Unblock, UnblockStep(u) PROVE ProxyMatchesSession'
  <2>1. u \in unblocks /\ ResumeAfter(u) /\ held' = held
    BY <1>3 DEF UnblockStep, FinishUnblock, UnblockFails
  <2>2. QED  BY <2>1, ResumeMoves
<1>4. CASE ReleaseBlockedDevices \/ UNCHANGED vars
  BY <1>4 DEF ReleaseBlockedDevices, vars
<1>5. QED  BY <1>1, <1>2, <1>3, <1>4 DEF Next

(***************************************************************************)
(* A remote session is proxied as long as it is open, in every environment:  *)
(* whether its device is lost, given away, or released twice.                *)
(***************************************************************************)
THEOREM ProxiedSessionsAreOpen == Spec => []ProxyMatchesSession
<1>1. Init => ProxyMatchesSession  BY DEF Init, ProxyMatchesSession
<1>2. QED  BY <1>1, AwaitedHolds, ProxyStep, PTL DEF Spec

-----------------------------------------------------------------------------
(* The locks and their queues *)

\* r has the place i in the sequence q, and no other.
OnlyAt(q, r, i) == i \in 1..Len(q) /\ \A j \in 1..Len(q) : q[j] = r <=> j = i
OnceIn(q, r) == \E i \in Nat : OnlyAt(q, r, i)

\* A place in a sequence stays when somebody else is added at the end.
LEMMA OnceAppended ==
    ASSUME NEW S, NEW q \in Seq(S), NEW r \in S, NEW s \in S
    PROVE  /\ s # r /\ OnceIn(q, s) => OnceIn(Append(q, r), s)
           /\ (\A i \in 1..Len(q) : q[i] # r) => OnceIn(Append(q, r), r)
<1>1. /\ Len(q) \in Nat
      /\ Len(Append(q, r)) = Len(q) + 1
      /\ Append(q, r)[Len(q) + 1] = r
      /\ \A i \in 1..Len(q) : Append(q, r)[i] = q[i]
  OBVIOUS
<1>2. ASSUME s # r, OnceIn(q, s) PROVE OnceIn(Append(q, r), s)
  <2>1. PICK i \in Nat : OnlyAt(q, s, i)  BY <1>2 DEF OnceIn
  <2>2. OnlyAt(Append(q, r), s, i)  BY <1>1, <1>2, <2>1 DEF OnlyAt
  <2>3. QED  BY <2>2 DEF OnceIn
<1>3. ASSUME \A i \in 1..Len(q) : q[i] # r PROVE OnceIn(Append(q, r), r)
  <2>1. OnlyAt(Append(q, r), r, Len(q) + 1)  BY <1>1, <1>3 DEF OnlyAt
  <2>2. Len(q) + 1 \in Nat  BY <1>1
  <2>3. QED  BY <2>1, <2>2 DEF OnceIn
<1>4. QED  BY <1>2, <1>3

\* The first leaves a sequence for good, the others stay.
LEMMA OnceBehind ==
    ASSUME NEW S, NEW q \in Seq(S), q # <<>>, OnceIn(q, Head(q))
    PROVE  /\ \A i \in 1..Len(Tail(q)) : /\ Tail(q)[i] # Head(q)
                                         /\ \E j \in 1..Len(q) : Tail(q)[i] = q[j]
           /\ \A s \in S : s # Head(q) /\ OnceIn(q, s) => OnceIn(Tail(q), s)
<1>1. /\ Len(q) \in Nat \ {0}
      /\ Len(Tail(q)) = Len(q) - 1
      /\ Head(q) = q[1]
      /\ \A i \in 1..(Len(q) - 1) : Tail(q)[i] = q[i + 1]
  OBVIOUS
<1>2. \A j \in 1..Len(q) : q[j] = Head(q) => j = 1
  <2>1. PICK i \in Nat : OnlyAt(q, Head(q), i)  BY DEF OnceIn
  <2>2. 1 \in 1..Len(q)  BY <1>1
  <2>3. i = 1  BY <1>1, <2>1, <2>2 DEF OnlyAt
  <2>4. QED  BY <2>1, <2>3 DEF OnlyAt
<1>3. ASSUME NEW i \in 1..Len(Tail(q))
      PROVE  /\ Tail(q)[i] # Head(q)
             /\ \E j \in 1..Len(q) : Tail(q)[i] = q[j]
  <2>1. i + 1 \in 1..Len(q) /\ i + 1 # 1 /\ Tail(q)[i] = q[i + 1]  BY <1>1
  <2>2. QED  BY <1>2, <2>1
<1>4. ASSUME NEW s \in S, s # Head(q), OnceIn(q, s) PROVE OnceIn(Tail(q), s)
  <2>1. PICK i \in Nat : OnlyAt(q, s, i)  BY <1>4 DEF OnceIn
  <2>2. i # 1  BY <1>1, <1>4, <2>1 DEF OnlyAt
  <2>3. i - 1 \in 1..(Len(q) - 1) /\ i - 1 \in Nat  BY <1>1, <2>1, <2>2 DEF OnlyAt
  <2>4. ASSUME NEW j \in 1..(Len(q) - 1) PROVE Tail(q)[j] = s <=> j = i - 1
    <3>1. j + 1 \in 1..Len(q) /\ Tail(q)[j] = q[j + 1]  BY <1>1
    <3>2. q[j + 1] = s <=> j + 1 = i  BY <2>1, <3>1 DEF OnlyAt
    <3>3. j + 1 = i <=> j = i - 1  BY <1>1
    <3>4. QED  BY <3>1, <3>2, <3>3
  <2>5. OnlyAt(Tail(q), s, i - 1)  BY <1>1, <2>3, <2>4 DEF OnlyAt
  <2>6. QED  BY <2>3, <2>5 DEF OnceIn
<1>5. QED  BY <1>3, <1>4

\* The place of a request in its queue.
LEMMA WaitsOnceIn ==
    ASSUME NEW r \in Requests
    PROVE  WaitsOnce(r) <=> OnceIn(queue[LockOf[r]], r)
BY DEF WaitsOnce, OnceIn, OnlyAt

InLock(r) == pc[r] \in {"polling", "configuring"}

\* The queues hold requests.
LEMMA QueuesHoldRequests ==
    ASSUME TypeOK, NEW l \in Locks
    PROVE  /\ queue[l] \in Seq(Requests)
           /\ \A i \in 1..Len(queue[l]) : queue[l][i] \in Requests
<1>1. queue[l] \in Seq(Requests)  BY DEF TypeOK
<1>2. QED  BY <1>1

\* A request that neither waits for a lock nor enters or leaves one.
LEMMA PassingLocks ==
    ASSUME TypeOK, LocksAreServed, NEW r \in Requests, UNCHANGED <<owner, queue>>,
           \A q \in Requests \ {r} : pc'[q] = pc[q],
           \/ pc'[r] = pc[r]
           \/ /\ pc[r] # "queued" /\ pc'[r] # "queued"
              /\ InLock(r)' <=> InLock(r)
    PROVE  LocksAreServed'
<1>1. \A q \in Requests : owner'[LockOf[q]] = q <=> InLock(q)'
  BY DEF LocksAreServed, InLock
<1>2. \A q \in Requests : pc'[q] = "queued" <=> pc[q] = "queued"
  OBVIOUS
<1>3. \A q \in Requests : pc'[q] = "queued" => WaitsOnce(q)'
  BY <1>2 DEF LocksAreServed, WaitsOnce
<1>4. ASSUME NEW l \in Locks, NEW i \in 1..Len(queue'[l])
      PROVE  LockOf[queue'[l][i]] = l /\ pc'[queue'[l][i]] = "queued"
  BY <1>2, <1>4, QueuesHoldRequests DEF LocksAreServed
<1>5. QED  BY <1>1, <1>3, <1>4 DEF LocksAreServed, InLock

\* The owner of a lock leaves it.
LEMMA LeavingLock ==
    ASSUME TypeOK, LocksAreServed, NEW r \in Requests, InLock(r),
           ReleaseLock(r), queue' = queue,
           NEW c \in {"starting", "failed"}, pc' = [pc EXCEPT ![r] = c]
    PROVE  LocksAreServed'
<1> DEFINE l == LockOf[r]
<1>1. /\ l \in Locks /\ owner[l] = r
      /\ owner'[l] = None
      /\ \A m \in Locks \ {l} : owner'[m] = owner[m]
  <2>1. l \in Locks  BY AllocationAssumption
  <2>2. owner[l] = r  BY DEF LocksAreServed, InLock
  <2>3. owner \in [Locks -> Requests \cup {None}]  BY DEF TypeOK
  <2>4. QED  BY <2>1, <2>2, <2>3 DEF ReleaseLock
<1>2. /\ pc'[r] = c /\ pc[r] # "queued"
      /\ \A q \in Requests \ {r} : pc'[q] = pc[q]
  BY DEF TypeOK, InLock
<1> HIDE DEF l
<1>3. ASSUME NEW q \in Requests PROVE owner'[LockOf[q]] = q <=> InLock(q)'
  <2>1. LockOf[q] \in Locks  BY AllocationAssumption
  <2>2. owner[LockOf[q]] = q <=> InLock(q)  BY DEF LocksAreServed, InLock
  <2>3. CASE q = r  BY <1>1, <1>2, <2>3, StoreAssumption DEF InLock, l
  <2>4. CASE q # r /\ LockOf[q] = l
    BY <1>1, <1>2, <2>2, <2>4, StoreAssumption DEF InLock
  <2>5. CASE q # r /\ LockOf[q] # l  BY <1>1, <1>2, <2>1, <2>2, <2>5 DEF InLock
  <2>6. QED  BY <2>3, <2>4, <2>5
<1>4. \A q \in Requests : pc'[q] = "queued" <=> pc[q] = "queued"
  BY <1>2
<1>5. \A q \in Requests : pc'[q] = "queued" => WaitsOnce(q)'
  <2>1. \A q \in Requests : WaitsOnce(q)' = WaitsOnce(q)  BY DEF WaitsOnce
  <2>2. \A q \in Requests : pc[q] = "queued" => WaitsOnce(q)  BY DEF LocksAreServed
  <2>3. QED  BY <1>4, <2>1, <2>2
<1>6. ASSUME NEW m \in Locks, NEW i \in 1..Len(queue'[m])
      PROVE  LockOf[queue'[m][i]] = m /\ pc'[queue'[m][i]] = "queued"
  BY <1>4, <1>6, QueuesHoldRequests DEF LocksAreServed
<1>7. \A m \in Locks : owner'[m] # None => LockOf[owner'[m]] = m
  BY <1>1 DEF LocksAreServed
<1>8. QED  BY <1>3, <1>5, <1>6, <1>7 DEF LocksAreServed, InLock

\* createSession queues for the lock of the request.
LEMMA EnqueueLocks ==
    ASSUME TypeOK, LocksAreServed, NEW r \in Requests, EnqueueRequest(r)
    PROVE  LocksAreServed'
<1> DEFINE l == LockOf[r]
<1>1. /\ l \in Locks /\ queue[l] \in Seq(Requests)
      /\ queue'[l] = Append(queue[l], r)
      /\ \A m \in Locks \ {l} : queue'[m] = queue[m]
      /\ owner' = owner
  BY AllocationAssumption DEF TypeOK, EnqueueRequest
<1>2. /\ pc[r] = "received" /\ pc'[r] = "queued"
      /\ \A q \in Requests \ {r} : pc'[q] = pc[q]
  BY DEF TypeOK, EnqueueRequest
<1> HIDE DEF l
<1>3. \A q \in Requests : owner'[LockOf[q]] = q <=> InLock(q)'
  BY <1>1, <1>2 DEF LocksAreServed, InLock
<1>4. \A i \in 1..Len(queue[l]) : queue[l][i] # r
  BY <1>1, <1>2 DEF LocksAreServed
<1>5. ASSUME NEW q \in Requests, pc'[q] = "queued" PROVE OnceIn(queue'[LockOf[q]], q)
  <2>1. LockOf[q] \in Locks  BY AllocationAssumption
  <2>2. CASE q = r
    <3>1. OnceIn(Append(queue[l], r), r)  BY <1>1, <1>4, OnceAppended
    <3>2. QED  BY <1>1, <2>2, <3>1 DEF l
  <2>3. CASE q # r
    <3>1. pc[q] = "queued"  BY <1>2, <1>5, <2>3
    <3>2. OnceIn(queue[LockOf[q]], q)  BY <3>1, WaitsOnceIn DEF LocksAreServed
    <3>3. CASE LockOf[q] = l
      <4>1. OnceIn(Append(queue[l], r), q)  BY <1>1, <2>3, <3>2, <3>3, OnceAppended
      <4>2. QED  BY <1>1, <3>3, <4>1
    <3>4. CASE LockOf[q] # l  BY <1>1, <2>1, <3>2, <3>4
    <3>5. QED  BY <3>3, <3>4
  <2>4. QED  BY <2>2, <2>3
<1>6. ASSUME NEW m \in Locks, NEW i \in 1..Len(queue'[m])
      PROVE  LockOf[queue'[m][i]] = m /\ pc'[queue'[m][i]] = "queued"
  <2>1. ASSUME NEW j \in 1..Len(queue[m])
        PROVE  LockOf[queue[m][j]] = m /\ pc'[queue[m][j]] = "queued"
    <3>1. queue[m][j] \in Requests  BY QueuesHoldRequests
    <3>2. LockOf[queue[m][j]] = m /\ pc[queue[m][j]] = "queued"  BY DEF LocksAreServed
    <3>3. QED  BY <1>2, <3>1, <3>2
  <2>2. CASE m # l  BY <1>1, <1>6, <2>1, <2>2
  <2>3. CASE m = l
    <3>1. \/ i \in 1..Len(queue[l]) /\ queue'[l][i] = queue[l][i]
          \/ queue'[l][i] = r
      BY <1>1, <1>6, <2>3
    <3>2. QED  BY <1>2, <2>1, <2>3, <3>1 DEF l
  <2>4. QED  BY <2>2, <2>3
<1>7. \A m \in Locks : owner'[m] # None => LockOf[owner'[m]] = m
  BY <1>1 DEF LocksAreServed
<1>8. \A q \in Requests : pc'[q] = "queued" => WaitsOnce(q)'
  BY <1>5 DEF WaitsOnce, OnceIn, OnlyAt
<1>9. QED  BY <1>3, <1>6, <1>7, <1>8 DEF LocksAreServed, InLock

\* A lock that is free is given to the first of its queue.
LEMMA AcquireLocks ==
    ASSUME TypeOK, LocksAreServed, NEW r \in Requests, AcquireLock(r)
    PROVE  LocksAreServed'
<1> DEFINE l == LockOf[r]
<1>1. /\ l \in Locks /\ queue[l] \in Seq(Requests)
      /\ queue[l] # <<>> /\ Head(queue[l]) = r
      /\ queue'[l] = Tail(queue[l])
      /\ \A m \in Locks \ {l} : queue'[m] = queue[m]
  BY AllocationAssumption DEF TypeOK, AcquireLock
<1>2. /\ owner[l] = None /\ owner'[l] = r
      /\ \A m \in Locks \ {l} : owner'[m] = owner[m]
  BY AllocationAssumption DEF TypeOK, AcquireLock
<1>3. /\ pc[r] = "queued" /\ pc'[r] = "polling"
      /\ \A q \in Requests \ {r} : pc'[q] = pc[q]
  BY DEF TypeOK, AcquireLock
<1>4. LockOf[r] = l  OBVIOUS
<1> HIDE DEF l
<1>5. ASSUME NEW q \in Requests PROVE owner'[LockOf[q]] = q <=> InLock(q)'
  <2>1. LockOf[q] \in Locks  BY AllocationAssumption
  <2>2. owner[LockOf[q]] = q <=> InLock(q)  BY DEF LocksAreServed, InLock
  <2>3. CASE q = r  BY <1>2, <1>3, <1>4, <2>3 DEF InLock
  <2>4. CASE q # r /\ LockOf[q] = l
    BY <1>2, <1>3, <2>2, <2>4, StoreAssumption DEF InLock
  <2>5. CASE q # r /\ LockOf[q] # l  BY <1>2, <1>3, <2>1, <2>2, <2>5 DEF InLock
  <2>6. QED  BY <2>3, <2>4, <2>5
<1>6. OnceIn(queue[l], Head(queue[l]))
  <2>1. WaitsOnce(r)  BY <1>3 DEF LocksAreServed
  <2>2. QED  BY <1>1, <1>4, <2>1, WaitsOnceIn
<1>7. /\ \A i \in 1..Len(Tail(queue[l])) :
           /\ Tail(queue[l])[i] # r
           /\ \E j \in 1..Len(queue[l]) : Tail(queue[l])[i] = queue[l][j]
      /\ \A q \in Requests : q # r /\ OnceIn(queue[l], q) => OnceIn(Tail(queue[l]), q)
  BY <1>1, <1>6, OnceBehind
<1>8. ASSUME NEW q \in Requests, pc'[q] = "queued" PROVE OnceIn(queue'[LockOf[q]], q)
  <2>1. q # r /\ pc[q] = "queued" /\ LockOf[q] \in Locks
    BY <1>3, <1>8, AllocationAssumption
  <2>2. OnceIn(queue[LockOf[q]], q)  BY <2>1, WaitsOnceIn DEF LocksAreServed
  <2>3. CASE LockOf[q] = l
    <3>1. OnceIn(Tail(queue[l]), q)  BY <1>7, <2>1, <2>2, <2>3
    <3>2. QED  BY <1>1, <2>3, <3>1
  <2>4. CASE LockOf[q] # l  BY <1>1, <2>1, <2>2, <2>4
  <2>5. QED  BY <2>3, <2>4
<1>9. ASSUME NEW m \in Locks, NEW i \in 1..Len(queue'[m])
      PROVE  LockOf[queue'[m][i]] = m /\ pc'[queue'[m][i]] = "queued"
  <2>1. ASSUME NEW j \in 1..Len(queue[m]), queue[m][j] # r
        PROVE  LockOf[queue[m][j]] = m /\ pc'[queue[m][j]] = "queued"
    <3>1. queue[m][j] \in Requests  BY QueuesHoldRequests
    <3>2. LockOf[queue[m][j]] = m /\ pc[queue[m][j]] = "queued"  BY DEF LocksAreServed
    <3>3. QED  BY <1>3, <2>1, <3>1, <3>2
  <2>2. CASE m = l
    <3>1. PICK j \in 1..Len(queue[l]) : Tail(queue[l])[i] = queue[l][j]
      BY <1>1, <1>7, <1>9, <2>2
    <3>2. Tail(queue[l])[i] # r  BY <1>1, <1>7, <1>9, <2>2
    <3>3. QED  BY <1>1, <2>1, <2>2, <3>1, <3>2
  <2>3. CASE m # l
    <3>1. queue'[m] = queue[m]  BY <1>1, <2>3
    <3>2. queue[m][i] # r
      <4>1. LockOf[queue[m][i]] = m  BY <1>9, <3>1 DEF LocksAreServed
      <4>2. QED  BY <1>4, <2>3, <4>1
    <3>3. QED  BY <1>9, <2>1, <3>1, <3>2
  <2>4. QED  BY <2>2, <2>3
<1>10. \A m \in Locks : owner'[m] # None => LockOf[owner'[m]] = m
  BY <1>2, <1>4 DEF LocksAreServed
<1>11. \A q \in Requests : pc'[q] = "queued" => WaitsOnce(q)'
  BY <1>8 DEF WaitsOnce, OnceIn, OnlyAt
<1>12. QED  BY <1>5, <1>9, <1>10, <1>11 DEF LocksAreServed, InLock

\* Every step leaves the locks served.
LEMMA LocksStep ==
    ASSUME TypeInv, ReleaseAwaited, LocksAreServed, [Next]_vars
    PROVE  LocksAreServed'
<1>1. TypeOK  BY DEF TypeInv
<1>2. ASSUME NEW r \in Requests, RequestStep(r) PROVE LocksAreServed'
  <2>1. CASE EnqueueRequest(r) \/ AcquireLock(r)
    BY <1>1, <2>1, EnqueueLocks, AcquireLocks
  <2>2. CASE GiveUp(r) \/ ConfigureFails(r) \/ ConfigureDevice(r)
    <3>1. InLock(r) /\ ReleaseLock(r) /\ queue' = queue
      BY <2>2 DEF GiveUp, ConfigureFails, ConfigureDevice, FailInsideLock, InLock
    <3>2. \E c \in {"starting", "failed"} : pc' = [pc EXCEPT ![r] = c]
      BY <2>2 DEF GiveUp, ConfigureFails, ConfigureDevice, FailInsideLock
    <3>3. QED  BY <1>1, <3>1, <3>2, LeavingLock
  <2>3. CASE ~(EnqueueRequest(r) \/ AcquireLock(r) \/ GiveUp(r) \/ ConfigureFails(r)
               \/ ConfigureDevice(r))
    <3>1. UNCHANGED <<owner, queue>>
      BY <1>2, <2>3
      DEF RequestStep, AllocateDevice, SessionStarts, SessionFails, StartThrows,
          Command, DeleteSession, QuitDriver, ProxyDelete, NodeReportsShutdown,
          ClientDisconnects, CleanPendingSession
    <3>2. \/ pc' = pc
          \/ pc[r] = "polling" /\ pc' = [pc EXCEPT ![r] = "configuring"]
          \/ /\ pc[r] \in {"starting", "active", "quitting"}
             /\ \E c \in {"active", "aborting", "failed", "quitting", "releasing", "closed"} :
                   pc' = [pc EXCEPT ![r] = c]
      BY <1>2, <2>3
      DEF RequestStep, AllocateDevice, SessionStarts, SessionFails, StartThrows,
          Command, DeleteSession, QuitDriver, ProxyDelete, NodeReportsShutdown,
          ClientDisconnects, CleanPendingSession
    <3>3. /\ \A q \in Requests \ {r} : pc'[q] = pc[q]
          /\ \/ pc'[r] = pc[r]
             \/ /\ pc[r] # "queued" /\ pc'[r] # "queued"
                /\ InLock(r)' <=> InLock(r)
      BY <1>1, <3>2 DEF TypeOK, InLock
    <3>4. QED  BY <1>1, <3>1, <3>3, PassingLocks
  <2>4. QED  BY <2>1, <2>2, <2>3
<1>3. ASSUME UNCHANGED <<pc, owner, queue>> PROVE LocksAreServed'
  BY <1>3 DEF LocksAreServed, WaitsOnce
<1>4. ASSUME NEW d \in Devices, DeviceStep(d) PROVE LocksAreServed'
  BY <1>3, <1>4 DEF DeviceStep, CommandTimeout, UserBlocks, UserUnblocks, DeviceLost,
                    DeviceFound
<1>5. ASSUME NEW u \in Unblock, UnblockStep(u) PROVE LocksAreServed'
  <2>1. u \in unblocks /\ ResumeAfter(u) /\ UNCHANGED <<owner, queue>>
    BY <1>5 DEF UnblockStep, FinishUnblock, UnblockFails
  <2>2. CASE pc' = pc  BY <1>3, <2>1, <2>2
  <2>3. CASE pc' # pc
    <3>1. /\ u.by \in Requests
          /\ pc[u.by] \in {"aborting", "releasing"}
          /\ pc'[u.by] \in {"failed", "closed", "quitting"}
          /\ \A q \in Requests \ {u.by} : pc'[q] = pc[q]
      BY <1>1, <2>1, <2>3, ResumeMoves
    <3>2. InLock(u.by)' <=> InLock(u.by)  BY <3>1 DEF InLock
    <3>3. QED  BY <1>1, <2>1, <3>1, <3>2, PassingLocks
  <2>4. QED  BY <2>2, <2>3
<1>6. CASE ReleaseBlockedDevices \/ UNCHANGED vars
  BY <1>3, <1>6 DEF ReleaseBlockedDevices, vars
<1>7. QED  BY <1>2, <1>4, <1>5, <1>6 DEF Next

(***************************************************************************)
(* No request waits for a lock that nobody gives on, whatever fails, times  *)
(* out or leaves, and two requests with one lock never allocate at a time.  *)
(***************************************************************************)
THEOREM LocksAreGivenOn == Spec => []LocksAreServed
<1>1. Init => LocksAreServed
  BY AllocationAssumption, StoreAssumption DEF Init, LocksAreServed
<1>2. QED  BY <1>1, AwaitedHolds, LocksStep, PTL DEF Spec

-----------------------------------------------------------------------------
(* The session in the document of a device *)

\* The release job waits for the file only of devices that are idle still.
IdleReleases ==
    \A u \in unblocks : u.by = None => doc[u.dev].lastCmd = "old"

\* Nobody touches the command time of a device while its release waits.
LEMMA WaitingReleaseKeepsTime ==
    ASSUME Tame, "late" \notin Environment, IInv, [Next]_vars,
           NEW u \in unblocks, u \in unblocks', doc[u.dev].lastCmd = "old"
    PROVE  doc'[u.dev].lastCmd = "old"
<1> DEFINE d == u.dev
<1>1. d \in Devices /\ doc[d].busy /\ doc \in [Devices -> Doc]
  BY DEF IInv, TypeInv, TypeOK, Unblock, UnblockOwner, Database
<1>2. CASE doc'[d] = doc[d]  BY <1>2
<1>3. ASSUME NEW r \in Requests, RequestStep(r) PROVE doc'[d].lastCmd = "old"
  <2>1. CASE AllocateDevice(r)
    <3>1. PICK e \in Obtainable(doc, Wanted[r], r \in ByUdid) : doc' = BlockDevice(doc, e)
      BY <2>1 DEF AllocateDevice
    <3>2. e \in Devices /\ e # d
      BY <1>1, <3>1, ObtainableIsFree DEF IInv, TypeInv
    <3>3. QED  BY <1>1, <1>2, <3>1, <3>2 DEF BlockDevice
  <2>2. CASE SessionStarts(r)
    <3>1. held[r] \in Devices /\ doc[held[r]].lastCmd = "none"
      BY <2>2 DEF SessionStarts, IInv, TypeInv, HoldsDevice, SetupDevice, Setup
    <3>2. QED  BY <1>1, <1>2, <2>2, <3>1 DEF SessionStarts, AssignSession
  <2>3. CASE Command(r) \/ ProxyDelete(r)
    <3>1. doc' = UpdateCmdExecutedTime(doc, r)
      BY <2>3 DEF Command, ProxyDelete
    <3>2. \A e, f \in MatchingSession(doc, r) : e = f
      BY DEF MatchingSession, IInv, SessionDevice
    <3>3. d \notin MatchingSession(doc, r)
      BY <2>3, <3>2 DEF Command, ProxyDelete, MayUnblock, Tame
    <3>4. QED  BY <1>1, <1>2, <3>1, <3>3 DEF UpdateCmdExecutedTime
  <2>4. CASE NodeReportsShutdown(r)
    <3>1. PICK e \in MatchingSession(doc, r) : doc' = UserUnblockDevice(doc, e)
      BY <2>4 DEF NodeReportsShutdown
    <3>2. QED  BY <1>1, <3>1 DEF UserUnblockDevice, MatchingSession, Doc
  <2>5. CASE doc' = doc  BY <2>5
  <2>6. QED
    BY <1>3, <2>1, <2>2, <2>3, <2>4, <2>5
    DEF RequestStep, EnqueueRequest, AcquireLock, GiveUp, ConfigureDevice,
        ConfigureFails, SessionFails, StartThrows, DeleteSession, QuitDriver,
        ClientDisconnects, CleanPendingSession
<1>4. ASSUME NEW e \in Devices, DeviceStep(e) PROVE doc'[d].lastCmd = "old"
  <2>1. CASE CommandTimeout(e)  BY <1>1, <2>1 DEF CommandTimeout, Doc
  <2>2. CASE UserBlocks(e)  BY <1>1, <2>2 DEF UserBlocks, UserBlockDevice, Doc
  <2>3. QED
    BY <1>4, <2>1, <2>2 DEF DeviceStep, Tame, UserUnblocks, DeviceLost, DeviceFound
<1>5. ASSUME NEW v \in Unblock, UnblockStep(v) PROVE doc'[d].lastCmd = "old"
  <2>1. /\ v \in unblocks /\ unblocks' = unblocks \ {v}
        /\ doc' = doc \/ doc' = UnblockDevice(doc, v.dev)
    BY <1>5 DEF UnblockStep, FinishUnblock, UnblockFails
  <2>2. v.dev # d  BY <2>1 DEF IInv, UnblockApart
  <2>3. QED  BY <1>1, <1>2, <2>1, <2>2 DEF UnblockDevice
<1>6. CASE ReleaseBlockedDevices \/ UNCHANGED vars
  BY <1>6 DEF ReleaseBlockedDevices, vars
<1>7. QED  BY <1>3, <1>4, <1>5, <1>6 DEF Next

\* A release of the job that begins finds its device idle.
LEMMA IdleStep ==
    ASSUME Tame, "late" \notin Environment, IInv, IdleReleases, [Next]_vars
    PROVE  IdleReleases'
<1> SUFFICES ASSUME NEW u \in unblocks', u.by = None
             PROVE  doc'[u.dev].lastCmd = "old"
  BY DEF IdleReleases
<1>1. CASE u \in unblocks
  BY <1>1, WaitingReleaseKeepsTime DEF IdleReleases
<1>2. CASE u \notin unblocks
  <2>1. \A r \in Requests : ~RequestStep(r)
    BY <1>2, StoreAssumption
    DEF RequestStep, EnqueueRequest, AcquireLock, AllocateDevice, GiveUp,
        ConfigureDevice, ConfigureFails, SessionStarts, SessionFails, StartThrows,
        Command, DeleteSession, QuitDriver, ProxyDelete, NodeReportsShutdown,
        ClientDisconnects, CleanPendingSession, BeginUnblock
  <2>2. \A d \in Devices : ~DeviceStep(d)
    BY <1>2 DEF DeviceStep, CommandTimeout, UserBlocks, UserUnblocks, DeviceLost,
                DeviceFound
  <2>3. \A v \in Unblock : ~UnblockStep(v)
    BY <1>2 DEF UnblockStep, FinishUnblock, UnblockFails
  <2>4. ReleaseBlockedDevices
    BY <1>2, <2>1, <2>2, <2>3 DEF Next, vars
  <2>5. u.dev \in IdleDevices(doc) /\ doc' = doc
    BY <1>2, <2>4 DEF ReleaseBlockedDevices, BeginUnblock
  <2>6. QED  BY <2>5 DEF IdleDevices
<1>3. QED  BY <1>1, <1>2

\* A release of the job, or the node's word, is the only way a session that
\* is in use loses its device.
LEMMA TakenStep ==
    ASSUME Tame, IInv, IdleReleases, [Next]_vars, NEW d \in Devices, NEW r \in Requests,
           doc[d].session = r, pc[r] = "active", doc'[d].session # r
    PROVE  doc[d].lastCmd = "old" \/ NodeReportsShutdown(r)
<1>1. r # None /\ doc \in [Devices -> Doc]
  BY StoreAssumption DEF IInv, TypeInv, TypeOK, Database
<1>2. ASSUME NEW q \in Requests, RequestStep(q) PROVE NodeReportsShutdown(r)
  <2>1. CASE AllocateDevice(q)
    <3>1. PICK e \in Obtainable(doc, Wanted[q], q \in ByUdid) : doc' = BlockDevice(doc, e)
      BY <2>1 DEF AllocateDevice
    <3>2. e \in Devices  BY <3>1, ObtainableIsFree DEF IInv, TypeInv
    <3>3. doc'[d].session = doc[d].session  BY <1>1, <3>1, <3>2 DEF BlockDevice, Doc
    <3>4. QED  BY <3>3
  <2>2. CASE SessionStarts(q)
    <3>1. held[q] \in Devices /\ doc[held[q]].session = None
      BY <2>2 DEF SessionStarts, IInv, TypeInv, HoldsDevice, SetupDevice, Setup
    <3>2. doc'[d] = doc[d]
      BY <1>1, <2>2, <3>1 DEF SessionStarts, AssignSession
    <3>3. QED  BY <3>2
  <2>3. CASE Command(q) \/ ProxyDelete(q)
    BY <2>3, StampChanges DEF Command, ProxyDelete, IInv, TypeInv
  <2>4. CASE NodeReportsShutdown(q)
    <3>1. PICK e \in MatchingSession(doc, q) : doc' = UserUnblockDevice(doc, e)
      BY <2>4 DEF NodeReportsShutdown
    <3>2. e = d  BY <1>1, <3>1 DEF UserUnblockDevice, MatchingSession
    <3>3. q = r  BY <3>1, <3>2 DEF MatchingSession
    <3>4. QED  BY <2>4, <3>3
  <2>5. CASE doc' = doc  BY <2>5
  <2>6. QED
    BY <1>2, <2>1, <2>2, <2>3, <2>4, <2>5
    DEF RequestStep, EnqueueRequest, AcquireLock, GiveUp, ConfigureDevice,
        ConfigureFails, SessionFails, StartThrows, DeleteSession, QuitDriver,
        ClientDisconnects, CleanPendingSession
<1>3. ASSUME NEW e \in Devices, DeviceStep(e) PROVE FALSE
  <2>1. CASE CommandTimeout(e)  BY <1>1, <2>1 DEF CommandTimeout, Doc
  <2>2. CASE UserBlocks(e)  BY <1>1, <2>2 DEF UserBlocks, UserBlockDevice, Doc
  <2>3. QED
    BY <1>3, <2>1, <2>2 DEF DeviceStep, Tame, UserUnblocks, DeviceLost, DeviceFound
<1>4. ASSUME NEW u \in Unblock, UnblockStep(u) PROVE doc[d].lastCmd = "old"
  <2>1. /\ u \in unblocks
        /\ doc' = doc \/ doc' = UnblockDevice(doc, u.dev)
    BY <1>4 DEF UnblockStep, FinishUnblock, UnblockFails
  <2>2. u.dev = d  BY <1>1, <2>1 DEF UnblockDevice
  <2>3. ~(u.by # None /\ pc[u.by] = "aborting" /\ held[u.by] = d)
    BY <1>1 DEF IInv, SetupDevice, Setup, Unblock
  <2>4. u.by = None  BY <2>1, <2>2, <2>3 DEF IInv, UnblockOwner
  <2>5. QED  BY <2>1, <2>2, <2>4 DEF IdleReleases
<1>5. CASE ReleaseBlockedDevices \/ UNCHANGED vars
  BY <1>5 DEF ReleaseBlockedDevices, vars
<1>6. QED  BY <1>2, <1>3, <1>4, <1>5 DEF Next

(***************************************************************************)
(* docs/server-args.md, the new command timeout: a session that nobody ends  *)
(* keeps its device until it is idle, if no command arrives while its device *)
(* is already being released.                                                *)
(***************************************************************************)
THEOREM SessionsKeepDevices ==
    ASSUME Tame, "late" \notin Environment PROVE Spec => DeviceTakenOnlyWhenIdle
<1> DEFINE Taken == \A d \in Devices : \A r \in Requests :
                       /\ doc[d].session = r
                       /\ pc[r] = "active"
                       /\ doc'[d].session # r
                       => doc[d].lastCmd = "old" \/ NodeReportsShutdown(r)
<1>1. Spec => []IInv  BY IInvHolds
<1>2. Init => IdleReleases  BY DEF Init, IdleReleases
<1>3. Spec => []IdleReleases
  <2>1. IInv /\ IdleReleases /\ [Next]_vars => IdleReleases'  BY IdleStep
  <2>2. QED  BY <1>1, <1>2, <2>1, PTL DEF Spec
<1>4. IInv /\ IdleReleases /\ [Next]_vars => [Taken]_vars  BY TakenStep
<1>5. Spec => [][Taken]_vars  BY <1>1, <1>3, <1>4, PTL DEF Spec
<1>6. QED  BY <1>5 DEF DeviceTakenOnlyWhenIdle

=============================================================================
