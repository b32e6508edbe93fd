----------------------- MODULE IosConnections_proofs -----------------------
(***************************************************************************)
(* Type correctness of IosConnections, that the cache of the factory and    *)
(* the listeners agree, and, as long as no device is taken during the       *)
(* deletion of its last session, that deleted sessions leave no listener    *)
(* and that nobody closes the listener of a session that has its device.    *)
(***************************************************************************)
EXTENDS IosConnections, TLAPS

\* The sessions that have got a device know it, and its port from the probe on.
Equipped ==
    \A s \in Sessions :
        /\ pc[s] # "new" => dev[s] \in Devices
        /\ pc[s] \in {"probing", "waiting", "binding", "listening"} => port[s] \in Ports

TypeInv == TypeOK /\ Equipped

(***************************************************************************)
(* What the handlers write into a document leaves it a document.            *)
(***************************************************************************)
LEMMA DocTypes ==
  ASSUME NEW r \in Doc
  PROVE  /\ [r EXCEPT !.busy = TRUE] \in Doc
         /\ \A p \in Ports \cup {None} : [r EXCEPT !.port = p] \in Doc
         /\ \A s \in Sessions : [r EXCEPT !.busy = TRUE, !.session = s] \in Doc
         /\ Free(r) \in Doc
BY DEF Doc, Free

(***************************************************************************)
(* Every step keeps the types: sessions pass through the stages of          *)
(* createSession and deleteSession, and only sessions listen and are        *)
(* cached.                                                                  *)
(***************************************************************************)
LEMMA TypeStep == TypeInv /\ [Next]_vars => TypeInv'
<1> SUFFICES ASSUME TypeInv, [Next]_vars
             PROVE  TypeInv'
  OBVIOUS
<1> USE ConnectionsAssumption
    DEF TypeInv, Equipped, TypeOK, Stages, SettingUp, Ending, Goes
<1>1. ASSUME NEW s \in Sessions, NEW d \in Devices, AllocateDevice(s, d)
      PROVE  TypeInv'
  BY <1>1, DocTypes DEF AllocateDevice
<1>2. ASSUME NEW s \in Sessions, ChoosePort(s)
      PROVE  TypeInv'
  <2>1. PICK p \in Ports \cup {None} : doc' = [doc EXCEPT ![dev[s]].port = p]
    BY <1>2 DEF ChoosePort, Offered
  <2>2. doc' \in [Devices -> Doc]
    BY <2>1, DocTypes
  <2> QED
    BY <1>2, <2>2 DEF ChoosePort
<1>3. ASSUME NEW s \in Sessions, RequestConnection(s)
      PROVE  TypeInv'
  BY <1>3 DEF RequestConnection, CachedOn, Doc
<1>4. ASSUME NEW s \in Sessions, ProbeFindsNobody(s)
      PROVE  TypeInv'
  BY <1>4 DEF ProbeFindsNobody
<1>5. ASSUME NEW s \in Sessions, ProbeFindsCached(s)
      PROVE  TypeInv'
  BY <1>5 DEF ProbeFindsCached, CloseConnections, Stopped
<1>6. ASSUME NEW s \in Sessions, ProbeFindsOther(s)
      PROVE  TypeInv'
  BY <1>6 DEF ProbeFindsOther
<1>7. ASSUME NEW s \in Sessions, PortIsReleased(s) \/ WaitTimesOut(s)
      PROVE  TypeInv'
  BY <1>7 DEF PortIsReleased, WaitTimesOut
<1>8. ASSUME NEW s \in Sessions, Listen(s)
      PROVE  TypeInv'
  BY <1>8 DEF Listen
<1>9. ASSUME NEW s \in Sessions, CacheConnection(s)
      PROVE  TypeInv'
  BY <1>9 DEF CacheConnection, Keys
<1>10. ASSUME NEW s \in Sessions, DriverStarts(s)
      PROVE  TypeInv'
  <2>1. doc' \in [Devices -> Doc]
    BY <1>10, DocTypes DEF DriverStarts
  <2> QED
    BY <1>10, <2>1 DEF DriverStarts
<1>11. ASSUME NEW s \in Sessions, DriverFails(s)
      PROVE  TypeInv'
  BY <1>11, DocTypes DEF DriverFails
<1>12. ASSUME NEW s \in Sessions, DriverDies(s)
      PROVE  TypeInv'
  <2>1. doc' \in [Devices -> Doc]
    BY <1>12, DocTypes DEF DriverDies
  <2> QED
    BY <1>12, <2>1 DEF DriverDies
<1>13. ASSUME NEW d \in Devices, ReleaseIdleDevice(d)
      PROVE  TypeInv'
  BY <1>13, DocTypes DEF ReleaseIdleDevice
<1>14. ASSUME NEW s \in Sessions, DeleteSession(s)
      PROVE  TypeInv'
  BY <1>14 DEF DeleteSession
<1>15. ASSUME NEW s \in Sessions, UnblockDevice(s)
      PROVE  TypeInv'
  BY <1>15, DocTypes DEF UnblockDevice
<1>16. ASSUME NEW s \in Sessions, DriverQuits(s)
      PROVE  TypeInv'
  BY <1>16 DEF DriverQuits, Doc
<1>17. ASSUME NEW s \in Sessions, ReleaseConnection(s)
      PROVE  TypeInv'
  BY <1>17 DEF ReleaseConnection, CloseConnections, Stopped
<1>18. ASSUME NEW p \in Ports, ProgramListens(p) \/ ProgramCloses(p)
      PROVE  TypeInv'
  BY <1>18 DEF ProgramListens, ProgramCloses
<1>19. CASE UNCHANGED vars
  BY <1>19 DEF vars
<1> QED
  BY <1>1, <1>2, <1>3, <1>4, <1>5, <1>6, <1>7, <1>8, <1>9, <1>10, <1>11, <1>12,
     <1>13, <1>14, <1>15, <1>16, <1>17, <1>18, <1>19
     DEF Next, CreateStep, DeleteStep

(***************************************************************************)
(* The variables always have the types the module declares for them.        *)
(***************************************************************************)
THEOREM ConnectionsTypeCorrect == Spec => []TypeOK
<1>1. Init => TypeInv
  BY ConnectionsAssumption DEF Init, TypeInv, TypeOK, Equipped, Doc, Keys, Stages
<1> QED
  BY <1>1, TypeStep, PTL DEF Spec, TypeInv

-----------------------------------------------------------------------------
\* The stages before a session listens.
Early == {"new", "choosing"} \cup SettingUp

(***************************************************************************)
(* Why the cache matches: a session listens on its own port only, from its  *)
(* "listening" on, and what is cached of it, later, names its device, so    *)
(* that a listener has one key at most.                                     *)
(***************************************************************************)
Owned ==
    /\ \A p \in Ports : holder[p] \in Sessions =>
          /\ pc[holder[p]] \notin Early
          /\ pc[holder[p]] = "listening" => port[holder[p]] = p
    /\ \A s \in Sessions : pc[s] = "listening" => holder[port[s]] = s
    /\ \A k \in Keys : mapping[k] # None =>
          /\ pc[mapping[k]] # "listening"
          /\ k[1] = dev[mapping[k]]

CacheInv == TypeInv /\ CacheMatchesListeners /\ Owned

(***************************************************************************)
(* Closing connections that are cached keeps cache and listeners in step:   *)
(* nobody listens on their ports any more, and no other key is of theirs.   *)
(***************************************************************************)
LEMMA CloseKeeps ==
  ASSUME CacheInv, NEW keys \in SUBSET Keys, \A k \in keys : mapping[k] # None,
         CloseConnections(keys)
  PROVE  /\ \A p \in Ports : holder'[p] = holder[p] \/ holder'[p] = None
         /\ \A p \in Ports : holder[p] \in Sessions /\ pc[holder[p]] = "listening" =>
                               holder'[p] = holder[p]
         /\ \A k \in Keys : mapping'[k] # None =>
               mapping'[k] = mapping[k] /\ holder'[k[2]] = mapping[k]
         /\ \A p \in Ports : holder'[p] \in Sessions =>
               \/ \E d \in Devices : mapping'[<<d, p>>] = holder'[p]
               \/ pc[holder'[p]] = "listening"
<1>1. /\ mapping \in [Keys -> Sessions \cup {None}]
      /\ holder \in [Ports -> Sessions \cup {None, Other}]
      /\ \A p \in Ports : holder'[p] =
            IF \E k \in keys : k[2] = p /\ mapping[k] = holder[p] THEN None ELSE holder[p]
      /\ \A k \in Keys : mapping'[k] = IF k \in keys THEN None ELSE mapping[k]
  BY DEF CacheInv, TypeInv, TypeOK, CloseConnections, Stopped
<1>2. \A k \in Keys : mapping[k] # None => holder[k[2]] = mapping[k]
  BY DEF CacheInv, CacheMatchesListeners
<1>3. \A p \in Ports : holder'[p] = holder[p] \/ holder'[p] = None
  BY <1>1
<1>4. ASSUME NEW p \in Ports, holder[p] \in Sessions, pc[holder[p]] = "listening"
      PROVE  holder'[p] = holder[p]
  BY <1>1, <1>4 DEF CacheInv, Owned
<1>5. ASSUME NEW k \in Keys, mapping'[k] # None
      PROVE  mapping'[k] = mapping[k] /\ holder'[k[2]] = mapping[k]
  <2>1. k \notin keys /\ mapping'[k] = mapping[k] /\ holder[k[2]] = mapping[k]
    BY <1>1, <1>2, <1>5
  <2>2. ASSUME NEW l \in keys, l[2] = k[2], mapping[l] = holder[k[2]]
        PROVE  FALSE
    <3>1. l[1] = dev[mapping[l]] /\ k[1] = dev[mapping[k]]
      BY <1>5, <2>1 DEF CacheInv, Owned
    <3>2. l = k
      BY <2>1, <2>2, <3>1 DEF Keys
    <3> QED
      BY <2>1, <3>2
  <2> QED
    BY <1>1, <2>1, <2>2 DEF Keys
<1>6. ASSUME NEW p \in Ports, holder'[p] \in Sessions
      PROVE  \/ \E d \in Devices : mapping'[<<d, p>>] = holder'[p]
             \/ pc[holder'[p]] = "listening"
  <2>1. holder'[p] = holder[p]
    BY <1>3, <1>6, ConnectionsAssumption
  <2>2. \/ \E d \in Devices : mapping[<<d, p>>] = holder[p]
        \/ pc[holder[p]] = "listening"
    BY <1>6, <2>1 DEF CacheInv, CacheMatchesListeners
  <2>3. ASSUME NEW d \in Devices, mapping[<<d, p>>] = holder[p]
        PROVE  mapping'[<<d, p>>] = holder'[p]
    <3>1. <<d, p>> \in Keys /\ <<d, p>>[2] = p
      BY DEF Keys
    <3>2. <<d, p>> \notin keys
      BY <1>1, <1>6, <2>1, <2>3, <3>1, ConnectionsAssumption
    <3> QED
      BY <1>1, <2>1, <2>3, <3>1, <3>2
  <2> QED
    BY <2>1, <2>2, <2>3
<1> QED
  BY <1>3, <1>4, <1>5, <1>6

(***************************************************************************)
(* A session that moves on, before or after it listens, while nobody's      *)
(* listener and no cached connection changes.                               *)
(***************************************************************************)
LEMMA MovesOn ==
  ASSUME CacheInv, TypeInv', UNCHANGED <<mapping, holder>>, NEW s \in Sessions,
         pc[s] = "listening" => pc'[s] = pc[s] /\ port'[s] = port[s],
         pc[s] \in Early \/ pc'[s] \notin Early,
         pc'[s] = "listening" => pc[s] = "listening",
         \A t \in Sessions \ {s} : pc'[t] = pc[t] /\ port'[t] = port[t],
         \A t \in Sessions : pc[t] # "new" => dev'[t] = dev[t]
  PROVE  CacheInv'
<1>1. /\ mapping \in [Keys -> Sessions \cup {None}]
      /\ holder \in [Ports -> Sessions \cup {None, Other}]
      /\ \A t \in Sessions : pc[t] \notin Early => dev'[t] = dev[t]
  BY DEF CacheInv, TypeInv, TypeOK, Early
<1>2. /\ \A k \in Keys : mapping[k] # None => holder[k[2]] = mapping[k] /\ k[2] \in Ports
      /\ \A p \in Ports : holder[p] \in Sessions =>
            \/ \E d \in Devices : mapping[<<d, p>>] = holder[p]
            \/ pc[holder[p]] = "listening"
  BY DEF CacheInv, CacheMatchesListeners, Keys
<1>3. \A t \in Sessions : pc[t] = "listening" => pc'[t] = "listening" /\ port'[t] = port[t]
  OBVIOUS
<1>4. CacheMatchesListeners'
  BY <1>1, <1>2, <1>3 DEF CacheMatchesListeners
<1>5. Owned'
  BY <1>1, <1>2, <1>3 DEF CacheInv, Owned
<1> QED
  BY <1>4, <1>5 DEF CacheInv

(***************************************************************************)
(* Every step keeps the cache and the listeners in agreement.               *)
(***************************************************************************)
LEMMA CacheStep == CacheInv /\ [Next]_vars => CacheInv'
<1> SUFFICES ASSUME CacheInv, [Next]_vars
             PROVE  CacheInv'
  OBVIOUS
<1>1. TypeOK /\ TypeInv'
  BY TypeStep DEF CacheInv, TypeInv
<1>2. ASSUME NEW s \in Sessions, NEW d \in Devices, AllocateDevice(s, d)
      PROVE  CacheInv'
  BY <1>1, <1>2, MovesOn DEF AllocateDevice, TypeOK, Goes, Early, SettingUp
<1>3. ASSUME NEW s \in Sessions,
             \/ ChoosePort(s) \/ RequestConnection(s) \/ ProbeFindsNobody(s)
             \/ ProbeFindsOther(s) \/ PortIsReleased(s) \/ WaitTimesOut(s)
      PROVE  CacheInv'
  BY <1>1, <1>3, MovesOn DEF ChoosePort, RequestConnection, ProbeFindsNobody,
     ProbeFindsOther, PortIsReleased, WaitTimesOut, TypeOK, Goes, Early, SettingUp
<1>4. ASSUME NEW s \in Sessions,
             \/ DriverStarts(s) \/ DriverFails(s) \/ DriverDies(s)
             \/ DeleteSession(s) \/ UnblockDevice(s) \/ DriverQuits(s)
      PROVE  CacheInv'
  BY <1>1, <1>4, MovesOn DEF DriverStarts, DriverFails, DriverDies, DeleteSession,
     UnblockDevice, DriverQuits, TypeOK, Goes, Early, SettingUp
<1>5. ASSUME NEW s \in Sessions, NEW keys \in SUBSET Keys, CloseConnections(keys),
             \A k \in keys : mapping[k] # None, UNCHANGED <<dev, port>>,
             \/ Goes(s, "probing", "waiting")
             \/ Goes(s, "releasing", "closed")
      PROVE  CacheInv'
  <2>1. \A t \in Sessions : /\ pc'[t] = "listening" <=> pc[t] = "listening"
                            /\ pc'[t] \in Early <=> pc[t] \in Early
    BY <1>1, <1>5 DEF Goes, TypeOK, Early, SettingUp
  <2>2. /\ mapping \in [Keys -> Sessions \cup {None}]
        /\ holder \in [Ports -> Sessions \cup {None, Other}]
        /\ holder' \in [Ports -> Sessions \cup {None, Other}]
    BY <1>1 DEF TypeInv, TypeOK
  <2>3. CacheMatchesListeners'
    BY <1>5, <2>1, <2>2, CloseKeeps DEF CacheMatchesListeners
  <2>4. \A t \in Sessions : pc[t] = "listening" => port[t] \in Ports
    BY DEF CacheInv, TypeInv, Equipped
  <2>5. Owned'
    BY <1>5, <2>1, <2>2, <2>4, CloseKeeps, ConnectionsAssumption DEF CacheInv, Owned
  <2> QED
    BY <1>1, <2>3, <2>5 DEF CacheInv
<1>6. ASSUME NEW s \in Sessions, ProbeFindsCached(s)
      PROVE  CacheInv'
  <2>1. {k \in found[s] : mapping[k] # None} \in SUBSET Keys
    BY <1>1 DEF TypeOK
  <2> QED
    BY <1>5, <1>6, <2>1 DEF ProbeFindsCached
<1>7. ASSUME NEW s \in Sessions, ReleaseConnection(s)
      PROVE  CacheInv'
  BY <1>5, <1>7 DEF ReleaseConnection, Releasable
<1>8. ASSUME NEW s \in Sessions, Listen(s)
      PROVE  CacheInv'
  <2>1. CASE holder[port[s]] = None
    <3>1. /\ port[s] \in Ports /\ pc[s] = "binding"
          /\ pc' = [pc EXCEPT ![s] = "listening"]
          /\ holder' = [holder EXCEPT ![port[s]] = s]
          /\ UNCHANGED <<dev, port, mapping>>
      BY <1>8, <2>1 DEF Listen, Goes, CacheInv, TypeInv, Equipped
    <3>2. /\ \A p \in Ports : holder[p] # s
          /\ \A k \in Keys : mapping[k] # s /\ k[2] \in Ports
          /\ \A k \in Keys : mapping[k] # None => k[2] # port[s]
      BY <2>1, <3>1 DEF CacheInv, Owned, CacheMatchesListeners, Early, SettingUp, Keys
    <3>3. CacheMatchesListeners'
      BY <1>1, <3>1, <3>2 DEF CacheInv, CacheMatchesListeners, TypeOK
    <3>4. \A t \in Sessions \ {s} :
             /\ pc'[t] = pc[t]
             /\ pc[t] = "listening" => port[t] # port[s] /\ holder[port[t]] = t /\ port[t] \in Ports
      BY <1>1, <2>1, <3>1, ConnectionsAssumption DEF CacheInv, Owned, TypeOK, TypeInv, Equipped
    <3>5. pc'[s] = "listening" /\ holder'[port[s]] = s
      BY <1>1, <3>1 DEF TypeOK
    <3>6. \A p \in Ports \ {port[s]} : holder'[p] = holder[p]
      BY <1>1, <3>1 DEF TypeOK
    <3>7. \A p \in Ports : holder'[p] \in Sessions =>
            /\ pc'[holder'[p]] \notin Early
            /\ pc'[holder'[p]] = "listening" => port[holder'[p]] = p
      BY <3>2, <3>4, <3>5, <3>6 DEF CacheInv, Owned, Early, SettingUp
    <3>8. \A t \in Sessions : pc'[t] = "listening" => holder'[port[t]] = t
      BY <3>4, <3>5, <3>6
    <3>9. \A k \in Keys : mapping[k] # None =>
            /\ pc'[mapping[k]] # "listening"
            /\ k[1] = dev[mapping[k]]
      BY <1>1, <3>2, <3>4 DEF CacheInv, Owned, TypeOK
    <3>10. Owned'
      BY <3>1, <3>7, <3>8, <3>9 DEF Owned
    <3> QED
      BY <1>1, <3>3, <3>10 DEF CacheInv
  <2>2. CASE holder[port[s]] # None
    BY <1>1, <1>8, <2>2, MovesOn DEF Listen, TypeOK, Goes, Early, SettingUp
  <2> QED
    BY <2>1, <2>2
<1>9. ASSUME NEW s \in Sessions, CacheConnection(s)
      PROVE  CacheInv'
  <2> DEFINE key == <<dev[s], port[s]>>
  <2>1. /\ key \in Keys /\ key[1] = dev[s] /\ key[2] = port[s]
        /\ pc[s] = "listening" /\ holder[port[s]] = s
        /\ pc' = [pc EXCEPT ![s] = "starting"]
        /\ mapping' = [mapping EXCEPT ![key] = s]
        /\ UNCHANGED <<dev, port, holder>>
    BY <1>9 DEF CacheConnection, Goes, CacheInv, TypeInv, Equipped, Owned, Keys
  <2>2. \A p \in Ports : holder[p] = s => p = port[s]
    BY <2>1 DEF CacheInv, Owned
  <2> HIDE DEF key
  <2>3. CacheMatchesListeners'
    BY <1>1, <2>1, <2>2 DEF CacheInv, CacheMatchesListeners, TypeOK, Keys, key
  <2>4. Owned'
    BY <1>1, <2>1, <2>2 DEF CacheInv, Owned, TypeOK, Early, SettingUp
  <2> QED
    BY <1>1, <2>3, <2>4 DEF CacheInv
<1>10. ASSUME NEW d \in Devices, ReleaseIdleDevice(d)
      PROVE  CacheInv'
  BY <1>1, <1>10 DEF ReleaseIdleDevice, CacheInv, CacheMatchesListeners, Owned
<1>11. ASSUME NEW p \in Ports, ProgramListens(p) \/ ProgramCloses(p)
      PROVE  CacheInv'
  <2>1. /\ UNCHANGED <<pc, dev, port, mapping>>
        /\ holder[p] \notin Sessions /\ holder'[p] \notin Sessions
        /\ \A q \in Ports \ {p} : holder'[q] = holder[q]
    BY <1>1, <1>11, ConnectionsAssumption DEF ProgramListens, ProgramCloses, TypeOK
  <2>2. CacheMatchesListeners'
    <3>1. \A k \in Keys : mapping[k] # None =>
             holder[k[2]] = mapping[k] /\ mapping[k] \in Sessions /\ k[2] \in Ports \ {p}
      BY <1>1, <2>1 DEF CacheInv, CacheMatchesListeners, TypeOK, Keys
    <3>2. \A q \in Ports : holder'[q] \in Sessions => holder'[q] = holder[q]
      BY <2>1
    <3>3. \A q \in Ports : holder[q] \in Sessions =>
             \/ \E d \in Devices : mapping[<<d, q>>] = holder[q]
             \/ pc[holder[q]] = "listening"
      BY DEF CacheInv, CacheMatchesListeners
    <3> QED
      BY <2>1, <3>1, <3>2, <3>3 DEF CacheMatchesListeners
  <2>3. \A t \in Sessions : pc[t] = "listening" => port[t] # p /\ port[t] \in Ports
    BY <2>1 DEF CacheInv, Owned, TypeInv, Equipped
  <2>4. Owned'
    BY <2>1, <2>3 DEF CacheInv, Owned
  <2> QED
    BY <1>1, <2>2, <2>4 DEF CacheInv
<1>12. CASE UNCHANGED vars
  BY <1>1, <1>12 DEF vars, CacheInv, CacheMatchesListeners, Owned
<1> QED
  BY <1>2, <1>3, <1>4, <1>6, <1>7, <1>8, <1>9, <1>10, <1>11, <1>12
     DEF Next, CreateStep, DeleteStep

\* At first nobody listens and nothing is cached.
LEMMA CacheInit == Init => CacheInv
<1> SUFFICES ASSUME Init
             PROVE  CacheInv
  OBVIOUS
<1>1. TypeInv
  BY ConnectionsAssumption DEF Init, TypeInv, TypeOK, Equipped, Doc, Keys, Stages
<1>2. CacheMatchesListeners /\ Owned
  BY ConnectionsAssumption DEF Init, CacheMatchesListeners, Owned, Keys
<1> QED
  BY <1>1, <1>2 DEF CacheInv

(***************************************************************************)
(* What the factory has cached is what this server's sessions listen on, so *)
(* that every listener can be found and closed, for any sessions, devices   *)
(* and ports, whatever disturbances there are.                              *)
(***************************************************************************)
THEOREM CacheIsTrue == Spec => []CacheMatchesListeners
<1> QED
  BY CacheInit, CacheStep, PTL DEF Spec, CacheInv


-----------------------------------------------------------------------------
\* The stages in which createSession has a device but no document names it yet.
BeingSetUp == {"choosing", "listening", "starting"} \cup SettingUp

(***************************************************************************)
(* When no device is taken during the deletion of its last session, a       *)
(* device is with one session at a time: its document names a session that  *)
(* has it, or one session is being set up on it, and nobody sets up a       *)
(* session on a device whose last one is still being deleted.               *)
(***************************************************************************)
OneAtATime ==
    /\ \A d \in Devices : doc[d].session # None =>
          /\ doc[d].busy
          /\ dev[doc[d].session] = d
          /\ pc[doc[d].session] \in {"open", "unblocking"}
    /\ \A s \in Sessions : pc[s] \in BeingSetUp =>
          doc[dev[s]].busy /\ doc[dev[s]].session = None
    /\ \A s, t \in Sessions : pc[s] \in BeingSetUp /\ pc[t] \in BeingSetUp =>
          dev[s] # dev[t] \/ s = t
    /\ \A s, t \in Sessions : pc[s] \in Ending /\ pc[t] \in BeingSetUp => dev[s] # dev[t]
    /\ \A s \in Sessions : pc[s] \in Ending => doc[dev[s]].session \in {None, s}

(***************************************************************************)
(* What the proofs below use of the types.                                  *)
(***************************************************************************)
LEMMA TypeFacts ==
  ASSUME TypeInv
  PROVE  /\ pc \in [Sessions -> Stages]
         /\ DOMAIN doc = Devices /\ DOMAIN dev = Sessions /\ DOMAIN port = Sessions
         /\ \A d \in Devices : /\ doc[d] \in Doc
                               /\ doc[d].session \in Sessions \cup {None}
                               /\ Free(doc[d]).busy = FALSE
                               /\ Free(doc[d]).session = None
                               /\ Free(doc[d]).port = doc[d].port
         /\ \A s \in Sessions : pc[s] # "new" => dev[s] \in Devices
BY DEF TypeInv, TypeOK, Equipped, Doc, Free

(***************************************************************************)
(* Every step keeps the devices with one session at a time.                 *)
(***************************************************************************)
LEMMA OneAtATimeStep ==
  ASSUME "overlap" \notin Environment, TypeInv, TypeInv', OneAtATime, [Next]_vars
  PROVE  OneAtATime'
<1> USE ConnectionsAssumption DEF BeingSetUp, SettingUp, Ending
<1>1. /\ \A s \in Sessions : pc[s] # "new" => dev[s] \in Devices
      /\ \A d \in Devices : doc[d].session \in Sessions \cup {None}
      /\ DOMAIN pc = Sessions /\ DOMAIN dev = Sessions /\ DOMAIN doc = Devices
  BY TypeFacts DEF TypeInv, TypeOK
<1>2. ASSUME NEW s \in Sessions, pc[s] \in BeingSetUp,
             pc' = [pc EXCEPT ![s] = pc'[s]], pc'[s] \in BeingSetUp \cup {"failed"},
             dev' = dev,
             \A d \in Devices : doc'[d].busy = doc[d].busy /\ doc'[d].session = doc[d].session
      PROVE  OneAtATime'
  <2>1. /\ \A t \in Sessions \ {s} : pc'[t] = pc[t]
        /\ \A t \in Sessions : pc'[t] \in BeingSetUp => pc[t] \in BeingSetUp
        /\ \A t \in Sessions : pc'[t] \in Ending => pc[t] \in Ending
        /\ \A d \in Devices : doc[d].session # s
    BY <1>1, <1>2 DEF OneAtATime
  <2> QED
    BY <1>1, <1>2, <2>1 DEF OneAtATime
<1>3. ASSUME NEW s \in Sessions, NEW d \in Devices, AllocateDevice(s, d)
      PROVE  OneAtATime'
  <2>1. /\ pc[s] = "new" /\ pc'[s] = "choosing" /\ dev'[s] = d
        /\ ~doc[d].busy /\ doc[d].session = None
        /\ doc'[d].busy /\ doc'[d].session = None
        /\ \A t \in Sessions \ {s} : pc'[t] = pc[t] /\ dev'[t] = dev[t]
        /\ \A e \in Devices \ {d} : doc'[e] = doc[e]
        /\ \A t \in Sessions : dev[t] = d => pc[t] \notin Ending
    BY <1>1, <1>3, TypeFacts DEF AllocateDevice, Goes, OneAtATime, Doc
  <2>2. \A t \in Sessions : pc[t] \in BeingSetUp => dev[t] # d
    BY <2>1 DEF OneAtATime
  <2> QED
    BY <1>1, <2>1, <2>2 DEF OneAtATime
<1>4. ASSUME NEW s \in Sessions, ChoosePort(s)
      PROVE  OneAtATime'
  <2>1. PICK p \in Ports \cup {None} : doc' = [doc EXCEPT ![dev[s]].port = p]
    BY <1>4 DEF ChoosePort, Offered
  <2>2. \A d \in Devices : doc'[d].busy = doc[d].busy /\ doc'[d].session = doc[d].session
    BY <1>1, <2>1, TypeFacts DEF Doc
  <2> QED
    BY <1>1, <1>2, <1>4, <2>2 DEF ChoosePort, Goes
<1>5. ASSUME NEW s \in Sessions,
             \/ RequestConnection(s) \/ ProbeFindsNobody(s) \/ ProbeFindsCached(s)
             \/ ProbeFindsOther(s) \/ PortIsReleased(s) \/ WaitTimesOut(s)
             \/ Listen(s) \/ CacheConnection(s)
      PROVE  OneAtATime'
  BY <1>1, <1>2, <1>5 DEF RequestConnection, ProbeFindsNobody, ProbeFindsCached,
     ProbeFindsOther, PortIsReleased, WaitTimesOut, Listen, CacheConnection, Goes
<1>6. ASSUME NEW s \in Sessions, DriverStarts(s)
      PROVE  OneAtATime'
  <2>1. /\ pc[s] = "starting" /\ pc'[s] = "open" /\ dev' = dev
        /\ \A t \in Sessions \ {s} : pc'[t] = pc[t]
        /\ doc'[dev[s]].busy /\ doc'[dev[s]].session = s
        /\ \A d \in Devices \ {dev[s]} : doc'[d] = doc[d]
    BY <1>1, <1>6, TypeFacts DEF DriverStarts, Goes, Doc
  <2> QED
    BY <1>1, <2>1 DEF OneAtATime
<1>7. ASSUME NEW s \in Sessions, DriverFails(s) \/ UnblockDevice(s)
      PROVE  OneAtATime'
  <2>1. /\ dev' = dev /\ dev[s] \in Devices
        /\ doc' = [doc EXCEPT ![dev[s]] = Free(@)]
        /\ \/ pc[s] = "starting" /\ pc' = [pc EXCEPT ![s] = "failed"]
           \/ pc[s] = "unblocking" /\ pc' = [pc EXCEPT ![s] = "quitting"]
    BY <1>1, <1>7 DEF DriverFails, UnblockDevice, Goes
  <2>2. /\ ~doc'[dev[s]].busy /\ doc'[dev[s]].session = None
        /\ \A d \in Devices \ {dev[s]} : doc'[d] = doc[d]
    BY <1>1, <2>1, TypeFacts
  <2>3. /\ \A t \in Sessions \ {s} : pc'[t] = pc[t]
        /\ \/ pc[s] = "starting" /\ pc'[s] = "failed"
           \/ pc[s] = "unblocking" /\ pc'[s] = "quitting"
    BY <1>1, <2>1
  <2> QED
    BY <1>1, <2>1, <2>2, <2>3 DEF OneAtATime
<1>8. ASSUME NEW s \in Sessions, DriverDies(s)
      PROVE  OneAtATime'
  <2>1. /\ pc[s] = "open" /\ pc'[s] = "lost" /\ dev' = dev
        /\ \A t \in Sessions \ {s} : pc'[t] = pc[t]
        /\ \A d \in Devices : IF doc[d].session = s THEN doc'[d].session = None
                                                    ELSE doc'[d] = doc[d]
    BY <1>1, <1>8, TypeFacts DEF DriverDies, Goes
  <2>2. \A d \in Devices : doc'[d].session # None => doc'[d] = doc[d] /\ doc[d].session # s
    BY <2>1
  <2>3. \A t \in Sessions : pc[t] \in BeingSetUp => doc'[dev[t]] = doc[dev[t]]
    BY <1>1, <2>1 DEF OneAtATime
  <2> QED
    BY <1>1, <2>1, <2>2, <2>3 DEF OneAtATime
<1>9. ASSUME NEW d \in Devices, ReleaseIdleDevice(d)
      PROVE  OneAtATime'
  <2>1. /\ pc' = pc /\ dev' = dev /\ doc[d].session # None
        /\ doc'[d].session = None
        /\ \A e \in Devices \ {d} : doc'[e] = doc[e]
    BY <1>1, <1>9, TypeFacts DEF ReleaseIdleDevice
  <2>2. \A t \in Sessions : pc[t] \in BeingSetUp => dev[t] # d
    BY <2>1 DEF OneAtATime
  <2> QED
    BY <1>1, <2>1, <2>2 DEF OneAtATime
<1>10. ASSUME NEW s \in Sessions, DeleteSession(s)
      PROVE  OneAtATime'
  <2>1. /\ pc[s] = "open" /\ dev' = dev /\ doc' = doc
        /\ pc'[s] = IF doc[dev[s]].session = s THEN "unblocking" ELSE "lost"
        /\ \A t \in Sessions \ {s} : pc'[t] = pc[t]
    BY <1>1, <1>10 DEF DeleteSession, Goes
  <2>2. \A e \in Devices : doc[e].session = s => doc[dev[s]].session = s
    BY DEF OneAtATime
  <2>3. \A t \in Sessions : pc[t] \in BeingSetUp /\ dev[t] = dev[s] => pc'[s] = "lost"
    BY <2>1 DEF OneAtATime
  <2> QED
    BY <1>1, <2>1, <2>2, <2>3 DEF OneAtATime
<1>11. ASSUME NEW s \in Sessions, DriverQuits(s) \/ ReleaseConnection(s)
      PROVE  OneAtATime'
  <2>1. /\ pc[s] \in {"quitting", "releasing"} /\ dev' = dev /\ doc' = doc
        /\ pc'[s] \in {"releasing", "closed"}
        /\ \A t \in Sessions \ {s} : pc'[t] = pc[t]
    BY <1>1, <1>11 DEF DriverQuits, ReleaseConnection, Goes
  <2> QED
    BY <1>1, <2>1 DEF OneAtATime
<1>12. ASSUME NEW p \in Ports, ProgramListens(p) \/ ProgramCloses(p)
      PROVE  OneAtATime'
  BY <1>12 DEF ProgramListens, ProgramCloses, OneAtATime
<1>13. CASE UNCHANGED vars
  BY <1>13 DEF vars, OneAtATime
<1> QED
  BY <1>3, <1>4, <1>5, <1>6, <1>7, <1>8, <1>9, <1>10, <1>11, <1>12, <1>13
     DEF Next, CreateStep, DeleteStep

-----------------------------------------------------------------------------
\* The stages from the listener on to the end of deleteSession.
Late == {"listening", "starting", "open"} \cup Ending

\* From the look-up in requestConnection to the one in releaseConnection, with its device.
KeepsPort(s) ==
    \/ pc[s] \in {"probing", "waiting", "binding", "listening", "starting",
                  "unblocking", "quitting"}
    \/ pc[s] = "open" /\ doc[dev[s]].session = s

(***************************************************************************)
(* Why deleteSession finds the port of its session in the live document:    *)
(* nobody overwrites it while the session has the device.  A session        *)
(* listens on the port it asked for, and what it found cached was cached    *)
(* for that port.                                                           *)
(***************************************************************************)
PortIsKept ==
    /\ \A s \in Sessions : KeepsPort(s) => doc[dev[s]].port = port[s]
    /\ \A s \in Sessions : pc[s] = "probing" => \A k \in found[s] : k[2] = port[s]
    /\ \A p \in Ports, s \in Sessions : holder[p] = s /\ pc[s] \in Late => port[s] = p

(***************************************************************************)
(* Who may change who listens on a port.                                    *)
(***************************************************************************)
LEMMA ListenersChange ==
  ASSUME TypeInv, [Next]_vars, NEW p \in Ports, holder'[p] # holder[p]
  PROVE  \/ \E s \in Sessions : Listen(s) /\ p = port[s] /\ holder[p] = None /\ holder'[p] = s
         \/ /\ holder'[p] = None
            /\ \E s \in Sessions :
                  \/ /\ ProbeFindsCached(s)
                     /\ \E k \in found[s] : k[2] = p /\ mapping[k] = holder[p]
                  \/ /\ ReleaseConnection(s)
                     /\ \E k \in Releasable(s) : k[2] = p /\ mapping[k] = holder[p]
         \/ holder[p] \notin Sessions /\ holder'[p] \notin Sessions
<1> USE ConnectionsAssumption
<1>1. DOMAIN holder = Ports
  BY DEF TypeInv, TypeOK
<1>2. ASSUME NEW s \in Sessions, Listen(s)
      PROVE  p = port[s] /\ holder[p] = None /\ holder'[p] = s
  BY <1>1, <1>2 DEF Listen
<1>3. ASSUME NEW keys, CloseConnections(keys)
      PROVE  holder'[p] = None /\ \E k \in keys : k[2] = p /\ mapping[k] = holder[p]
  BY <1>3 DEF CloseConnections, Stopped
<1>4. ASSUME NEW s \in Sessions, ProbeFindsCached(s)
      PROVE  holder'[p] = None /\ \E k \in found[s] : k[2] = p /\ mapping[k] = holder[p]
  BY <1>3, <1>4 DEF ProbeFindsCached
<1>5. ASSUME NEW s \in Sessions, ReleaseConnection(s)
      PROVE  holder'[p] = None /\ \E k \in Releasable(s) : k[2] = p /\ mapping[k] = holder[p]
  BY <1>3, <1>5 DEF ReleaseConnection
<1>6. ASSUME NEW q \in Ports, ProgramListens(q) \/ ProgramCloses(q)
      PROVE  holder[p] \notin Sessions /\ holder'[p] \notin Sessions
  BY <1>1, <1>6 DEF ProgramListens, ProgramCloses
<1>7. \/ \E s \in Sessions : Listen(s) \/ ProbeFindsCached(s) \/ ReleaseConnection(s)
      \/ \E q \in Ports : ProgramListens(q) \/ ProgramCloses(q)
  BY DEF Next, vars, CreateStep, DeleteStep, AllocateDevice, ChoosePort, RequestConnection,
     ProbeFindsNobody, ProbeFindsOther, PortIsReleased, WaitTimesOut, CacheConnection,
     DriverStarts, DriverFails, DriverDies, ReleaseIdleDevice, DeleteSession,
     UnblockDevice, DriverQuits
<1> QED
  BY <1>2, <1>4, <1>5, <1>6, <1>7

(***************************************************************************)
(* What a step may do to the stage, the port and the keys of a session.     *)
(***************************************************************************)
LEMMA StagesChange ==
  ASSUME TypeInv, [Next]_vars, NEW s \in Sessions
  PROVE  /\ pc[s] \notin Early /\ pc'[s] \in Late => pc[s] \in Late
         /\ port'[s] # port[s] => RequestConnection(s) \/ DriverQuits(s)
         /\ pc'[s] = "closed" => pc[s] = "closed" \/ ReleaseConnection(s)
         /\ pc'[s] = "probing" =>
              \/ RequestConnection(s)
              \/ pc[s] = "probing" /\ found'[s] = found[s] /\ port'[s] = port[s]
<1> USE DEF Early, Late, SettingUp, Ending, Goes
<1>1. DOMAIN pc = Sessions /\ DOMAIN port = Sessions /\ DOMAIN found = Sessions
  BY DEF TypeInv, TypeOK
<1>2. ASSUME NEW t \in Sessions, NEW d \in Devices, AllocateDevice(t, d)
      PROVE  /\ \/ pc'[s] = pc[s]
                \/ pc[s] = "new" /\ pc'[s] = "choosing"
             /\ UNCHANGED <<port, found>>
  BY <1>1, <1>2 DEF AllocateDevice
<1>3. ASSUME NEW t \in Sessions,
             \/ ChoosePort(t) \/ ProbeFindsNobody(t) \/ ProbeFindsCached(t)
             \/ ProbeFindsOther(t) \/ PortIsReleased(t) \/ WaitTimesOut(t) \/ Listen(t)
      PROVE  /\ \/ pc'[s] = pc[s]
                \/ pc[s] \in Early /\ pc'[s] \notin {"closed", "probing"}
             /\ UNCHANGED <<port, found>>
  BY <1>1, <1>3 DEF ChoosePort, ProbeFindsNobody, ProbeFindsCached, ProbeFindsOther,
     PortIsReleased, WaitTimesOut, Listen
<1>4. ASSUME NEW t \in Sessions,
             \/ CacheConnection(t) \/ DriverStarts(t) \/ DriverFails(t) \/ DriverDies(t)
             \/ DeleteSession(t) \/ UnblockDevice(t)
      PROVE  /\ \/ pc'[s] = pc[s]
                \/ pc[s] \in Late /\ pc'[s] \notin {"closed", "probing"}
             /\ UNCHANGED <<port, found>>
  BY <1>1, <1>4 DEF CacheConnection, DriverStarts, DriverFails, DriverDies, DeleteSession,
     UnblockDevice
<1>5. ASSUME NEW t \in Sessions, RequestConnection(t)
      PROVE  s = t \/ (pc'[s] = pc[s] /\ port'[s] = port[s] /\ found'[s] = found[s])
  BY <1>1, <1>5 DEF RequestConnection
<1>6. ASSUME RequestConnection(s)
      PROVE  pc[s] = "preparing" /\ pc'[s] # "closed"
  BY <1>1, <1>6 DEF RequestConnection
<1>7. ASSUME NEW t \in Sessions, DriverQuits(t)
      PROVE  \/ pc'[s] = pc[s] /\ port'[s] = port[s] /\ found'[s] = found[s]
             \/ s = t /\ pc[s] = "quitting" /\ pc'[s] = "releasing"
  BY <1>1, <1>7 DEF DriverQuits
<1>8. ASSUME NEW t \in Sessions, ReleaseConnection(t)
      PROVE  /\ UNCHANGED <<port, found>>
             /\ \/ pc'[s] = pc[s]
                \/ s = t /\ pc[s] = "releasing" /\ pc'[s] = "closed"
  BY <1>1, <1>8 DEF ReleaseConnection
<1>9. ASSUME \/ \E d \in Devices : ReleaseIdleDevice(d)
             \/ \E p \in Ports : ProgramListens(p) \/ ProgramCloses(p)
             \/ UNCHANGED vars
      PROVE  UNCHANGED <<pc, port, found>>
  BY <1>9 DEF ReleaseIdleDevice, ProgramListens, ProgramCloses, vars
<1> QED
  BY <1>2, <1>3, <1>4, <1>5, <1>6, <1>7, <1>8, <1>9 DEF Next, CreateStep, DeleteStep

(***************************************************************************)
(* Every step keeps the ports with the sessions.                            *)
(***************************************************************************)
LEMMA PortIsKeptStep ==
  ASSUME "overlap" \notin Environment, CacheInv, OneAtATime, PortIsKept,
         TypeInv', OneAtATime', [Next]_vars
  PROVE  PortIsKept'
<1> USE ConnectionsAssumption
<1>1. /\ TypeInv
      /\ \A s \in Sessions : pc[s] # "new" => dev[s] \in Devices
      /\ \A d \in Devices : doc[d].session \in Sessions \cup {None}
      /\ DOMAIN pc = Sessions /\ DOMAIN dev = Sessions
      /\ DOMAIN doc = Devices /\ DOMAIN port = Sessions
  BY TypeFacts DEF CacheInv, TypeInv, TypeOK
<1>2. ASSUME NEW t \in Sessions, KeepsPort(t)'
      PROVE  doc'[dev'[t]].port = port'[t]
  <2>1. ASSUME port'[t] = port[t], dev'[t] = dev[t], KeepsPort(t),
               doc'[dev[t]].port = doc[dev[t]].port
        PROVE  doc'[dev'[t]].port = port'[t]
    BY <2>1 DEF PortIsKept
  <2>2. ASSUME NEW s \in Sessions, NEW d \in Devices, AllocateDevice(s, d)
        PROVE  doc'[dev'[t]].port = port'[t]
    <3>1. t # s /\ pc'[t] = pc[t] /\ dev'[t] = dev[t] /\ port'[t] = port[t] /\ pc[t] # "new"
      BY <1>1, <1>2, <2>2 DEF AllocateDevice, Goes, KeepsPort
    <3>2. \A e \in Devices : doc'[e].port = doc[e].port /\ doc'[e].session = doc[e].session
      BY <1>1, <2>2, TypeFacts DEF AllocateDevice, Doc
    <3> QED
      BY <1>1, <1>2, <2>1, <3>1, <3>2 DEF KeepsPort
  <2>3. ASSUME NEW s \in Sessions, ChoosePort(s)
        PROVE  doc'[dev'[t]].port = port'[t]
    <3>1. /\ t # s /\ pc'[t] = pc[t] /\ dev' = dev /\ port' = port
          /\ pc[t] # "new" /\ pc[s] = "choosing" /\ pc'[s] = "preparing"
          /\ \A e \in Devices \ {dev[s]} : doc'[e] = doc[e]
      BY <1>1, <1>2, <2>3 DEF ChoosePort, Goes, KeepsPort
    <3>2. dev[t] # dev[s]
      BY <1>1, <1>2, <3>1 DEF OneAtATime, KeepsPort, BeingSetUp, SettingUp, Ending
    <3> QED
      BY <1>1, <1>2, <2>1, <3>1, <3>2 DEF KeepsPort
  <2>4. ASSUME NEW s \in Sessions, RequestConnection(s) \/ DriverQuits(s)
        PROVE  doc'[dev'[t]].port = port'[t]
    <3>1. /\ dev' = dev /\ doc' = doc
          /\ port'[s] = doc[dev[s]].port
          /\ \A u \in Sessions \ {s} : pc'[u] = pc[u] /\ port'[u] = port[u]
      BY <1>1, <2>4 DEF RequestConnection, DriverQuits, Goes
    <3> QED
      BY <1>2, <2>1, <3>1 DEF KeepsPort
  <2>5. ASSUME NEW s \in Sessions,
               \/ ProbeFindsNobody(s) \/ ProbeFindsCached(s) \/ ProbeFindsOther(s)
               \/ PortIsReleased(s) \/ WaitTimesOut(s) \/ Listen(s)
               \/ CacheConnection(s) \/ ReleaseConnection(s) \/ DeleteSession(s)
        PROVE  doc'[dev'[t]].port = port'[t]
    <3>1. UNCHANGED <<doc, dev, port>> /\ \A u \in Sessions \ {s} : pc'[u] = pc[u]
      BY <1>1, <2>5 DEF ProbeFindsNobody, ProbeFindsCached, ProbeFindsOther, PortIsReleased,
         WaitTimesOut, Listen, CacheConnection, ReleaseConnection, DeleteSession, Goes
    <3>2. s = t => KeepsPort(t)
      BY <1>1, <1>2, <2>5 DEF ProbeFindsNobody, ProbeFindsCached, ProbeFindsOther,
         PortIsReleased, WaitTimesOut, Listen, CacheConnection, ReleaseConnection,
         DeleteSession, Goes, KeepsPort
    <3> QED
      BY <1>2, <2>1, <3>1, <3>2 DEF KeepsPort
  <2>6. ASSUME NEW s \in Sessions, DriverStarts(s)
        PROVE  doc'[dev'[t]].port = port'[t]
    <3>1. /\ pc[s] = "starting" /\ UNCHANGED <<dev, port>>
          /\ \A u \in Sessions \ {s} : pc'[u] = pc[u]
          /\ \A e \in Devices : doc'[e].port = doc[e].port
          /\ \A e \in Devices : doc'[e].session = IF e = dev[s] THEN s ELSE doc[e].session
      BY <1>1, <2>6, TypeFacts DEF DriverStarts, Goes, Doc
    <3>2. pc[t] # "new" /\ KeepsPort(t)
      BY <1>1, <1>2, <2>6, <3>1 DEF DriverStarts, Goes, KeepsPort
    <3> QED
      BY <1>1, <2>1, <3>1, <3>2
  <2>7. ASSUME \/ \E s \in Sessions : DriverFails(s) \/ DriverDies(s) \/ UnblockDevice(s)
               \/ \E d \in Devices : ReleaseIdleDevice(d)
        PROVE  doc'[dev'[t]].port = port'[t]
    <3>1. /\ UNCHANGED <<dev, port>>
          /\ \A e \in Devices : /\ doc'[e].port = doc[e].port
                                /\ doc'[e].session \in {doc[e].session, None}
      <4>1. UNCHANGED <<dev, port>>
        BY <2>7 DEF DriverFails, DriverDies, UnblockDevice, ReleaseIdleDevice
      <4>2. \/ \E d \in Devices : doc' = [doc EXCEPT ![d] = Free(@)]
            \/ \E s \in Sessions :
                  doc' = [d \in Devices |-> IF doc[d].session = s THEN Free(doc[d]) ELSE doc[d]]
        <5>1. ASSUME NEW s \in Sessions, DriverFails(s) \/ UnblockDevice(s)
              PROVE  \E d \in Devices : doc' = [doc EXCEPT ![d] = Free(@)]
          BY <1>1, <5>1 DEF DriverFails, UnblockDevice, Goes
        <5> QED
          BY <2>7, <5>1 DEF DriverDies, ReleaseIdleDevice
      <4>3. \A e \in Devices : doc'[e] \in {doc[e], Free(doc[e])}
        BY <1>1, <4>2
      <4> QED
        BY <1>1, <4>1, <4>3, TypeFacts
    <3>2. \/ pc'[t] = pc[t]
          \/ pc'[t] \in {"failed", "lost"}
          \/ pc[t] = "unblocking" /\ pc'[t] = "quitting"
      BY <1>1, <2>7 DEF DriverFails, DriverDies, UnblockDevice, ReleaseIdleDevice, Goes
    <3>3. pc[t] # "new" /\ KeepsPort(t)
      BY <1>1, <1>2, <3>1, <3>2 DEF KeepsPort
    <3> QED
      BY <1>1, <2>1, <3>1, <3>3
  <2>8. ASSUME \/ \E p \in Ports : ProgramListens(p) \/ ProgramCloses(p)
               \/ UNCHANGED vars
        PROVE  doc'[dev'[t]].port = port'[t]
    BY <1>2, <2>1, <2>8 DEF ProgramListens, ProgramCloses, vars, KeepsPort
  <2> QED
    BY <2>2, <2>3, <2>4, <2>5, <2>6, <2>7, <2>8 DEF Next, CreateStep, DeleteStep
<1>3. ASSUME NEW t \in Sessions, pc'[t] = "probing", NEW k \in found'[t]
      PROVE  k[2] = port'[t]
  <2>1. CASE RequestConnection(t)
    BY <1>1, <2>1 DEF RequestConnection, CachedOn, TypeInv, TypeOK
  <2>2. CASE pc[t] = "probing" /\ found'[t] = found[t] /\ port'[t] = port[t]
    BY <1>3, <2>2 DEF PortIsKept
  <2> QED
    BY <1>1, <1>3, <2>1, <2>2, StagesChange
<1>4. ASSUME NEW p \in Ports, NEW t \in Sessions, holder'[p] = t, pc'[t] \in Late
      PROVE  port'[t] = p
  <2>1. CASE holder[p] = t
    <3>1. pc[t] \notin Early /\ pc[t] \in Late /\ port[t] = p
      BY <1>1, <1>4, <2>1, StagesChange DEF CacheInv, Owned, PortIsKept
    <3>2. CASE port'[t] # port[t]
      <4>1. DriverQuits(t)
        BY <1>1, <3>1, <3>2, StagesChange DEF RequestConnection, Goes, Early, SettingUp
      <4> QED
        BY <1>1, <3>1, <4>1 DEF DriverQuits, Goes, PortIsKept, KeepsPort
    <3> QED
      BY <3>1, <3>2
  <2>2. CASE holder[p] # t
    <3>1. Listen(t) /\ p = port[t]
      <4>1. PICK s \in Sessions : Listen(s) /\ p = port[s] /\ holder'[p] = s
        BY <1>1, <1>4, <2>2, ListenersChange
      <4> QED
        BY <1>4, <4>1
    <3> QED
      BY <3>1 DEF Listen
  <2> QED
    BY <2>1, <2>2
<1> QED
  BY <1>2, <1>3, <1>4 DEF PortIsKept

(***************************************************************************)
(* A session that ends finds its listener in the cache and closes it.       *)
(***************************************************************************)
LEMMA DeletedStep ==
  ASSUME CacheInv, PortIsKept, DeletedLeavesNoListener, [Next]_vars
  PROVE  DeletedLeavesNoListener'
<1> USE ConnectionsAssumption
<1> SUFFICES ASSUME NEW s \in Sessions, NEW p \in Ports, pc'[s] = "closed", holder'[p] = s
             PROVE  FALSE
  BY DEF DeletedLeavesNoListener
<1>1. TypeInv
  BY DEF CacheInv
<1>2. CASE holder[p] # s
  <2>1. Listen(s)
    BY <1>1, <1>2, ListenersChange
  <2> QED
    BY <1>1, <2>1 DEF Listen, Goes, TypeInv, TypeOK
<1>3. CASE holder[p] = s
  <2>1. ReleaseConnection(s)
    BY <1>1, <1>3, StagesChange DEF DeletedLeavesNoListener
  <2>2. pc[s] = "releasing" /\ port[s] = p
    BY <1>3, <2>1 DEF ReleaseConnection, Goes, PortIsKept, Late, Ending
  <2>3. PICK d \in Devices : mapping[<<d, p>>] = s
    BY <1>3, <2>2 DEF CacheInv, CacheMatchesListeners
  <2>4. <<d, p>> \in Releasable(s)
    BY <2>2, <2>3 DEF CacheInv, Owned, Releasable, Keys
  <2>5. holder'[p] = None
    BY <1>3, <2>1, <2>3, <2>4 DEF ReleaseConnection, CloseConnections, Stopped
  <2> QED
    BY <2>5
<1> QED
  BY <1>2, <1>3

(***************************************************************************)
(* Whoever closes the listener of a session that has its device asked for   *)
(* the very same port: the deletion of another session finds only           *)
(* connections of a device that no session has.                             *)
(***************************************************************************)
LEMMA KeptStep ==
  ASSUME CacheInv, OneAtATime, PortIsKept, [Next]_vars,
         NEW p \in Ports, holder[p] \in Sessions, Entitled(holder[p]), holder'[p] # holder[p]
  PROVE  \E t \in Sessions : /\ t # holder[p]
                             /\ port[t] = p
                             /\ pc[t] = "probing" /\ pc'[t] = "waiting"
<1> USE ConnectionsAssumption
<1> DEFINE s == holder[p]
<1>1. TypeInv
  BY DEF CacheInv
<1>2. CASE \E t \in Sessions : /\ ProbeFindsCached(t)
                               /\ \E k \in found[t] : k[2] = p /\ mapping[k] = holder[p]
  <2>1. PICK t \in Sessions : /\ ProbeFindsCached(t)
                              /\ \E k \in found[t] : k[2] = p /\ mapping[k] = holder[p]
    BY <1>2
  <2>2. pc[t] = "probing" /\ pc'[t] = "waiting"
    BY <1>1, <2>1 DEF ProbeFindsCached, Goes, TypeInv, TypeOK
  <2> QED
    BY <2>1, <2>2 DEF PortIsKept, Entitled
<1>3. CASE \E t \in Sessions : /\ ReleaseConnection(t)
                               /\ \E k \in Releasable(t) : k[2] = p /\ mapping[k] = holder[p]
  <2>1. PICK t \in Sessions : /\ ReleaseConnection(t)
                              /\ \E k \in Releasable(t) : k[2] = p /\ mapping[k] = holder[p]
    BY <1>3
  <2>2. pc[t] = "releasing" /\ dev[s] = dev[t]
    BY <2>1 DEF ReleaseConnection, Goes, Releasable, CacheInv, Owned
  <2>3. pc[s] \in BeingSetUp \/ doc[dev[s]].session = s
    BY DEF Entitled, BeingSetUp
  <2>4. s # t /\ None # s
    BY <2>2 DEF Entitled
  <2> QED
    BY <2>2, <2>3, <2>4 DEF OneAtATime, Ending
<1> QED
  BY <1>1, <1>2, <1>3, ListenersChange

\* The invariant of the two theorems.
DeviceInv == CacheInv /\ OneAtATime /\ PortIsKept /\ DeletedLeavesNoListener

\* It holds initially and every step keeps it.
LEMMA DeviceInvHolds ==
  ASSUME "overlap" \notin Environment
  PROVE  Spec => []DeviceInv
<1>1. Init => DeviceInv
  <2> SUFFICES ASSUME Init
               PROVE  DeviceInv
    OBVIOUS
  <2>1. CacheInv
    BY CacheInit
  <2>2. \A s \in Sessions : pc[s] = "new"
    BY DEF Init
  <2>3. \A d \in Devices : doc[d].session = None
    BY DEF Init
  <2>4. OneAtATime
    BY <2>2, <2>3 DEF OneAtATime, BeingSetUp, SettingUp, Ending
  <2>5. PortIsKept /\ DeletedLeavesNoListener
    BY <2>2 DEF PortIsKept, KeepsPort, DeletedLeavesNoListener, Late, Ending
  <2> QED
    BY <2>1, <2>4, <2>5 DEF DeviceInv
<1>2. DeviceInv /\ [Next]_vars => DeviceInv'
  <2> SUFFICES ASSUME DeviceInv, [Next]_vars
               PROVE  DeviceInv'
    OBVIOUS
  <2>1. CacheInv'
    BY CacheStep DEF DeviceInv
  <2>2. TypeInv /\ TypeInv'
    BY <2>1 DEF DeviceInv, CacheInv
  <2>3. OneAtATime'
    BY <2>2, OneAtATimeStep DEF DeviceInv
  <2> QED
    BY <2>1, <2>2, <2>3, PortIsKeptStep, DeletedStep DEF DeviceInv
<1> QED
  BY <1>1, <1>2, PTL DEF Spec

(***************************************************************************)
(* As long as no device is taken before the deletion of its last session    *)
(* has ended, a session that was deleted leaves no listener, for any        *)
(* sessions, devices and ports and whatever else goes wrong.                *)
(***************************************************************************)
THEOREM DeletedSessionsAreSilent ==
  ASSUME "overlap" \notin Environment
  PROVE  Spec => []DeletedLeavesNoListener
<1>1. DeviceInv => DeletedLeavesNoListener
  BY DEF DeviceInv
<1> QED
  BY <1>1, DeviceInvHolds, PTL

(***************************************************************************)
(* Under the same condition nobody but a request for the very same port     *)
(* closes the listener under a session that has its device.                 *)
(***************************************************************************)
THEOREM ListenersAreKept ==
  ASSUME "overlap" \notin Environment
  PROVE  Spec => ListenerIsKept
<1>1. DeviceInv /\ [Next]_vars =>
        [\A p \in Ports :
            holder[p] \in Sessions /\ Entitled(holder[p]) /\ holder'[p] # holder[p] =>
                \E t \in Sessions : /\ t # holder[p]
                                    /\ port[t] = p
                                    /\ pc[t] = "probing" /\ pc'[t] = "waiting"]_vars
  BY KeptStep DEF DeviceInv
<1> QED
  BY <1>1, DeviceInvHolds, PTL DEF Spec, ListenerIsKept

=============================================================================
