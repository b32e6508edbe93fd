--------------------------- MODULE IosConnections ---------------------------
(***************************************************************************)
(* The local ports that sessions on real iOS devices forward to their       *)
(* device: the plugin asks DeviceConnectionsFactory for one before it       *)
(* starts the driver, and gives it back after the driver has quit.          *)
(*                                                                          *)
(*   new -> choosing -> preparing -> probing [-> waiting] -> binding        *)
(*       -> listening -> starting -> open                                   *)
(*   open -> unblocking -> quitting -> releasing -> closed                  *)
(*                                                                          *)
(* A session that fails ends as "failed", one whose device was taken from   *)
(* it before it was deleted, or whose driver died, as "lost".               *)
(*                                                                          *)
(* "device" in the plugin is the live document, not a copy: its             *)
(* mjpegServerPort is written by iOSCapabilities for every new session and  *)
(* read again when a session is deleted.                                    *)
(***************************************************************************)
CONSTANTS
    Sessions,
    Devices,     \* the real iOS devices of this server
    Ports,
    LiveVideo,   \* the sessions that do not say df:liveVideo = false
    None,
    Other,       \* another program
    Environment

(***************************************************************************)
(*   overlap  a device is taken before the deletion of its last session has *)
(*            ended                                                         *)
(*   reuse    get-port forgets what it gave out before it is listened on    *)
(*   program  another program may listen on a port                          *)
(*   fail     drivers may fail to start, or die                             *)
(*   idle     the release job may free the device of a session              *)
(***************************************************************************)
Behaviours == {"overlap", "reuse", "program", "fail", "idle"}

ASSUME ConnectionsAssumption ==
    /\ LiveVideo \subseteq Sessions
    /\ None \notin Sessions \cup Ports
    /\ Other \notin Sessions \cup {None}
    /\ Environment \subseteq Behaviours

VARIABLES
    doc,      \* the documents of the devices
    pc,       \* how far createSession and deleteSession have come
    dev,      \* the device of each session
    port,     \* the argument of its last call of the factory
    found,    \* connectionsOnPort: the keys that were cached for that port
    mapping,  \* _connectionsMapping; an iProxy has the name of its session
    holder    \* who listens on each port

vars == <<doc, pc, dev, port, found, mapping, holder>>

Keys == Devices \X Ports

Doc == [busy : BOOLEAN, session : Sessions \cup {None}, port : Ports \cup {None}]

\* From the choice of a port to the attempt to listen on it.
SettingUp == {"preparing", "probing", "waiting", "binding"}
Ending == {"unblocking", "quitting", "releasing"}
Stages == {"new", "choosing", "listening", "starting", "open"} \cup SettingUp
             \cup Ending \cup {"closed", "failed", "lost"}

TypeOK ==
    /\ doc \in [Devices -> Doc]
    /\ pc \in [Sessions -> Stages]
    /\ dev \in [Sessions -> Devices \cup {None}]
    /\ port \in [Sessions -> Ports \cup {None}]
    /\ found \in [Sessions -> SUBSET Keys]
    /\ mapping \in [Keys -> Sessions \cup {None}]
    /\ holder \in [Ports -> Sessions \cup {None, Other}]

\* The port a device is listed with is overwritten before it is read.
Init ==
    /\ doc = [d \in Devices |-> [busy |-> FALSE, session |-> None, port |-> None]]
    /\ pc = [s \in Sessions |-> "new"]
    /\ dev = [s \in Sessions |-> None]
    /\ port = [s \in Sessions |-> None]
    /\ found = [s \in Sessions |-> {}]
    /\ mapping = [k \in Keys |-> None]
    /\ holder = [p \in Ports |-> None]

Goes(s, from, to) == pc[s] = from /\ pc' = [pc EXCEPT ![s] = to]

Free(d) == [d EXCEPT !.busy = FALSE, !.session = None]

CachedOn(p) == {k \in Keys : k[2] = p /\ mapping[k] # None}

\* iProxy.stop for the iproxies of these keys: who listens afterwards.
Stopped(keys) ==
    [p \in Ports |-> IF \E k \in keys : k[2] = p /\ mapping[k] = holder[p]
                     THEN None ELSE holder[p]]

\* Mutant of CloseConnections: the listeners are closed but stay cached.
CloseKeepingKeys(keys) == holder' = Stopped(keys) /\ UNCHANGED mapping

\* _releaseProxiedConnections, and its callers delete the keys.
CloseConnections(keys) ==
    /\ holder' = Stopped(keys)
    /\ mapping' = [k \in Keys |-> IF k \in keys THEN None ELSE mapping[k]]

-----------------------------------------------------------------------------
(* createSession: the device and its port *)

AllocateDevice(s, d) ==
    /\ ~doc[d].busy
    /\ "overlap" \in Environment \/ \A t \in Sessions : dev[t] = d => pc[t] \notin Ending
    /\ Goes(s, "new", "choosing")
    /\ dev' = [dev EXCEPT ![s] = d]
    /\ doc' = [doc EXCEPT ![d].busy = TRUE]
    /\ UNCHANGED <<port, found, mapping, holder>>

\* get-port: nobody listens, and it has not been given out a moment ago.
Offered(p) ==
    /\ holder[p] = None
    /\ \/ "reuse" \in Environment
       \/ \A t \in Sessions : pc[t] \in SettingUp => doc[dev[t]].port # p

\* iOSCapabilities: freeDevice.mjpegServerPort = liveVideo ? await getPort() : undefined
ChoosePort(s) ==
    /\ Goes(s, "choosing", "preparing")
    /\ \E p \in IF s \in LiveVideo THEN {p \in Ports : Offered(p)} ELSE {None} :
          doc' = [doc EXCEPT ![dev[s]].port = p]
    /\ UNCHANGED <<dev, port, found, mapping, holder>>

-----------------------------------------------------------------------------
(* requestConnection *)

\* Without a port the factory warns and returns.
RequestConnection(s) ==
    LET p == doc[dev[s]].port IN
    /\ Goes(s, "preparing", IF p = None THEN "starting" ELSE "probing")
    /\ port' = [port EXCEPT ![s] = p]
    /\ found' = [found EXCEPT ![s] = CachedOn(p)]
    /\ UNCHANGED <<doc, dev, mapping, holder>>

ProbeFindsNobody(s) ==
    /\ Goes(s, "probing", "binding")
    /\ holder[port[s]] = None
    /\ UNCHANGED <<doc, dev, port, found, mapping, holder>>

\* Keys that have left the mapping since the look-up have no iproxy any more.
ProbeFindsCached(s) ==
    /\ Goes(s, "probing", "waiting")
    /\ holder[port[s]] # None
    /\ found[s] # {}
    /\ CloseConnections({k \in found[s] : mapping[k] # None})
    /\ UNCHANGED <<doc, dev, port, found>>

\* Mutant of ProbeFindsOther: the probe is repeated until the port is free.
ProbeRepeats(s) == pc[s] = "probing" /\ holder[port[s]] # None /\ found[s] = {} /\ UNCHANGED vars

\* The exception leaves createSession; the device stays busy.
ProbeFindsOther(s) ==
    /\ Goes(s, "probing", "failed")
    /\ holder[port[s]] # None
    /\ found[s] = {}
    /\ UNCHANGED <<doc, dev, port, found, mapping, holder>>

PortIsReleased(s) ==
    /\ Goes(s, "waiting", "binding")
    /\ holder[port[s]] = None
    /\ UNCHANGED <<doc, dev, port, found, mapping, holder>>

\* waitForPortTobeReleased after PORT_CLOSE_TIMEOUT
WaitTimesOut(s) ==
    /\ Goes(s, "waiting", "failed")
    /\ holder[port[s]] # None
    /\ UNCHANGED <<doc, dev, port, found, mapping, holder>>

\* iProxy.start: somebody else may have been faster than the probe's answer.
Listen(s) ==
    LET p == port[s] IN
    /\ Goes(s, "binding", IF holder[p] = None THEN "listening" ELSE "failed")
    /\ holder' = IF holder[p] = None THEN [holder EXCEPT ![p] = s] ELSE holder
    /\ UNCHANGED <<doc, dev, port, found, mapping>>

\* Mutant of CacheConnection: the device is cached in the place of its iProxy.
CacheDevice(s) ==
    /\ Goes(s, "listening", "starting")
    /\ mapping' = [mapping EXCEPT ![<<dev[s], port[s]>>] = dev[s]]
    /\ UNCHANGED <<doc, dev, port, found, holder>>

\* The 'listening' event has come.
CacheConnection(s) ==
    /\ Goes(s, "listening", "starting")
    /\ mapping' = [mapping EXCEPT ![<<dev[s], port[s]>>] = s]
    /\ UNCHANGED <<doc, dev, port, found, holder>>

-----------------------------------------------------------------------------
(* The driver, and deleteSession *)

DriverStarts(s) ==
    /\ Goes(s, "starting", "open")
    /\ doc' = [doc EXCEPT ![dev[s]].busy = TRUE, ![dev[s]].session = s]
    /\ UNCHANGED <<dev, port, found, mapping, holder>>

\* createSession frees the device but not the port.
DriverFails(s) ==
    /\ "fail" \in Environment
    /\ Goes(s, "starting", "failed")
    /\ doc' = [doc EXCEPT ![dev[s]] = Free(@)]
    /\ UNCHANGED <<dev, port, found, mapping, holder>>

\* onUnexpectedShutdown frees the device but not the port.
DriverDies(s) ==
    /\ "fail" \in Environment
    /\ Goes(s, "open", "lost")
    /\ doc' = [d \in Devices |-> IF doc[d].session = s THEN Free(doc[d]) ELSE doc[d]]
    /\ UNCHANGED <<dev, port, found, mapping, holder>>

\* releaseBlockedDevices, for a session that runs on.
ReleaseIdleDevice(d) ==
    /\ "idle" \in Environment
    /\ doc[d].session # None
    /\ doc' = [doc EXCEPT ![d] = Free(@)]
    /\ UNCHANGED <<pc, dev, port, found, mapping, holder>>

\* Mutant of DeleteSession: the device is looked up after it was unblocked.
DeleteSessionForgetting(s) ==
    /\ Goes(s, "open", "closed")
    /\ doc' = [d \in Devices |-> IF doc[d].session = s THEN Free(doc[d]) ELSE doc[d]]
    /\ UNCHANGED <<dev, port, found, mapping, holder>>

\* A session without document has no device to release a port of.
DeleteSession(s) ==
    /\ Goes(s, "open", IF doc[dev[s]].session = s THEN "unblocking" ELSE "lost")
    /\ UNCHANGED <<doc, dev, port, found, mapping, holder>>

UnblockDevice(s) ==
    /\ Goes(s, "unblocking", "quitting")
    /\ doc' = [doc EXCEPT ![dev[s]] = Free(@)]
    /\ UNCHANGED <<dev, port, found, mapping, holder>>

\* releaseConnection(device.udid, device.mjpegServerPort), up to the probe.
DriverQuits(s) ==
    /\ Goes(s, "quitting", "releasing")
    /\ port' = [port EXCEPT ![s] = doc[dev[s]].port]
    /\ UNCHANGED <<doc, dev, found, mapping, holder>>

\* Mutant of Releasable: the search is not strict.
ReleasableLoosely(s) ==
    {k \in Keys : mapping[k] # None /\ (k[1] = dev[s] \/ k[2] = port[s])}

\* listConnections(udid, port, true): without a port, all of the device.
Releasable(s) ==
    {k \in Keys : mapping[k] # None /\ k[1] = dev[s] /\ port[s] \in {None, k[2]}}

\* The wait for the port to close delays the answer only.
ReleaseConnection(s) ==
    /\ Goes(s, "releasing", "closed")
    /\ CloseConnections(Releasable(s))
    /\ UNCHANGED <<doc, dev, port, found>>

-----------------------------------------------------------------------------
(* Another program: one port at a time *)

ProgramListens(p) ==
    /\ "program" \in Environment
    /\ holder[p] = None
    /\ \A q \in Ports : holder[q] # Other
    /\ holder' = [holder EXCEPT ![p] = Other]
    /\ UNCHANGED <<doc, pc, dev, port, found, mapping>>

ProgramCloses(p) ==
    /\ holder[p] = Other
    /\ holder' = [holder EXCEPT ![p] = None]
    /\ UNCHANGED <<doc, pc, dev, port, found, mapping>>

-----------------------------------------------------------------------------
CreateStep(s) ==
    \/ ChoosePort(s)
    \/ RequestConnection(s)
    \/ ProbeFindsNobody(s)
    \/ ProbeFindsCached(s)
    \/ ProbeFindsOther(s)
    \/ PortIsReleased(s)
    \/ WaitTimesOut(s)
    \/ Listen(s)
    \/ CacheConnection(s)
    \/ DriverStarts(s)
    \/ DriverFails(s)

DeleteStep(s) ==
    \/ UnblockDevice(s)
    \/ DriverQuits(s)
    \/ ReleaseConnection(s)

Next ==
    \/ \E s \in Sessions :
          \/ \E d \in Devices : AllocateDevice(s, d)
          \/ CreateStep(s)
          \/ DeleteSession(s)
          \/ DeleteStep(s)
          \/ DriverDies(s)
    \/ \E d \in Devices : ReleaseIdleDevice(d)
    \/ \E p \in Ports : ProgramListens(p) \/ ProgramCloses(p)

Spec == Init /\ [][Next]_vars

(***************************************************************************)
(* Fairness: get-port, the probes, the wait (which has a timeout) and the   *)
(* driver answer.  Nobody has to ask for a session or delete one.           *)
(***************************************************************************)
Fairness == \A s \in Sessions : WF_vars(CreateStep(s)) /\ WF_vars(DeleteStep(s))

FairSpec == Spec /\ Fairness

-----------------------------------------------------------------------------
(* Properties *)

(***************************************************************************)
(* The cache of the factory and the listeners of this server agree: every   *)
(* cached key has its listener, and every listener is cached, or about to   *)
(* be, so that it can be closed.  Two requests for one port, and the        *)
(* takeover of a port, keep it so.                                          *)
(***************************************************************************)
CacheMatchesListeners ==
    /\ \A k \in Keys : mapping[k] # None => holder[k[2]] = mapping[k]
    /\ \A p \in Ports :
          holder[p] \in Sessions =>
              \/ \E d \in Devices : mapping[<<d, p>>] = holder[p]
              \/ pc[holder[p]] = "listening"

(***************************************************************************)
(* A session that was deleted in the ordinary way, with its device still    *)
(* its own, does not leave a listener behind, even though the port to       *)
(* release is read from the live document of the device.                    *)
(***************************************************************************)
DeletedLeavesNoListener ==
    \A s \in Sessions, p \in Ports : pc[s] = "closed" => holder[p] # s

\* The session is being set up, or its device is in its name.
Entitled(s) ==
    \/ pc[s] \in {"listening", "starting"}
    \/ pc[s] \in {"open", "unblocking"} /\ doc[dev[s]].session = s

(***************************************************************************)
(* While a session has its device nobody closes the listener under it,      *)
(* except a request for the very same port.  In particular the release of   *)
(* another session's connection does not, whichever port it finds in the    *)
(* document and even if it finds none.                                      *)
(***************************************************************************)
ListenerIsKept ==
    [][\A p \in Ports :
          holder[p] \in Sessions /\ Entitled(holder[p]) /\ holder'[p] # holder[p] =>
              \E t \in Sessions :
                  /\ t # holder[p]
                  /\ port[t] = p
                  /\ pc[t] = "probing" /\ pc'[t] = "waiting"]_vars

(***************************************************************************)
(* createSession and deleteSession come to an end, whatever happens to the  *)
(* ports: a request for a port that is taken is refused in the end.         *)
(***************************************************************************)
SessionSettles ==
    \A s \in Sessions :
        /\ pc[s] = "choosing" ~> pc[s] \in {"open", "failed"}
        /\ pc[s] = "unblocking" ~> pc[s] = "closed"

=============================================================================
