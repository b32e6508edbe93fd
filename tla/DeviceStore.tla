---------------------------- MODULE DeviceStore ----------------------------
(***************************************************************************)
(* The device collection of the in-memory database and the operations of   *)
(* data-service/device-service.ts on it.  A database is a function from    *)
(* devices to documents; a device is one (udid, host) pair, so a lookup by  *)
(* udid and host is a function application and an update of the documents   *)
(* that match a filter is an update of the matching set.                    *)
(*                                                                          *)
(* Every operator takes the database it reads and returns the database it   *)
(* leaves: in the code each of them is one synchronous Loki chain, so a     *)
(* state machine that uses them may treat each as one indivisible step.     *)
(***************************************************************************)
EXTENDS Naturals, FiniteSets

CONSTANTS
    Devices,    \* the (udid, host) pairs that can ever be in the collection
    Requests,   \* session requests; the session a request creates has its name
    None        \* "undefined": no session, no device, no lock owner

ASSUME StoreAssumption ==
    /\ IsFiniteSet(Devices)
    /\ None \notin Devices
    /\ None \notin Requests

(***************************************************************************)
(* lastCmdExecutedAt against the clock: undefined, within the new command   *)
(* timeout of the device, or older than it.                                 *)
(***************************************************************************)
CommandAge == {"none", "recent", "old"}

\* IDevice, reduced to the fields that decide who may use the device.
Doc == [stored      : BOOLEAN,
        busy        : BOOLEAN,
        userBlocked : BOOLEAN,
        session     : Requests \cup {None},
        lastCmd     : CommandAge]

Database == [Devices -> Doc]

\* A document as addNewDevice inserts it.
NewDoc == [stored |-> TRUE, busy |-> FALSE, userBlocked |-> FALSE,
           session |-> None, lastCmd |-> "none"]

\* A device that is not in the collection.
AbsentDoc == [NewDoc EXCEPT !.stored = FALSE]

-----------------------------------------------------------------------------
(* Queries *)

BusyDevices(db) == {d \in Devices : db[d].stored /\ db[d].busy}

MatchingSession(db, r) == {d \in Devices : db[d].stored /\ db[d].session = r}

\* busy and userBlocked both false, as every allocation filter asks.
IsFree(d) == d.stored /\ ~d.busy /\ ~d.userBlocked

(***************************************************************************)
(* getDevices for a request that wants the devices of "wanted".  When the   *)
(* request names udids and the first document it names is userBlocked, the  *)
(* busy and userBlocked conditions are dropped.  Which document comes first *)
(* depends on the insertion order, which is not kept here.                  *)
(***************************************************************************)
Obtainable(db, wanted, byUdid) ==
    {d \in wanted :
        \/ IsFree(db[d])
        \/ /\ byUdid
           /\ db[d].stored
           /\ \E first \in wanted : db[first].stored /\ db[first].userBlocked}

-----------------------------------------------------------------------------
(* Updates *)

BlockDevice(db, d) ==
    IF db[d].stored
    THEN [db EXCEPT ![d] = [db[d] EXCEPT !.busy = TRUE, !.lastCmd = "none"]]
    ELSE db

\* Mutant of AssignSession: the udid is written where the session id belongs.
AssignSessionOfDevice(db, d, r) ==
    IF db[d].stored
    THEN [db EXCEPT ![d] = [db[d] EXCEPT !.busy = TRUE, !.session = d,
                                         !.lastCmd = "recent"]]
    ELSE db

\* Mutant of AssignSession: the command time is not initialised.
AssignSessionWithoutTime(db, d, r) ==
    IF db[d].stored
    THEN [db EXCEPT ![d] = [db[d] EXCEPT !.busy = TRUE, !.session = r]]
    ELSE db

\* updatedAllocatedDevice with the fields createSession passes on success.
AssignSession(db, d, r) ==
    IF db[d].stored
    THEN [db EXCEPT ![d] = [db[d] EXCEPT !.busy = TRUE, !.session = r,
                                         !.lastCmd = "recent"]]
    ELSE db

\* What unblockDeviceMatchingFilter leaves of one document.
Cleared(d) ==
    [d EXCEPT !.session = None, !.busy = FALSE, !.userBlocked = FALSE,
                !.lastCmd = "none"]

UnblockDevice(db, d) ==
    IF db[d].stored THEN [db EXCEPT ![d] = Cleared(db[d])] ELSE db

UpdateCmdExecutedTime(db, r) ==
    [d \in Devices |-> IF d \in MatchingSession(db, r)
                       THEN [db[d] EXCEPT !.lastCmd = "recent"]
                       ELSE db[d]]

UserBlockDevice(db, d) ==
    IF db[d].stored
    THEN [db EXCEPT ![d] = [db[d] EXCEPT !.userBlocked = TRUE]]
    ELSE db

\* Unlike unblockDevice it leaves lastCmdExecutedAt as it is.
UserUnblockDevice(db, d) ==
    IF db[d].stored
    THEN [db EXCEPT ![d] = [db[d] EXCEPT !.userBlocked = FALSE, !.busy = FALSE,
                                         !.session = None]]
    ELSE db

RemoveDevice(db, d) == [db EXCEPT ![d] = AbsentDoc]

AddNewDevice(db, d) ==
    IF db[d].stored THEN db ELSE [db EXCEPT ![d] = NewDoc]

-----------------------------------------------------------------------------
(* The release rule of the cron job *)

\* Devices the release job considers at all.
UnblockCandidates(db) ==
    {d \in BusyDevices(db) : ~db[d].userBlocked /\ db[d].lastCmd # "none"}

\* Mutant of IdleDevices: the age of the last command is not looked at.
IdleDevicesOfAnyAge(db) == UnblockCandidates(db)

\* Those whose last command is older than their timeout.
IdleDevices(db) == {d \in UnblockCandidates(db) : db[d].lastCmd = "old"}

=============================================================================
