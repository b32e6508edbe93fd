----------------------------- MODULE IosTracker -----------------------------
(***************************************************************************)
(* The events by which a server learns of iOS devices.  IosTracker is one   *)
(* of two sources: the socket of usbmux.ts, on which usbmuxd announces      *)
(* connections by an id, or go-ios, whose lines goIOSTracker.ts reads.      *)
(* Both turn ids into udids, each in its own way.                           *)
(*                                                                          *)
(* What the listeners of the events do is the matter of DeviceTracking,     *)
(* where "attached" and "detached" come when a device does.                 *)
(***************************************************************************)
EXTENDS UsbmuxParser, FiniteSets

CONSTANTS
    Udids,
    Ids,          \* the DeviceIDs, given out in their order
    TwoWays,      \* devices that may be connected by cable and by Wi-Fi
    Pairing,      \* devices whose pairing is announced
    None,
    Backlog,      \* the bound on the bytes that are sent and not yet read
    Environment

(***************************************************************************)
(*   end    the connection to usbmuxd, or the go-ios process, may end       *)
(*   refuse usbmuxd may refuse the request to listen                        *)
(*   split  a data event may end within a header                            *)
(*   noise  a line of go-ios may be no JSON                                 *)
(***************************************************************************)
Behaviours == {"end", "refuse", "split", "noise"}

ASSUME TrackerAssumption ==
    /\ Ids \subseteq Nat \ {0}
    /\ TwoWays \subseteq Udids
    /\ Pairing \subseteq Udids
    /\ None \notin Udids \cup Ids
    /\ Backlog \in Nat
    /\ Environment \subseteq Behaviours

VARIABLES
    source,   \* "usbmux" or "go-ios", by the environment variable GO_IOS
    alive,    \* the connection or the process is there
    links,    \* the connections that usbmuxd has: pairs of id and udid
    lastId,   \* the last id it gave out
    wire,     \* bytes that are sent and not yet read
    data,     \* what is left of the data event that is being parsed
    parser,   \* the closure of the parser
    known,    \* devices of usbmux.ts: the id by udid
    names,    \* deviceMap of goIOSTracker.ts: the udid by id
    told,     \* the last event that was emitted for a device
    missed,   \* the devices of lines that were given up
    crashed   \* an exception has left a data event: nobody catches it

vars == <<source, alive, links, lastId, wire, data, parser, known, names, told, missed, crashed>>

Message == [type : {"Result", "Refusal", "Attached", "Detached", "Paired"},
            id : Ids \cup {None}, udid : Udids \cup {None}]
Byte == [of : Message, at : 1..MessageLength]

Linked(u) == \E l \in links : l.udid = u

TypeOK ==
    /\ source \in {"usbmux", "go-ios"}
    /\ alive \in BOOLEAN
    /\ links \subseteq [id : Ids, udid : Udids]
    /\ lastId \in Ids \cup {0}
    /\ wire \in Seq(Byte) /\ data \in Seq(Byte) /\ parser.msg \in Seq(Byte)
    /\ parser.len \in 0..BodyLength
    /\ known \in [Udids -> Ids \cup {None}]
    /\ names \in [Ids -> Udids \cup {None}]
    /\ told \in [Udids -> {"nothing", "attached", "detached"}]
    /\ missed \subseteq Udids
    /\ crashed \in BOOLEAN

Reply(type) == [type |-> type, id |-> None, udid |-> None]
About(type, l) == [type |-> type, id |-> l.id, udid |-> l.udid]

\* usbmuxd answers the Listen request first; go-ios keeps the answer to itself.
FirstAnswers ==
    IF source = "go-ios" THEN {<<>>}
    ELSE {Bytes(Reply(type)) :
             type \in {"Result"} \cup (IF "refuse" \in Environment THEN {"Refusal"} ELSE {})}

\* getInstance makes the source when the first devices are listed.
Init ==
    /\ source \in {"usbmux", "go-ios"}
    /\ alive = TRUE
    /\ links = {} /\ lastId = 0
    /\ wire \in FirstAnswers
    /\ data = <<>>
    /\ parser = Idle
    /\ known = [u \in Udids |-> None]
    /\ names = [i \in Ids |-> None]
    /\ told = [u \in Udids |-> "nothing"]
    /\ missed = {}
    /\ crashed = FALSE

-----------------------------------------------------------------------------
(* usbmuxd *)

Send(message) ==
    /\ alive /\ ~crashed
    /\ Len(wire) + MessageLength <= Backlog
    /\ wire' = wire \o Bytes(message)
    /\ UNCHANGED <<source, alive, data, parser, known, names, told, missed, crashed>>

Connect(u) ==
    LET l == [id |-> lastId + 1, udid |-> u] IN
    /\ l.id \in Ids
    /\ Cardinality({k \in links : k.udid = u}) < (IF u \in TwoWays THEN 2 ELSE 1)
    /\ links' = links \cup {l}
    /\ lastId' = l.id
    /\ Send(About("Attached", l))

Disconnect(l) ==
    /\ links' = links \ {l}
    /\ UNCHANGED lastId
    /\ Send(About("Detached", l))

Pair(l) ==
    /\ l.udid \in Pairing
    /\ UNCHANGED <<links, lastId>>
    /\ Send(About("Paired", l))

\* Nobody reconnects: getInstance returns the instance it has.
SourceEnds ==
    /\ "end" \in Environment
    /\ alive
    /\ alive' = FALSE
    /\ wire' = <<>>
    /\ UNCHANGED <<source, links, lastId, data, parser, known, names, told, missed, crashed>>

-----------------------------------------------------------------------------
(* Data events *)

\* A data event ends anywhere but within a header; lines come whole.
EndsEvent(n) ==
    n < Len(wire) =>
        \/ wire[n + 1].at = 1
        \/ source = "usbmux" /\ (wire[n + 1].at > HeaderLength \/ "split" \in Environment)

DataEvent ==
    /\ data = <<>> /\ ~crashed
    /\ \E n \in {k \in 1..Len(wire) : EndsEvent(k)} :
          /\ data' = Upto(wire, n)
          /\ wire' = After(wire, n)
    /\ UNCHANGED <<source, alive, links, lastId, parser, known, names, told, missed, crashed>>

-----------------------------------------------------------------------------
(* usbmux.ts: onMsgComplete of createListener *)

\* Mutant of ForgetId: the comparison is the wrong way round.
ForgetOthers(message) ==
    [u \in Udids |-> IF known[u] # message.id THEN None ELSE known[u]]

\* The devices whose entry has the id that was detached.
ForgetId(message) ==
    [u \in Udids |-> IF known[u] = message.id THEN None ELSE known[u]]

OnMsgComplete(message) ==
    CASE message.type = "Attached" ->
            /\ known' = [known EXCEPT ![message.udid] = message.id]
            /\ told' = [told EXCEPT ![message.udid] = "attached"]
      [] message.type = "Detached" ->
            /\ known' = ForgetId(message)
            /\ told' = [u \in Udids |-> IF known'[u] # known[u] THEN "detached" ELSE told[u]]
      [] OTHER -> UNCHANGED <<known, told>>

\* An 'error' event without a listener throws, as plist.parse does.
Fatal(next) ==
    \/ Complete(next) /\ ~Whole(next)
    \/ Complete(next) /\ next.msg[1].of.type = "Refusal"

ParseStep ==
    /\ source = "usbmux" /\ data # <<>>
    /\ IF parser.len = 0 /\ ~Legible(data)
       THEN crashed' = TRUE /\ data' = <<>> /\ UNCHANGED <<parser, known, told>>
       ELSE LET next == Parse(parser, data) IN
            /\ crashed' = Fatal(next.parser)
            /\ parser' = IF Complete(next.parser) /\ ~crashed' THEN Idle ELSE next.parser
            /\ data' = IF crashed' THEN <<>> ELSE next.data
            /\ IF Complete(next.parser) /\ ~crashed'
               THEN OnMsgComplete(next.parser.msg[1].of)
               ELSE UNCHANGED <<known, told>>
    /\ UNCHANGED <<source, alive, links, lastId, wire, names, missed>>

-----------------------------------------------------------------------------
(* goIOSTracker.ts *)

\* Mutant of Named: the id is looked up as if it were a udid.
NamedByNobody(message) == None

Named(message) == names[message.id]

\* Mutant of Rest: of the lines of an event only the first is handled.
RestIsDropped == <<>>

Rest == After(data, MessageLength)

\* notify, for the next of the lines: whatever is not "Attached" is a departure.
Notify ==
    LET message == data[1].of IN
    /\ source = "go-ios" /\ data # <<>>
    /\ IF message.type = "Attached"
       THEN /\ names' = [names EXCEPT ![message.id] = message.udid]
            /\ told' = [told EXCEPT ![message.udid] = "attached"]
       ELSE /\ told' = [u \in Udids |-> IF u = Named(message) THEN "detached" ELSE told[u]]
            /\ UNCHANGED names
    /\ data' = Rest
    /\ UNCHANGED <<source, alive, links, lastId, wire, parser, known, missed, crashed>>

\* parseOutput gives up all lines of the event when one of them is no JSON.
LinesAreDropped ==
    /\ "noise" \in Environment
    /\ source = "go-ios" /\ data # <<>>
    /\ data' = <<>>
    /\ missed' = missed \cup {data[k].of.udid : k \in DOMAIN data}
    /\ UNCHANGED <<source, alive, links, lastId, wire, parser, known, names, told, crashed>>

-----------------------------------------------------------------------------
Usbmuxd ==
    \/ \E u \in Udids : Connect(u)
    \/ \E l \in links : Disconnect(l) \/ Pair(l)
    \/ SourceEnds

Tracker == DataEvent \/ ParseStep \/ Notify \/ LinesAreDropped

Next == Usbmuxd \/ Tracker

Spec == Init /\ [][Next]_vars

\* Fairness: the event loop reads what has come and finishes what it reads.
FairSpec == Spec /\ WF_vars(Tracker)

-----------------------------------------------------------------------------
(* Properties *)

\* Everything that was sent has been read.
UpToDate == alive /\ ~crashed /\ wire = <<>> /\ data = <<>>

(***************************************************************************)
(* The parser is in step with the stream: between messages it expects a     *)
(* header where one begins, and within a message what it has and what it    *)
(* still wants make up the body of one message.  So no message is lost,     *)
(* cut or run into the next, however the stream is cut into events, as long *)
(* as no event ends within a header; and nothing but a refusal of usbmuxd   *)
(* makes the process fail.                                                  *)
(***************************************************************************)
InStep ==
    LET rest == data \o wire IN
    /\ source = "usbmux" /\ alive /\ ~crashed =>
          IF parser.len = 0
          THEN rest # <<>> => rest[1].at = 1
          ELSE /\ Len(rest) >= parser.len
               /\ parser.msg \o Upto(rest, parser.len) = Body(rest[1].of)
    /\ crashed => parser.msg = Body(Reply("Refusal"))

(***************************************************************************)
(* A device without any connection is not left attached by either source,   *)
(* in whatever order its ids came and went.                                 *)
(***************************************************************************)
GoneIsReported ==
    UpToDate => \A u \in Udids \ missed : told[u] = "attached" => Linked(u)

(***************************************************************************)
(* A device that is connected is reported as attached, if it is connected   *)
(* in one way only; for go-ios, if it does not announce its pairing, too.   *)
(***************************************************************************)
PresentIsReported ==
    UpToDate =>
        \A u \in Udids \ (TwoWays \cup missed) :
            Linked(u) /\ (source = "usbmux" \/ u \notin Pairing) => told[u] = "attached"

(***************************************************************************)
(* Events do not stall: once a device that is connected in one way stays    *)
(* connected or stays away, the last event about it is the right one for    *)
(* good, unless the source ends or refuses, or a line about it was given up.*)
(***************************************************************************)
ChangeIsReported ==
    \A u \in Udids \ (TwoWays \cup Pairing) :
        [](alive /\ ~crashed /\ u \notin missed) =>
            /\ <>[]Linked(u) => <>[](told[u] = "attached")
            /\ <>[]~Linked(u) => <>[](told[u] # "attached")

=============================================================================
