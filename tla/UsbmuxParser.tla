---------------------------- MODULE UsbmuxParser ----------------------------
(***************************************************************************)
(* protocol.makeParser of usbmux.ts: the function that puts the messages of *)
(* usbmuxd together again from the data events of a socket.  A message is a *)
(* header, whose first bytes hold the length of the message, and a body.    *)
(*                                                                          *)
(* A byte is known by the message it belongs to and its place in it.  The   *)
(* state of a parser is its closure: the bytes that are missing from the    *)
(* body (len) and those that have come (msg).                               *)
(***************************************************************************)
EXTENDS Integers, Sequences

CONSTANTS
    HeaderLength,   \* 16 in the code
    BodyLength,     \* of every message here
    LengthField     \* 4 in the code: the bytes that readUInt32LE needs

ASSUME ParserAssumption ==
    /\ HeaderLength \in Nat \ {0}
    /\ BodyLength \in Nat \ {0}
    /\ LengthField \in 1..HeaderLength

MessageLength == HeaderLength + BodyLength

Bytes(message) == [k \in 1..MessageLength |-> [of |-> message, at |-> k]]

Body(message) == SubSeq(Bytes(message), HeaderLength + 1, MessageLength)

\* Buffer.slice(n), which takes a buffer that is too short for empty.
After(data, n) == SubSeq(data, n + 1, Len(data))
Upto(data, n) == SubSeq(data, 1, IF n < Len(data) THEN n ELSE Len(data))

Idle == [len |-> 0, msg |-> <<>>]

(***************************************************************************)
(* The length can be read if the event begins with a whole length field.    *)
(* A shorter event makes readUInt32LE throw, and other bytes give a number  *)
(* that has nothing to do with a length.                                    *)
(***************************************************************************)
Legible(data) ==
    /\ Len(data) >= LengthField
    /\ \A k \in 1..LengthField : data[k].at = k

\* Mutant of Header: the length is taken for the length of the body.
HeaderIncluded(data) ==
    [parser |-> [len |-> MessageLength, msg |-> <<>>], data |-> After(data, HeaderLength)]

\* if (!len): a new message begins.
Header(data) ==
    [parser |-> [len |-> BodyLength, msg |-> <<>>], data |-> After(data, HeaderLength)]

\* Mutant of Fill: what is left of the event is dropped.
FillAndDrop(parser, data) ==
    LET body == Upto(data, parser.len) IN
    [parser |-> [len |-> parser.len - Len(body), msg |-> parser.msg \o body],
     data |-> <<>>]

\* The body takes what it needs of the event and leaves the rest.
Fill(parser, data) ==
    LET body == Upto(data, parser.len) IN
    [parser |-> [len |-> parser.len - Len(body), msg |-> parser.msg \o body],
     data |-> After(data, Len(body))]

(***************************************************************************)
(* One call of parse: the state it leaves and the rest of the data, for     *)
(* which it calls itself.                                                   *)
(***************************************************************************)
Parse(parser, data) ==
    LET start == IF parser.len = 0 THEN Header(data)
                 ELSE [parser |-> parser, data |-> data]
    IN  IF start.data = <<>> THEN start ELSE Fill(start.parser, start.data)

\* onComplete is called when the last byte has come.
Complete(parser) == parser.len = 0 /\ parser.msg # <<>>

\* plist.parse accepts the body of one message and nothing else.
Whole(parser) == \E k \in DOMAIN parser.msg : parser.msg = Body(parser.msg[k].of)

=============================================================================
