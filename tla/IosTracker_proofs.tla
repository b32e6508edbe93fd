------------------------- MODULE IosTracker_proofs -------------------------
(***************************************************************************)
(* That the parser of usbmux.ts stays in step with the stream of usbmuxd,   *)
(* for every length of header and body and any cutting of the stream into   *)
(* data events that leaves headers whole.                                   *)
(***************************************************************************)
EXTENDS IosTracker, SequenceTheorems, TLAPS

-----------------------------------------------------------------------------
(* Slices of a stream *)

\* Buffer.slice from n on.
LEMMA AfterSlices ==
    ASSUME NEW S, NEW seq \in Seq(S), NEW n \in Nat
    PROVE  /\ After(seq, n) \in Seq(S)
           /\ Len(After(seq, n)) = IF n <= Len(seq) THEN Len(seq) - n ELSE 0
           /\ \A k \in 1..Len(After(seq, n)) : After(seq, n)[k] = seq[n + k]
<1>1. Len(seq) \in Nat /\ \A k \in 1..Len(seq) : seq[k] \in S
  BY LenProperties, ElementOfSeq
<1>2. \A k \in (n + 1)..Len(seq) : seq[k] \in S  BY <1>1
<1>3. /\ SubSeq(seq, n + 1, Len(seq)) \in Seq(S)
      /\ Len(SubSeq(seq, n + 1, Len(seq))) =
            IF n + 1 <= Len(seq) THEN Len(seq) - (n + 1) + 1 ELSE 0
      /\ \A k \in 1..(Len(seq) - (n + 1) + 1) :
            SubSeq(seq, n + 1, Len(seq))[k] = seq[n + 1 + k - 1]
  BY <1>1, <1>2, SubSeqProperties
<1>4. QED  BY <1>1, <1>3 DEF After

\* Two slices in a row.
LEMMA AfterTwice ==
    ASSUME NEW S, NEW seq \in Seq(S), NEW m \in Nat, NEW n \in Nat
    PROVE  m + n \in Nat /\ After(After(seq, m), n) = After(seq, m + n)
<1> DEFINE t == After(seq, m)
<1>1. Len(seq) \in Nat /\ m + n \in Nat  BY LenProperties
<1>2. /\ t \in Seq(S)
      /\ Len(t) = IF m <= Len(seq) THEN Len(seq) - m ELSE 0
      /\ \A k \in 1..Len(t) : t[k] = seq[m + k]
  BY AfterSlices
<1> HIDE DEF t
<1>3. /\ After(t, n) \in Seq(S)
      /\ Len(After(t, n)) = IF n <= Len(t) THEN Len(t) - n ELSE 0
      /\ \A k \in 1..Len(After(t, n)) : After(t, n)[k] = t[n + k]
  BY <1>2, AfterSlices
<1>4. /\ After(seq, m + n) \in Seq(S)
      /\ Len(After(seq, m + n)) = IF m + n <= Len(seq) THEN Len(seq) - (m + n) ELSE 0
      /\ \A k \in 1..Len(After(seq, m + n)) : After(seq, m + n)[k] = seq[m + n + k]
  BY <1>1, AfterSlices
<1>5. Len(After(t, n)) = Len(After(seq, m + n))  BY <1>1, <1>2, <1>3, <1>4
<1>6. \A k \in 1..Len(After(t, n)) : After(t, n)[k] = After(seq, m + n)[k]
  BY <1>1, <1>2, <1>3, <1>4, <1>5
<1>7. After(t, n) = After(seq, m + n)  BY <1>3, <1>4, <1>5, <1>6, SeqEqual
<1>8. QED  BY <1>1, <1>7 DEF t

\* Buffer.slice up to n.
LEMMA UptoSlices ==
    ASSUME NEW S, NEW seq \in Seq(S), NEW n \in Nat
    PROVE  /\ Upto(seq, n) \in Seq(S)
           /\ Len(Upto(seq, n)) = IF n <= Len(seq) THEN n ELSE Len(seq)
           /\ \A k \in 1..Len(Upto(seq, n)) : Upto(seq, n)[k] = seq[k]
<1> DEFINE m == IF n < Len(seq) THEN n ELSE Len(seq)
<1>1. Len(seq) \in Nat /\ \A k \in 1..Len(seq) : seq[k] \in S
  BY LenProperties, ElementOfSeq
<1>2. m \in Nat /\ \A k \in 1..m : seq[k] \in S  BY <1>1
<1>3. /\ SubSeq(seq, 1, m) \in Seq(S)
      /\ Len(SubSeq(seq, 1, m)) = IF 1 <= m THEN m - 1 + 1 ELSE 0
      /\ \A k \in 1..(m - 1 + 1) : SubSeq(seq, 1, m)[k] = seq[1 + k - 1]
  BY <1>2, SubSeqProperties
<1>4. QED  BY <1>1, <1>2, <1>3 DEF Upto

\* A message as it is sent.
LEMMA BytesSent ==
    ASSUME NEW message \in Message
    PROVE  /\ Bytes(message) \in Seq(Byte)
           /\ Len(Bytes(message)) = MessageLength
           /\ \A k \in 1..MessageLength : Bytes(message)[k] = [of |-> message, at |-> k]
<1>1. MessageLength \in Nat  BY ParserAssumption DEF MessageLength
<1>2. \A k \in 1..MessageLength : [of |-> message, at |-> k] \in Byte  BY DEF Byte
<1>3. Bytes(message) \in [1..MessageLength -> Byte]  BY <1>2 DEF Bytes
<1>4. Bytes(message) \in Seq(Byte)  BY <1>1, <1>3
<1>5. Len(Bytes(message)) = MessageLength  BY <1>1, <1>3, <1>4
<1>6. QED  BY <1>4, <1>5 DEF Bytes

\* Its body.
LEMMA BodySent ==
    ASSUME NEW message \in Message
    PROVE  /\ Body(message) \in Seq(Byte)
           /\ Len(Body(message)) = BodyLength
           /\ \A k \in 1..BodyLength :
                 Body(message)[k] = [of |-> message, at |-> HeaderLength + k]
<1>1. HeaderLength \in Nat \ {0} /\ BodyLength \in Nat \ {0}
      /\ MessageLength = HeaderLength + BodyLength
  BY ParserAssumption DEF MessageLength
<1>2. Body(message) = After(Bytes(message), HeaderLength)
  BY <1>1, BytesSent DEF Body, After
<1>3. /\ Bytes(message) \in Seq(Byte)
      /\ Len(Bytes(message)) = MessageLength
      /\ \A k \in 1..MessageLength : Bytes(message)[k] = [of |-> message, at |-> k]
  BY BytesSent
<1>4. HeaderLength \in Nat /\ HeaderLength <= MessageLength
      /\ MessageLength - HeaderLength = BodyLength
  BY <1>1
<1>5. /\ After(Bytes(message), HeaderLength) \in Seq(Byte)
      /\ Len(After(Bytes(message), HeaderLength)) = BodyLength
      /\ \A k \in 1..BodyLength :
            After(Bytes(message), HeaderLength)[k] = Bytes(message)[HeaderLength + k]
  <2> DEFINE seq == Bytes(message)
  <2> HIDE DEF seq
  <2>1. seq \in Seq(Byte) /\ Len(seq) = MessageLength  BY <1>3 DEF seq
  <2>2. /\ After(seq, HeaderLength) \in Seq(Byte)
        /\ Len(After(seq, HeaderLength)) =
              IF HeaderLength <= Len(seq) THEN Len(seq) - HeaderLength ELSE 0
        /\ \A k \in 1..Len(After(seq, HeaderLength)) :
              After(seq, HeaderLength)[k] = seq[HeaderLength + k]
    BY <1>4, <2>1, AfterSlices
  <2>3. QED  BY <1>4, <2>1, <2>2 DEF seq
<1>6. \A k \in 1..BodyLength : HeaderLength + k \in 1..MessageLength  BY <1>1
<1>7. QED  BY <1>2, <1>3, <1>5, <1>6

-----------------------------------------------------------------------------
(* Types *)

Parsers == [len : 0..BodyLength, msg : Seq(Byte)]

\* The lines of go-ios are about devices: only usbmuxd sends replies.
Lines(seq) ==
    source = "go-ios" => \A k \in 1..Len(seq) : seq[k].of.udid \in Udids

TypeInv == TypeOK /\ parser \in Parsers /\ Lines(data) /\ Lines(wire)

\* What is sent on the wire when a device comes, goes or is paired.
LEMMA SendTyped ==
    ASSUME TypeInv, NEW message \in Message, message.udid \in Udids,
           wire' = wire \o Bytes(message)
    PROVE  /\ wire' \in Seq(Byte)
           /\ source' = source => Lines(wire)'
<1>1. wire \in Seq(Byte)  BY DEF TypeInv, TypeOK
<1>2. /\ wire' \in Seq(Byte)
      /\ Len(wire') = Len(wire) + Len(Bytes(message))
      /\ \A k \in 1..Len(wire) + Len(Bytes(message)) :
            wire'[k] = IF k <= Len(wire) THEN wire[k] ELSE Bytes(message)[k - Len(wire)]
  BY <1>1, BytesSent, ConcatProperties
<1>3. Len(wire) \in Nat /\ MessageLength \in Nat
  BY <1>1, LenProperties, ParserAssumption DEF MessageLength
<1>4. ASSUME NEW k \in 1..Len(wire'), source = "go-ios" PROVE wire'[k].of.udid \in Udids
  <2>1. CASE k <= Len(wire)
    BY <1>2, <1>3, <1>4, <2>1 DEF TypeInv, Lines
  <2>2. CASE k > Len(wire)
    <3>1. k - Len(wire) \in 1..MessageLength  BY <1>2, <1>3, <2>2, BytesSent
    <3>2. wire'[k] = [of |-> message, at |-> k - Len(wire)]
      BY <1>2, <1>3, <2>2, <3>1, BytesSent
    <3>3. QED  BY <3>2
  <2>3. QED  BY <1>2, <1>3, <2>1, <2>2
<1>5. QED  BY <1>2, <1>4 DEF Lines

\* The steps of usbmuxd and of the devices.
LEMMA UsbmuxdTyped ==
    ASSUME TypeInv, Usbmuxd
    PROVE  TypeInv'
<1> USE DEF TypeInv
<1>1. ASSUME NEW l \in [id : Ids, udid : Udids],
             NEW type \in {"Attached", "Detached", "Paired"}, Send(About(type, l)),
             links' \subseteq links \cup {l}, lastId' \in Ids \cup {0}
      PROVE  TypeInv'
  <2>1. About(type, l) \in Message /\ About(type, l).udid \in Udids
    BY DEF About, Message
  <2>2. wire' \in Seq(Byte) /\ Lines(wire)'
    BY <1>1, <2>1, SendTyped DEF Send
  <2>3. QED  BY <1>1, <2>2 DEF Send, TypeOK, Lines
<1>2. ASSUME NEW u \in Udids, Connect(u) PROVE TypeInv'
  BY <1>1, <1>2 DEF Connect
<1>3. ASSUME NEW l \in links, Disconnect(l) \/ Pair(l) PROVE TypeInv'
  <2>1. l \in [id : Ids, udid : Udids] /\ lastId \in Ids \cup {0}  BY DEF TypeOK
  <2>2. CASE Disconnect(l)
    BY <1>1, <2>1, <2>2 DEF Disconnect
  <2>3. CASE Pair(l)
    BY <1>1, <2>1, <2>3 DEF Pair
  <2>4. QED  BY <1>3, <2>2, <2>3
<1>4. CASE SourceEnds
  <2>1. <<>> \in Seq(Byte) /\ Len(<<>>) = 0  BY EmptySeq
  <2>2. wire' = <<>> /\ UNCHANGED <<source, data, parser>>  BY <1>4 DEF SourceEnds
  <2>3. Lines(wire)' /\ Lines(data)'  BY <2>1, <2>2 DEF Lines
  <2>4. TypeOK'  BY <1>4, <2>1 DEF SourceEnds, TypeOK
  <2>5. QED  BY <2>2, <2>3, <2>4
<1>5. QED  BY <1>2, <1>3, <1>4 DEF Usbmuxd

\* A slice of the lines is lines.
LEMMA LinesSliced ==
    ASSUME NEW seq \in Seq(Byte), Lines(seq), NEW n \in Nat
    PROVE  Lines(After(seq, n)) /\ Lines(Upto(seq, n))
<1>1. Len(seq) \in Nat  BY LenProperties
<1>2. Lines(After(seq, n))
  <2>1. /\ Len(After(seq, n)) = IF n <= Len(seq) THEN Len(seq) - n ELSE 0
        /\ \A k \in 1..Len(After(seq, n)) : After(seq, n)[k] = seq[n + k]
    BY AfterSlices
  <2>2. QED  BY <1>1, <2>1 DEF Lines
<1>3. Lines(Upto(seq, n))
  <2>1. /\ Len(Upto(seq, n)) = IF n <= Len(seq) THEN n ELSE Len(seq)
        /\ \A k \in 1..Len(Upto(seq, n)) : Upto(seq, n)[k] = seq[k]
    BY UptoSlices
  <2>2. QED  BY <1>1, <2>1 DEF Lines
<1>4. QED  BY <1>2, <1>3

\* A call of parse leaves a parser and a rest of the data.
LEMMA ParseTyped ==
    ASSUME NEW p \in Parsers, NEW d \in Seq(Byte)
    PROVE  /\ Parse(p, d).parser \in Parsers
           /\ Parse(p, d).data \in Seq(Byte)
           /\ \E n \in Nat : Parse(p, d).data = After(d, n)
<1> DEFINE start == IF p.len = 0 THEN Header(d) ELSE [parser |-> p, data |-> d]
<1>1. HeaderLength \in Nat /\ BodyLength \in Nat \ {0} /\ Len(d) \in Nat
  BY ParserAssumption, LenProperties
<1>2. /\ start.parser \in Parsers
      /\ start.data \in Seq(Byte)
      /\ start.data = d \/ start.data = After(d, HeaderLength)
  <2>1. CASE p.len = 0
    <3>1. <<>> \in Seq(Byte) /\ BodyLength \in 0..BodyLength  BY <1>1, EmptySeq
    <3>2. After(d, HeaderLength) \in Seq(Byte)  BY <1>1, AfterSlices
    <3>3. QED  BY <2>1, <3>1, <3>2 DEF Header, Parsers
  <2>2. CASE p.len # 0  BY <2>2 DEF Parsers
  <2>3. QED  BY <2>1, <2>2
<1>3. CASE start.data = <<>>
  <2>1. Parse(p, d) = start  BY <1>3 DEF Parse
  <2>2. d = After(d, 0)
    BY SubSeqFull DEF After
  <2>3. QED  BY <1>1, <1>2, <2>1, <2>2
<1>4. CASE start.data # <<>>
  <2> DEFINE q == start.parser
             e == start.data
  <2>1. Parse(p, d) = Fill(q, e)  BY <1>4 DEF Parse
  <2> HIDE DEF start
  <2>2. q.len \in 0..BodyLength /\ q.msg \in Seq(Byte) /\ q.len \in Nat
    BY <1>1, <1>2 DEF Parsers
  <2> HIDE DEF q, e
  <2>3. e \in Seq(Byte) /\ Len(e) \in Nat  BY <1>2, LenProperties DEF e
  <2>4. /\ Upto(e, q.len) \in Seq(Byte)
        /\ Len(Upto(e, q.len)) = IF q.len <= Len(e) THEN q.len ELSE Len(e)
    BY <2>2, <2>3, UptoSlices
  <2>5. /\ q.msg \o Upto(e, q.len) \in Seq(Byte)
        /\ Len(Upto(e, q.len)) \in Nat
        /\ q.len - Len(Upto(e, q.len)) \in 0..BodyLength
    BY <1>1, <2>2, <2>3, <2>4, ConcatProperties
  <2>6. Fill(q, e).parser \in Parsers  BY <2>5 DEF Fill, Parsers
  <2>7. Fill(q, e).data = After(e, Len(Upto(e, q.len)))  BY DEF Fill
  <2>8. Fill(q, e).data \in Seq(Byte)  BY <2>3, <2>5, <2>7, AfterSlices
  <2>9. \E n \in Nat : Fill(q, e).data = After(d, n)
    <3>1. CASE e = d  BY <2>5, <2>7, <3>1
    <3>2. CASE e = After(d, HeaderLength)
      BY <1>1, <2>5, <2>7, <3>2, AfterTwice
    <3>3. QED  BY <1>2, <3>1, <3>2 DEF e
  <2>10. QED  BY <2>1, <2>6, <2>8, <2>9
<1>5. QED  BY <1>3, <1>4

\* A handler of messages keeps the types of the devices it knows.
LEMMA HandlerTyped ==
    ASSUME TypeOK, NEW message \in Message, OnMsgComplete(message)
    PROVE  /\ known' \in [Udids -> Ids \cup {None}]
           /\ told' \in [Udids -> {"nothing", "attached", "detached"}]
  BY DEF TypeOK, OnMsgComplete, ForgetId, Message

\* The tracker keeps the types.
LEMMA TrackerTyped ==
    ASSUME TypeInv, Tracker
    PROVE  TypeInv'
<1>1. /\ TypeOK /\ parser \in Parsers /\ Lines(data) /\ Lines(wire)
      /\ data \in Seq(Byte) /\ wire \in Seq(Byte) /\ <<>> \in Seq(Byte)
      /\ Lines(<<>>)
  BY EmptySeq DEF TypeInv, TypeOK, Lines
<1>2. CASE DataEvent
  <2>1. PICK n \in {k \in 1..Len(wire) : EndsEvent(k)} :
           data' = Upto(wire, n) /\ wire' = After(wire, n)
    BY <1>2 DEF DataEvent
  <2>2. n \in Nat  BY <2>1
  <2>3. data' \in Seq(Byte) /\ wire' \in Seq(Byte)
    BY <1>1, <2>1, <2>2, UptoSlices, AfterSlices
  <2>4. Lines(Upto(wire, n)) /\ Lines(After(wire, n))
    BY <1>1, <2>2, LinesSliced
  <2>5. UNCHANGED <<source, alive, links, lastId, parser, known, names, told, missed, crashed>>
    BY <1>2 DEF DataEvent
  <2>6. TypeOK'  BY <1>1, <2>3, <2>5 DEF TypeOK
  <2>7. QED  BY <1>1, <2>1, <2>4, <2>5, <2>6 DEF TypeInv, Lines
<1>3. CASE ParseStep
  <2> DEFINE next == Parse(parser, data)
  <2>1. /\ next.parser \in Parsers /\ next.data \in Seq(Byte)
        /\ \E n \in Nat : next.data = After(data, n)
    BY <1>1, ParseTyped
  <2>2. Lines(next.data)  BY <1>1, <2>1, LinesSliced
  <2>3. UNCHANGED <<source, alive, links, lastId, wire, names, missed>>
    BY <1>3 DEF ParseStep
  <2>4. Idle \in Parsers  BY <1>1, ParserAssumption DEF Idle, Parsers
  <2>5. parser' \in Parsers /\ crashed' \in BOOLEAN
    BY <1>1, <1>3, <2>1, <2>4 DEF ParseStep, Fatal, Complete, Whole
  <2>6. data' = <<>> \/ data' = next.data
    BY <1>3 DEF ParseStep
  <2>7. data' \in Seq(Byte) /\ Lines(data)'
    BY <1>1, <2>1, <2>2, <2>3, <2>6 DEF Lines
  <2>8. \/ UNCHANGED <<known, told>>
        \/ Complete(next.parser) /\ OnMsgComplete(next.parser.msg[1].of)
    BY <1>3 DEF ParseStep
  <2>9. /\ known' \in [Udids -> Ids \cup {None}]
        /\ told' \in [Udids -> {"nothing", "attached", "detached"}]
    <3>1. CASE UNCHANGED <<known, told>>  BY <1>1, <3>1 DEF TypeOK
    <3>2. CASE Complete(next.parser) /\ OnMsgComplete(next.parser.msg[1].of)
      <4>1. next.parser.msg \in Seq(Byte) /\ next.parser.msg # <<>>
        BY <2>1, <3>2 DEF Parsers, Complete
      <4>2. 1 \in 1..Len(next.parser.msg)  BY <4>1, EmptySeq
      <4>3. next.parser.msg[1] \in Byte  BY <4>1, <4>2, ElementOfSeq
      <4>4. next.parser.msg[1].of \in Message  BY <4>3 DEF Byte
      <4>5. QED  BY <1>1, <3>2, <4>4, HandlerTyped
    <3>3. QED  BY <2>8, <3>1, <3>2
  <2>10. TypeOK'  BY <1>1, <2>3, <2>5, <2>7, <2>9 DEF TypeOK, Parsers
  <2>11. QED  BY <1>1, <2>3, <2>5, <2>7, <2>10 DEF TypeInv, Lines
<1>4. CASE Notify \/ LinesAreDropped
  <2>1. source = "go-ios" /\ data # <<>>
    BY <1>4 DEF Notify, LinesAreDropped
  <2>2. 1 \in 1..Len(data)  BY <1>1, <2>1, EmptySeq
  <2>3. /\ \A k \in 1..Len(data) : data[k] \in Byte /\ data[k].of.udid \in Udids
        /\ DOMAIN data = 1..Len(data)
    BY <1>1, <2>1, ElementOfSeq, LenProperties DEF Lines
  <2>4. data[1].of \in Message  BY <2>2, <2>3 DEF Byte
  <2>5. MessageLength \in Nat  BY ParserAssumption DEF MessageLength
  <2>6. data' \in Seq(Byte) /\ Lines(data')
    BY <1>1, <1>4, <2>5, AfterSlices, LinesSliced DEF Notify, LinesAreDropped, Rest
  <2>7. /\ names' \in [Ids -> Udids \cup {None}]
        /\ told' \in [Udids -> {"nothing", "attached", "detached"}]
    BY <1>1, <1>4, <2>4 DEF Notify, LinesAreDropped, TypeOK, Message
  <2>8. missed' \subseteq Udids
    BY <1>1, <1>4, <2>3 DEF Notify, LinesAreDropped, TypeOK
  <2>9. UNCHANGED <<source, alive, links, lastId, wire, parser, known, crashed>>
    BY <1>4 DEF Notify, LinesAreDropped
  <2>10. TypeOK'  BY <1>1, <2>6, <2>7, <2>8, <2>9 DEF TypeOK
  <2>11. QED  BY <1>1, <2>6, <2>9, <2>10 DEF TypeInv, Lines
<1>5. QED  BY <1>2, <1>3, <1>4 DEF Tracker

\* The first answer of usbmuxd is typed.
LEMMA InitTyped == Init => TypeInv
<1> SUFFICES ASSUME Init PROVE TypeInv
  OBVIOUS
<1>1. <<>> \in Seq(Byte) /\ Len(<<>>) = 0  BY EmptySeq
<1>2. BodyLength \in Nat  BY ParserAssumption
<1>3. wire \in Seq(Byte)
  <2>1. CASE source = "go-ios"  BY <1>1, <2>1 DEF Init, FirstAnswers
  <2>2. CASE source # "go-ios"
    <3>1. PICK type \in {"Result", "Refusal"} : wire = Bytes(Reply(type))
      BY <2>2 DEF Init, FirstAnswers
    <3>2. Reply(type) \in Message  BY DEF Reply, Message
    <3>3. QED  BY <3>1, <3>2, BytesSent
  <2>3. QED  BY <2>1, <2>2
<1>4. Lines(wire) /\ Lines(data)
  BY <1>1 DEF Init, FirstAnswers, Lines
<1>5. parser \in Parsers  BY <1>1, <1>2 DEF Init, Idle, Parsers
<1>6. TypeOK  BY <1>1, <1>3, <1>5 DEF Init, TypeOK, Parsers
<1>7. QED  BY <1>4, <1>5, <1>6 DEF TypeInv

(***************************************************************************)
(* Whatever comes on the wire and however it is cut into events, the parser  *)
(* never holds more than a body, and the tables of both sources keep ids     *)
(* and udids apart.                                                          *)
(***************************************************************************)
THEOREM TrackerTypeCorrect == Spec => []TypeOK
<1>1. Init => TypeInv  BY InitTyped
<1>2. TypeInv /\ [Next]_vars => TypeInv'
  <2> SUFFICES ASSUME TypeInv, [Next]_vars PROVE TypeInv'
    OBVIOUS
  <2>1. CASE UNCHANGED vars
    BY <2>1 DEF vars, TypeInv, TypeOK, Lines
  <2>2. QED  BY <2>1, UsbmuxdTyped, TrackerTyped DEF Next
<1>3. TypeInv => TypeOK  BY DEF TypeInv
<1>4. QED  BY <1>1, <1>2, <1>3, PTL DEF Spec

-----------------------------------------------------------------------------
(***************************************************************************)
(* The stream: what is left of the event that is being parsed, and what has *)
(* yet to come.  Framed says of any stretch of it that the bytes of a       *)
(* message follow one another and that a message is followed by the first   *)
(* byte of one.  It is stated for two places at any distance, so that a     *)
(* stretch from a known byte on is known without an induction.              *)
(***************************************************************************)
Stream == data \o wire

Framed(seq) ==
    \A k, j \in 1..Len(seq) : k <= j =>
        /\ j - k <= MessageLength - seq[k].at =>
               seq[j] = [of |-> seq[k].of, at |-> seq[k].at + (j - k)]
        /\ j - k = MessageLength - seq[k].at + 1 => seq[j].at = 1

\* A refusal is what usbmuxd answers to Listen, and not about a device.
Sound(message) == message.type = "Refusal" => message = Reply("Refusal")

Genuine(seq) == \A k \in 1..Len(seq) : Sound(seq[k].of)

EndsWhole(seq) == seq # <<>> => seq[Len(seq)].at = MessageLength

\* An event does not end within a header.
EndsOutsideHeader(seq) == seq # <<>> => seq[Len(seq)].at >= HeaderLength

\* Lengths are numbers; the steps below need no more of them.
LEMMA Lengths ==
    /\ HeaderLength \in Nat \ {0} /\ BodyLength \in Nat \ {0}
    /\ MessageLength \in Nat /\ MessageLength = HeaderLength + BodyLength
    /\ LengthField \in 1..HeaderLength
  BY ParserAssumption DEF MessageLength

\* The places of bytes are numbers, too.
LEMMA Places ==
    ASSUME NEW seq \in Seq(Byte)
    PROVE  /\ Len(seq) \in Nat
           /\ \A k \in 1..Len(seq) : /\ seq[k] \in Byte
                                     /\ seq[k].of \in Message
                                     /\ seq[k].at \in 1..MessageLength
           /\ seq # <<>> => Len(seq) > 0
<1>1. Len(seq) \in Nat /\ \A k \in 1..Len(seq) : seq[k] \in Byte
  BY LenProperties, ElementOfSeq
<1>2. seq # <<>> => Len(seq) \in Nat \ {0}  BY EmptySeq
<1>3. QED  BY <1>1, <1>2 DEF Byte

\* A stretch of a framed stream is framed.
LEMMA StretchFramed ==
    ASSUME NEW seq \in Seq(Byte), NEW part \in Seq(Byte), NEW off \in Nat,
           off + Len(part) <= Len(seq),
           \A k \in 1..Len(part) : part[k] = seq[off + k],
           Framed(seq), Genuine(seq)
    PROVE  /\ Framed(part) /\ Genuine(part)
           /\ off + Len(part) = Len(seq) /\ EndsWhole(seq) => EndsWhole(part)
<1>1. Len(part) \in Nat /\ Len(seq) \in Nat  BY LenProperties
<1>2. \A k \in 1..Len(part) : off + k \in 1..Len(seq)  BY <1>1
<1>3. Framed(part)
  <2> SUFFICES ASSUME NEW k \in 1..Len(part), NEW j \in 1..Len(part), k <= j
               PROVE  /\ j - k <= MessageLength - part[k].at =>
                             part[j] = [of |-> part[k].of, at |-> part[k].at + (j - k)]
                      /\ j - k = MessageLength - part[k].at + 1 => part[j].at = 1
    BY DEF Framed
  <2>1. off + k \in 1..Len(seq) /\ off + j \in 1..Len(seq) /\ off + k <= off + j
        /\ (off + j) - (off + k) = j - k
    BY <1>1, <1>2
  <2>2. part[k] = seq[off + k] /\ part[j] = seq[off + j]  OBVIOUS
  <2>3. /\ (off + j) - (off + k) <= MessageLength - seq[off + k].at =>
              seq[off + j] = [of |-> seq[off + k].of,
                              at |-> seq[off + k].at + ((off + j) - (off + k))]
        /\ (off + j) - (off + k) = MessageLength - seq[off + k].at + 1 =>
              seq[off + j].at = 1
    BY <2>1 DEF Framed
  <2>4. QED  BY <2>1, <2>2, <2>3
<1>4. Genuine(part)  BY <1>2 DEF Genuine
<1>5. ASSUME off + Len(part) = Len(seq), EndsWhole(seq), part # <<>>
      PROVE  part[Len(part)].at = MessageLength
  <2>1. Len(part) \in 1..Len(part) /\ seq # <<>>
    BY <1>1, <1>5, Places, EmptySeq
  <2>2. QED  BY <1>5, <2>1 DEF EndsWhole
<1>6. QED  BY <1>3, <1>4, <1>5 DEF EndsWhole

\* What is left of a stream when an event was read up to a place.
LEMMA RestOfStream ==
    ASSUME NEW d \in Seq(Byte), NEW w \in Seq(Byte), NEW n \in 0..Len(d)
    PROVE  /\ After(d, n) \o w \in Seq(Byte)
           /\ d \o w \in Seq(Byte)
           /\ n + Len(After(d, n) \o w) = Len(d \o w)
           /\ \A k \in 1..Len(After(d, n) \o w) : (After(d, n) \o w)[k] = (d \o w)[n + k]
<1>1. Len(d) \in Nat /\ Len(w) \in Nat /\ n \in Nat  BY LenProperties
<1> DEFINE e == After(d, n)
<1>2. /\ e \in Seq(Byte)
      /\ Len(e) = Len(d) - n
      /\ \A k \in 1..Len(e) : e[k] = d[n + k]
  BY <1>1, AfterSlices
<1> HIDE DEF e
<1>3. /\ e \o w \in Seq(Byte)
      /\ Len(e \o w) = Len(e) + Len(w)
      /\ \A k \in 1..Len(e) + Len(w) :
            (e \o w)[k] = IF k <= Len(e) THEN e[k] ELSE w[k - Len(e)]
  BY <1>2, ConcatProperties
<1>4. /\ d \o w \in Seq(Byte)
      /\ Len(d \o w) = Len(d) + Len(w)
      /\ \A k \in 1..Len(d) + Len(w) :
            (d \o w)[k] = IF k <= Len(d) THEN d[k] ELSE w[k - Len(d)]
  BY ConcatProperties
<1>5. ASSUME NEW k \in 1..Len(e \o w) PROVE (e \o w)[k] = (d \o w)[n + k]
  <2>1. k \in 1..Len(e) + Len(w) /\ n + k \in 1..Len(d) + Len(w)
    BY <1>1, <1>2, <1>3
  <2>2. CASE k <= Len(e)
    <3>1. k \in 1..Len(e) /\ n + k <= Len(d)  BY <1>1, <1>2, <2>2
    <3>2. QED  BY <1>2, <1>3, <1>4, <2>1, <3>1
  <2>3. CASE ~(k <= Len(e))
    <3>1. ~(n + k <= Len(d)) /\ k - Len(e) = n + k - Len(d)  BY <1>1, <1>2, <2>3
    <3>2. (e \o w)[k] = w[k - Len(e)]  BY <1>3, <2>1, <2>3
    <3>3. (d \o w)[n + k] = w[n + k - Len(d)]  BY <1>4, <2>1, <3>1
    <3>4. QED  BY <3>1, <3>2, <3>3
  <2>4. QED  BY <2>2, <2>3
<1>6. n + Len(e \o w) = Len(d \o w)  BY <1>1, <1>2, <1>3, <1>4
<1>7. QED  BY <1>3, <1>4, <1>5, <1>6 DEF e

\* A message that is sent continues the stream.
LEMMA SentFramed ==
    ASSUME NEW seq \in Seq(Byte), Framed(seq), Genuine(seq), EndsWhole(seq),
           NEW message \in Message, Sound(message)
    PROVE  /\ seq \o Bytes(message) \in Seq(Byte)
           /\ Framed(seq \o Bytes(message)) /\ Genuine(seq \o Bytes(message))
           /\ EndsWhole(seq \o Bytes(message))
<1> DEFINE m == Bytes(message)
           long == seq \o m
<1>1. /\ m \in Seq(Byte) /\ Len(m) = MessageLength
      /\ \A k \in 1..MessageLength : m[k] = [of |-> message, at |-> k]
  BY BytesSent
<1>2. /\ long \in Seq(Byte)
      /\ Len(long) = Len(seq) + MessageLength
      /\ \A k \in 1..Len(seq) + MessageLength :
            long[k] = IF k <= Len(seq) THEN seq[k] ELSE m[k - Len(seq)]
  BY <1>1, ConcatProperties
<1>3. /\ Len(seq) \in Nat /\ MessageLength \in Nat \ {0}
      /\ \A k \in 1..Len(seq) : seq[k].at \in 1..MessageLength
  BY Lengths, Places
<1> HIDE DEF m, long
<1>4. ASSUME NEW k \in 1..Len(long), k > Len(seq)
      PROVE  long[k] = [of |-> message, at |-> k - Len(seq)]
  <2>1. k - Len(seq) \in 1..MessageLength  BY <1>2, <1>3, <1>4
  <2>2. k \in 1..Len(seq) + MessageLength /\ ~(k <= Len(seq))  BY <1>2, <1>3, <1>4
  <2>3. long[k] = m[k - Len(seq)]  BY <1>2, <2>2
  <2>4. QED  BY <1>1, <2>1, <2>3
<1>5. ASSUME NEW k \in 1..Len(long), k <= Len(seq)
      PROVE  long[k] = seq[k] /\ k \in 1..Len(seq)
  BY <1>2, <1>3, <1>5
\* A byte of the old stream is not so far from its end that it is cut.
<1>6. ASSUME NEW k \in 1..Len(seq)
      PROVE  MessageLength - seq[k].at <= Len(seq) - k
  <2>1. seq[Len(seq)].at = MessageLength /\ Len(seq) \in 1..Len(seq)
    BY <1>3, <1>6, EmptySeq DEF EndsWhole
  <2>2. Len(seq) - k <= MessageLength - seq[k].at =>
           seq[Len(seq)] = [of |-> seq[k].of, at |-> seq[k].at + (Len(seq) - k)]
    BY <1>3, <1>6, <2>1 DEF Framed
  <2>3. Len(seq) - k <= MessageLength - seq[k].at =>
           MessageLength = seq[k].at + (Len(seq) - k)
    BY <2>1, <2>2
  <2>4. seq[k].at \in Nat /\ k \in Nat  BY <1>3, <1>6
  <2>5. QED  BY <1>3, <2>3, <2>4
<1>7. Framed(long)
  <2> SUFFICES ASSUME NEW k \in 1..Len(long), NEW j \in 1..Len(long), k <= j
               PROVE  /\ j - k <= MessageLength - long[k].at =>
                             long[j] = [of |-> long[k].of, at |-> long[k].at + (j - k)]
                      /\ j - k = MessageLength - long[k].at + 1 => long[j].at = 1
    BY DEF Framed
  <2>1. CASE j <= Len(seq)
    <3>1. k <= Len(seq)  BY <1>2, <1>3, <2>1
    <3>2. QED  BY <1>5, <2>1, <3>1 DEF Framed
  <2>2. CASE k > Len(seq)
    <3>1. j > Len(seq)  BY <1>2, <1>3, <2>2
    <3>2. /\ long[k] = [of |-> message, at |-> k - Len(seq)]
          /\ long[j] = [of |-> message, at |-> j - Len(seq)]
      BY <1>4, <2>2, <3>1
    <3>3. QED  BY <1>2, <1>3, <3>2
  <2>3. CASE k <= Len(seq) /\ j > Len(seq)
    <3>1. long[k] = seq[k] /\ k \in 1..Len(seq)  BY <1>5, <2>3
    <3>2. long[j] = [of |-> message, at |-> j - Len(seq)]  BY <1>4, <2>3
    <3>3. MessageLength - seq[k].at <= Len(seq) - k /\ seq[k].at \in 1..MessageLength
      BY <1>3, <1>6, <3>1
    <3>4. k \in Nat /\ j \in Nat /\ seq[k].at \in Nat  BY <1>2, <1>3, <3>3
    <3>5. ~(j - k <= MessageLength - seq[k].at)  BY <1>3, <2>3, <3>3, <3>4
    <3>6. j - k = MessageLength - seq[k].at + 1 => j - Len(seq) = 1
      BY <1>3, <2>3, <3>3, <3>4
    <3>7. QED  BY <3>1, <3>2, <3>5, <3>6
  <2>4. QED  BY <1>2, <1>3, <2>1, <2>2, <2>3
<1>8. Genuine(long)
  <2> SUFFICES ASSUME NEW k \in 1..Len(long) PROVE Sound(long[k].of)
    BY DEF Genuine
  <2>1. CASE k <= Len(seq)  BY <1>5, <2>1 DEF Genuine
  <2>2. CASE k > Len(seq)
    <3>1. long[k] = [of |-> message, at |-> k - Len(seq)]  BY <1>4, <2>2
    <3>2. long[k].of = message  BY <3>1
    <3>3. QED  BY <3>2
  <2>3. QED  BY <1>2, <1>3, <2>1, <2>2
<1>9. EndsWhole(long)
  <2>1. Len(long) \in 1..Len(long) /\ Len(long) > Len(seq)  BY <1>2, <1>3
  <2>2. long[Len(long)] = [of |-> message, at |-> Len(long) - Len(seq)]
    BY <1>4, <2>1
  <2>3. QED  BY <1>2, <1>3, <2>2 DEF EndsWhole
<1>10. QED  BY <1>2, <1>7, <1>8, <1>9 DEF m, long

-----------------------------------------------------------------------------
(***************************************************************************)
(* The parser in the stream: between two messages, or within one of which   *)
(* it has the first bytes of the body.                                      *)
(***************************************************************************)
Begins(seq) == seq # <<>> => seq[1].at = 1

FirstIs(seq, message, place) == seq[1] = [of |-> message, at |-> place]

\* The first bytes of the body of a message.
OfBody(msg, message) ==
    \A k \in 1..Len(msg) : msg[k] = [of |-> message, at |-> HeaderLength + k]

Within(p, message, seq) ==
    /\ p.len > 0
    /\ Len(p.msg) = BodyLength - p.len
    /\ OfBody(p.msg, message)
    /\ seq # <<>> => FirstIs(seq, message, HeaderLength + Len(p.msg) + 1)

InPhase(p, seq) ==
    IF p.len = 0 THEN p.msg = <<>> /\ Begins(seq)
    ELSE \E message \in Message : Sound(message) /\ Within(p, message, seq)

\* A parser that waits for bytes has some to come.
Fed(p, seq) == seq = <<>> => p.len = 0

\* What a call of parse makes of a message: its whole body, or a part of it.
Reads(next, message, w) ==
    IF next.parser.len = 0 THEN next.parser.msg = Body(message) /\ Begins(next.data \o w)
    ELSE Within(next.parser, message, next.data \o w)

\* The bytes that follow those of a body in a framed stretch.
LEMMA BodyContinues ==
    ASSUME NEW s \in Seq(Byte), Framed(s), NEW message \in Message,
           NEW have \in Nat, have < BodyLength, 1 \in 1..Len(s),
           FirstIs(s, message, HeaderLength + have + 1),
           NEW j \in 1..Len(s)
    PROVE  /\ j <= BodyLength - have => s[j] = [of |-> message, at |-> HeaderLength + have + j]
           /\ j = BodyLength - have + 1 => s[j].at = 1
<1>1. /\ HeaderLength \in Nat /\ BodyLength \in Nat /\ MessageLength \in Nat
      /\ MessageLength = HeaderLength + BodyLength
  BY Lengths
<1>2. j \in Nat /\ 1 <= j  BY LenProperties
<1>3. s[1].of = message /\ s[1].at = HeaderLength + have + 1  BY DEF FirstIs
<1>4. /\ j - 1 <= MessageLength - s[1].at =>
            s[j] = [of |-> s[1].of, at |-> s[1].at + (j - 1)]
      /\ j - 1 = MessageLength - s[1].at + 1 => s[j].at = 1
  BY <1>2 DEF Framed
<1> DEFINE at1 == HeaderLength + have + 1
<1>5. /\ j <= BodyLength - have => j - 1 <= MessageLength - at1
      /\ j = BodyLength - have + 1 => j - 1 = MessageLength - at1 + 1
      /\ at1 + (j - 1) = HeaderLength + have + j
  BY <1>1, <1>2
<1>6. s[1].at = at1  BY <1>3
<1> HIDE DEF at1
<1>7. QED  BY <1>3, <1>4, <1>5, <1>6

Starts(b, seq) == \A k \in 1..Len(b) : b[k] = seq[k]

\* What has come of a body, with the bytes that follow in the stream.
LEMMA BodyGrows ==
    ASSUME NEW s \in Seq(Byte), Framed(s), NEW message \in Message,
           NEW msg \in Seq(Byte), Len(msg) < BodyLength, 1 \in 1..Len(s),
           OfBody(msg, message),
           FirstIs(s, message, HeaderLength + Len(msg) + 1),
           NEW b \in Seq(Byte), Len(b) <= Len(s), Len(b) <= BodyLength - Len(msg),
           Starts(b, s)
    PROVE  /\ msg \o b \in Seq(Byte)
           /\ Len(msg \o b) = Len(msg) + Len(b)
           /\ OfBody(msg \o b, message)
<1>1. HeaderLength \in Nat /\ BodyLength \in Nat  BY Lengths
<1>2. Len(msg) \in Nat /\ Len(b) \in Nat /\ Len(s) \in Nat  BY LenProperties
<1>3. /\ msg \o b \in Seq(Byte) /\ Len(msg \o b) = Len(msg) + Len(b)
      /\ \A k \in 1..Len(msg) + Len(b) :
            (msg \o b)[k] = IF k <= Len(msg) THEN msg[k] ELSE b[k - Len(msg)]
  BY ConcatProperties
<1>4. ASSUME NEW k \in 1..Len(msg) + Len(b)
      PROVE  (msg \o b)[k] = [of |-> message, at |-> HeaderLength + k]
  <2>1. k \in Nat /\ 1 <= k /\ k <= Len(msg) + Len(b)  BY <1>2
  <2>2. CASE k <= Len(msg)
    <3>1. k \in 1..Len(msg)  BY <1>2, <2>1, <2>2
    <3>2. (msg \o b)[k] = msg[k]  BY <1>3, <1>4, <2>2
    <3>3. QED  BY <3>1, <3>2 DEF OfBody
  <2>3. CASE ~(k <= Len(msg))
    <3> DEFINE j == k - Len(msg)
    <3>1. j \in Nat /\ k = Len(msg) + j /\ 1 <= j /\ j <= Len(b)  BY <1>2, <2>1, <2>3
    <3>2. j \in 1..Len(b) /\ j \in 1..Len(s) /\ j <= BodyLength - Len(msg)
      BY <1>1, <1>2, <3>1
    <3>3. (msg \o b)[k] = b[j]  BY <1>3, <1>4, <2>3
    <3> HIDE DEF j
    <3>4. b[j] = s[j]  BY <3>2 DEF Starts
    <3>5. s[j] = [of |-> message, at |-> HeaderLength + Len(msg) + j]
      BY <1>2, <3>2, BodyContinues
    <3>6. HeaderLength + Len(msg) + j = HeaderLength + k  BY <1>1, <1>2, <3>1
    <3>7. QED  BY <3>3, <3>4, <3>5, <3>6
  <2>4. QED  BY <2>2, <2>3
<1>5. QED  BY <1>3, <1>4 DEF OfBody

\* The body takes its own bytes and no others.
LEMMA FillReads ==
    ASSUME NEW d \in Seq(Byte), NEW w \in Seq(Byte), d # <<>>, Framed(d \o w),
           NEW p \in Parsers, NEW message \in Message, Within(p, message, d \o w)
    PROVE  /\ \E n \in 1..Len(d) : Fill(p, d).data = After(d, n)
           /\ Reads(Fill(p, d), message, w)
           /\ EndsWhole(d \o w) => Fed(Fill(p, d).parser, Fill(p, d).data \o w)
<1>1. PICK len \in Nat, msg \in Seq(Byte) : len = p.len /\ msg = p.msg
  BY Lengths DEF Parsers
<1>2. HeaderLength \in Nat /\ BodyLength \in Nat  BY Lengths
<1>3. /\ len > 0 /\ len <= BodyLength
      /\ Len(msg) = BodyLength - len
      /\ OfBody(msg, message)
      /\ d \o w # <<>> => FirstIs(d \o w, message, HeaderLength + Len(msg) + 1)
  <2>1. p.len \in 0..BodyLength  BY DEF Parsers
  <2>2. p.len <= BodyLength  BY <1>2, <2>1
  <2>3. QED  BY <1>1, <2>2 DEF Within
<1>4. Len(d) \in Nat /\ Len(d) > 0 /\ Len(w) \in Nat /\ Len(msg) \in Nat
  BY Places
<1> DEFINE b == Upto(d, len)
           n == Len(b)
           s == d \o w
           q == msg \o b
           r == After(d, n) \o w
<1>5. /\ b \in Seq(Byte)
      /\ n = IF len <= Len(d) THEN len ELSE Len(d)
      /\ \A k \in 1..n : b[k] = d[k]
  BY <1>1, UptoSlices
<1>6. Fill(p, d) = [parser |-> [len |-> len - n, msg |-> q], data |-> After(d, n)]
  BY <1>1 DEF Fill
<1>7. /\ s \in Seq(Byte) /\ Len(s) = Len(d) + Len(w)
      /\ \A k \in 1..Len(d) + Len(w) : s[k] = IF k <= Len(d) THEN d[k] ELSE w[k - Len(d)]
  BY ConcatProperties
<1> HIDE DEF b
<1>8. n \in Nat /\ n \in 1..Len(d) /\ n <= len /\ n <= Len(d)  BY <1>3, <1>4, <1>5
<1>9. /\ r \in Seq(Byte) /\ n + Len(r) = Len(s)
      /\ \A k \in 1..Len(r) : r[k] = s[n + k]
  <2>1. n \in 0..Len(d)  BY <1>4, <1>8
  <2> HIDE DEF n
  <2>2. QED  BY <2>1, RestOfStream
<1>10. Framed(s)  OBVIOUS
<1>11. s # <<>> => FirstIs(s, message, HeaderLength + Len(msg) + 1)  BY <1>3
<1> HIDE DEF s, n, r
<1>12. 1 \in 1..Len(s) /\ n <= Len(s) /\ Len(s) \in Nat  BY <1>4, <1>7, <1>8
<1>13. FirstIs(s, message, HeaderLength + Len(msg) + 1)
  BY <1>11, <1>12, EmptySeq
<1>14. Starts(b, s)
  <2> SUFFICES ASSUME NEW k \in 1..n PROVE b[k] = s[k]
    BY DEF Starts, n
  <2>1. k \in 1..Len(d) + Len(w) /\ k <= Len(d)  BY <1>4, <1>8
  <2>2. QED  BY <1>5, <1>7, <2>1
<1>15. /\ Len(msg) < BodyLength
       /\ n <= BodyLength - Len(msg)
       /\ BodyLength - Len(msg) = len
  BY <1>2, <1>3, <1>4, <1>8
<1>16. n = Len(b)  BY DEF n
<1>17. /\ q \in Seq(Byte) /\ Len(q) = Len(msg) + n
       /\ OfBody(q, message)
  <2>1. Len(b) <= Len(s) /\ Len(b) <= BodyLength - Len(msg)  BY <1>12, <1>15, <1>16
  <2>2. msg \in Seq(Byte) /\ b \in Seq(Byte) /\ s \in Seq(Byte) /\ OfBody(msg, message)
        /\ 1 \in 1..Len(s) /\ Len(msg) < BodyLength
    BY <1>1, <1>3, <1>5, <1>7, <1>12, <1>15
  <2>3. q \in Seq(Byte) /\ Len(q) = Len(msg) + Len(b) /\ OfBody(q, message)
    BY <1>10, <1>13, <1>14, <2>1, <2>2, BodyGrows
  <2>4. QED  BY <1>16, <2>3
<1> HIDE DEF q
<1>18. ASSUME r # <<>>
       PROVE  /\ n < len => r[1] = [of |-> message, at |-> HeaderLength + Len(q) + 1]
              /\ n = len => r[1].at = 1
  <2>1. Len(r) \in Nat /\ Len(r) > 0  BY <1>9, <1>18, Places
  <2>2. 1 \in 1..Len(r) /\ n + 1 \in 1..Len(s)  BY <1>8, <1>9, <1>12, <2>1
  <2>3. r[1] = s[n + 1]  BY <1>9, <2>2
  <2>4. /\ n + 1 <= BodyLength - Len(msg) =>
              s[n + 1] = [of |-> message, at |-> HeaderLength + Len(msg) + (n + 1)]
        /\ n + 1 = BodyLength - Len(msg) + 1 => s[n + 1].at = 1
    <3>1. s \in Seq(Byte) /\ Len(msg) \in Nat /\ Len(msg) < BodyLength
          /\ 1 \in 1..Len(s) /\ n + 1 \in 1..Len(s)
      BY <1>4, <1>7, <1>12, <1>15, <2>2
    <3>2. QED  BY <1>10, <1>13, <3>1, BodyContinues
  <2>5. /\ n < len => n + 1 <= BodyLength - Len(msg)
        /\ n = len => n + 1 = BodyLength - Len(msg) + 1
        /\ HeaderLength + Len(msg) + (n + 1) = HeaderLength + Len(q) + 1
    BY <1>2, <1>3, <1>4, <1>8, <1>15, <1>17
  <2>6. QED  BY <2>3, <2>4, <2>5
<1>19. Reads([parser |-> [len |-> len - n, msg |-> q], data |-> After(d, n)], message, w)
  <2>1. CASE n = len
    <3>1. len - n = 0 /\ Len(q) = BodyLength  BY <1>2, <1>3, <1>4, <1>8, <1>17, <2>1
    <3>2. /\ Body(message) \in Seq(Byte) /\ Len(Body(message)) = BodyLength
          /\ \A k \in 1..BodyLength :
                Body(message)[k] = [of |-> message, at |-> HeaderLength + k]
      BY BodySent
    <3>3. \A k \in 1..Len(q) : q[k] = Body(message)[k]  BY <1>17, <3>1, <3>2 DEF OfBody
    <3>4. q = Body(message)  BY <1>17, <3>1, <3>2, <3>3, SeqEqual
    <3>5. Begins(r)  BY <1>18, <2>1 DEF Begins
    <3>6. QED  BY <3>1, <3>4, <3>5 DEF Reads, r
  <2>2. CASE n # len
    <3>1. n < len /\ len - n > 0 /\ len - n # 0 /\ Len(q) = BodyLength - (len - n)
      BY <1>2, <1>3, <1>4, <1>8, <1>17, <2>2
    <3>2. Within([len |-> len - n, msg |-> q], message, r)
      BY <1>17, <1>18, <3>1 DEF Within, FirstIs
    <3>3. QED  BY <3>1, <3>2 DEF Reads, r
  <2>3. QED  BY <2>1, <2>2
<1>20. ASSUME EndsWhole(d \o w), r = <<>> PROVE len - n = 0
  <2>1. Len(r) = 0  BY <1>20, EmptySeq
  <2>2. n = Len(s)  BY <1>8, <1>9, <1>12, <2>1
  <2>3. s # <<>>  BY <1>12, EmptySeq
  <2>4. s[n].at = MessageLength  BY <1>20, <2>2, <2>3 DEF EndsWhole, s
  <2>5. n \in 1..Len(s) /\ n <= BodyLength - Len(msg) /\ Len(msg) \in Nat
        /\ s \in Seq(Byte) /\ Len(msg) < BodyLength
    BY <1>4, <1>7, <1>8, <1>12, <1>15, <2>2
  <2>6. s[n] = [of |-> message, at |-> HeaderLength + Len(msg) + n]
    BY <1>10, <1>12, <1>13, <2>5, BodyContinues
  <2>7. MessageLength = HeaderLength + Len(msg) + n  BY <2>4, <2>6
  <2>8. MessageLength = HeaderLength + BodyLength  BY Lengths
  <2>9. QED  BY <1>2, <1>3, <1>4, <1>8, <2>7, <2>8
<1>21. EndsWhole(d \o w) => Fed(Fill(p, d).parser, Fill(p, d).data \o w)
  BY <1>6, <1>20 DEF Fed, r
<1>22. QED  BY <1>6, <1>8, <1>19, <1>21

\* The bytes of a message that begins a framed stretch.
LEMMA MessageBegins ==
    ASSUME NEW s \in Seq(Byte), Framed(s), 1 \in 1..Len(s), s[1].at = 1,
           NEW j \in 1..Len(s), j <= MessageLength
    PROVE  s[j] = [of |-> s[1].of, at |-> j]
<1>1. MessageLength \in Nat  BY Lengths
<1>2. j \in Nat /\ 1 <= j  BY LenProperties
<1>3. j - 1 <= MessageLength - s[1].at =>
         s[j] = [of |-> s[1].of, at |-> s[1].at + (j - 1)]
  BY <1>2 DEF Framed
<1>4. j - 1 <= MessageLength - 1 /\ 1 + (j - 1) = j  BY <1>1, <1>2
<1>5. QED  BY <1>3, <1>4

\* A header is whole, can be read, and leaves the parser before its body.
LEMMA HeaderReads ==
    ASSUME NEW d \in Seq(Byte), NEW w \in Seq(Byte), d # <<>>, EndsOutsideHeader(d),
           Framed(d \o w), Genuine(d \o w), Begins(d \o w)
    PROVE  /\ Legible(d)
           /\ HeaderLength \in 1..Len(d)
           /\ \E message \in Message :
                 /\ Sound(message) /\ (d \o w)[1].of = message
                 /\ Within([len |-> BodyLength, msg |-> <<>>], message,
                           After(d, HeaderLength) \o w)
           /\ EndsWhole(d \o w) => After(d, HeaderLength) \o w # <<>>
<1> DEFINE s == d \o w
           e == After(d, HeaderLength) \o w
           message == s[1].of
<1>1. /\ HeaderLength \in Nat /\ BodyLength \in Nat /\ MessageLength \in Nat
      /\ HeaderLength > 0 /\ BodyLength > 0
      /\ MessageLength = HeaderLength + BodyLength
      /\ LengthField \in Nat /\ LengthField <= HeaderLength
  BY Lengths
<1>2. Len(d) \in Nat /\ Len(d) > 0 /\ Len(w) \in Nat  BY Places
<1>3. /\ s \in Seq(Byte) /\ Len(s) = Len(d) + Len(w)
      /\ \A k \in 1..Len(d) + Len(w) : s[k] = IF k <= Len(d) THEN d[k] ELSE w[k - Len(d)]
  BY ConcatProperties
<1>4. Framed(s) /\ Genuine(s) /\ Begins(s)  OBVIOUS
<1> HIDE DEF s
<1>5. Len(s) \in Nat /\ 1 \in 1..Len(s) /\ s # <<>>  BY <1>2, <1>3, EmptySeq
<1>6. s[1].at = 1 /\ message \in Message /\ Sound(message)
  BY <1>3, <1>4, <1>5, Places DEF Begins, Genuine
<1> HIDE DEF message
<1>7. ASSUME NEW j \in 1..Len(s), j <= MessageLength
      PROVE  s[j] = [of |-> message, at |-> j]
  BY <1>3, <1>4, <1>5, <1>6, <1>7, MessageBegins DEF message
<1>8. ASSUME NEW j \in 1..Len(d) PROVE j \in 1..Len(s) /\ d[j] = s[j]
  <2>1. j \in 1..Len(d) + Len(w) /\ j <= Len(d)  BY <1>2
  <2>2. QED  BY <1>3, <2>1
<1>9. Len(d) >= HeaderLength
  <2>1. SUFFICES ASSUME Len(d) < HeaderLength PROVE FALSE
    BY <1>1, <1>2
  <2>2. Len(d) \in 1..Len(d) /\ Len(d) <= MessageLength  BY <1>1, <1>2, <2>1
  <2>3. d[Len(d)].at = Len(d)
    <3>1. Len(d) \in 1..Len(s) /\ d[Len(d)] = s[Len(d)]  BY <1>8, <2>2
    <3>2. s[Len(d)] = [of |-> message, at |-> Len(d)]  BY <1>7, <2>2, <3>1
    <3>3. QED  BY <3>1, <3>2
  <2>4. d[Len(d)].at >= HeaderLength  BY DEF EndsOutsideHeader
  <2>5. QED  BY <1>1, <1>2, <2>1, <2>3, <2>4
<1>10. Legible(d)
  <2>1. Len(d) >= LengthField  BY <1>1, <1>2, <1>9
  <2>2. ASSUME NEW k \in 1..LengthField PROVE d[k].at = k
    <3>1. k \in 1..Len(d) /\ k <= MessageLength  BY <1>1, <1>2, <2>1
    <3>2. k \in 1..Len(s) /\ d[k] = s[k]  BY <1>8, <3>1
    <3>3. s[k] = [of |-> message, at |-> k]  BY <1>7, <3>1, <3>2
    <3>4. QED  BY <3>2, <3>3
  <2>3. QED  BY <2>1, <2>2 DEF Legible
<1>11. HeaderLength \in 1..Len(d)  BY <1>1, <1>2, <1>9
<1>12. e \in Seq(Byte) /\ HeaderLength + Len(e) = Len(s)
       /\ \A k \in 1..Len(e) : e[k] = s[HeaderLength + k]
  <2>1. HeaderLength \in 0..Len(d)  BY <1>1, <1>2, <1>9
  <2>2. QED  BY <2>1, RestOfStream DEF s
<1> HIDE DEF e
<1>13. ASSUME e # <<>> PROVE FirstIs(e, message, HeaderLength + 1)
  <2>1. Len(e) \in Nat /\ Len(e) > 0  BY <1>12, <1>13, Places
  <2>2. 1 \in 1..Len(e) /\ HeaderLength + 1 \in 1..Len(s)
        /\ HeaderLength + 1 <= MessageLength
    BY <1>1, <1>5, <1>12, <2>1
  <2>3. QED  BY <1>7, <1>12, <2>2 DEF FirstIs
<1>14. Within([len |-> BodyLength, msg |-> <<>>], message, e)
  <2>1. <<>> \in Seq(Byte) /\ Len(<<>>) = 0  BY EmptySeq
  <2>2. OfBody(<<>>, message)  BY <2>1 DEF OfBody
  <2>3. Len(<<>>) = BodyLength - BodyLength /\ HeaderLength + Len(<<>>) + 1 = HeaderLength + 1
    BY <1>1, <2>1
  <2>4. QED  BY <1>1, <1>13, <2>2, <2>3 DEF Within
<1>15. EndsWhole(d \o w) => e # <<>>
  <2> SUFFICES ASSUME EndsWhole(s), e = <<>> PROVE FALSE
    BY DEF s
  <2>1. Len(s) = HeaderLength /\ Len(s) \in 1..Len(s) /\ Len(s) <= MessageLength
    BY <1>1, <1>5, <1>12, EmptySeq
  <2>2. s[Len(s)].at = MessageLength  BY <1>5 DEF EndsWhole
  <2>3. s[Len(s)] = [of |-> message, at |-> Len(s)]  BY <1>7, <2>1
  <2>4. MessageLength = Len(s)  BY <2>2, <2>3
  <2>5. QED  BY <1>1, <2>1, <2>4
<1>16. (d \o w)[1].of = message  BY DEF message, s
<1>17. QED  BY <1>6, <1>10, <1>11, <1>14, <1>15, <1>16 DEF e

\* One call of parse, in phase: it reads a message that usbmuxd has sent.
LEMMA ParseReads ==
    ASSUME NEW d \in Seq(Byte), NEW w \in Seq(Byte), d # <<>>, EndsOutsideHeader(d),
           Framed(d \o w), Genuine(d \o w),
           NEW p \in Parsers, InPhase(p, d \o w)
    PROVE  /\ p.len = 0 => Legible(d)
           /\ \E n \in 1..Len(d) : Parse(p, d).data = After(d, n)
           /\ \E message \in Message :
                 /\ Sound(message) /\ (d \o w)[1].of = message
                 /\ Reads(Parse(p, d), message, w)
           /\ EndsWhole(d \o w) => Fed(Parse(p, d).parser, Parse(p, d).data \o w)
<1>1. CASE p.len # 0
  <2>1. Parse(p, d) = Fill(p, d)  BY <1>1 DEF Parse
  <2>2. PICK message \in Message : Sound(message) /\ Within(p, message, d \o w)
    BY <1>1 DEF InPhase
  <2>3. d \o w # <<>>
    <3>1. Len(d) \in Nat /\ Len(d) > 0 /\ Len(w) \in Nat  BY Places
    <3>2. d \o w \in Seq(Byte) /\ Len(d \o w) = Len(d) + Len(w)  BY ConcatProperties
    <3>3. QED  BY <3>1, <3>2, EmptySeq
  <2>4. (d \o w)[1].of = message  BY <2>2, <2>3 DEF Within, FirstIs
  <2>5. QED  BY <1>1, <2>1, <2>2, <2>4, FillReads
<1>2. CASE p.len = 0
  <2> DEFINE begun == [len |-> BodyLength, msg |-> <<>>]
             e == After(d, HeaderLength)
  <2>1. Begins(d \o w)  BY <1>2 DEF InPhase
  <2>2. Legible(d) /\ HeaderLength \in 1..Len(d)  BY <2>1, HeaderReads
  <2>3. /\ \E message \in Message :
              /\ Sound(message) /\ (d \o w)[1].of = message
              /\ Within(begun, message, e \o w)
        /\ EndsWhole(d \o w) => e \o w # <<>>
    BY <2>1, HeaderReads
  <2> PICK message \in Message :
         /\ Sound(message) /\ (d \o w)[1].of = message
         /\ Within(begun, message, e \o w)
    BY <2>3
  <2>4. begun \in Parsers
    <3>1. BodyLength \in 0..BodyLength  BY Lengths
    <3>2. <<>> \in Seq(Byte)  BY EmptySeq
    <3>3. QED  BY <3>1, <3>2 DEF Parsers
  <2>5. HeaderLength \in Nat /\ HeaderLength \in 0..Len(d) /\ Len(d) \in Nat
    <3>1. HeaderLength \in Nat /\ Len(d) \in Nat  BY Lengths, LenProperties
    <3>2. QED  BY <2>2, <3>1
  <2>6. e \in Seq(Byte) /\ Len(e) = Len(d) - HeaderLength  BY <2>5, AfterSlices
  <2>7. Header(d) = [parser |-> begun, data |-> e]  BY DEF Header
  <2>8. Framed(e \o w) /\ (EndsWhole(d \o w) => EndsWhole(e \o w))
    <3>1. /\ e \o w \in Seq(Byte) /\ d \o w \in Seq(Byte)
          /\ HeaderLength + Len(e \o w) = Len(d \o w)
          /\ \A k \in 1..Len(e \o w) : (e \o w)[k] = (d \o w)[HeaderLength + k]
      BY <2>5, RestOfStream
    <3>2. HeaderLength + Len(e \o w) <= Len(d \o w)
      BY <2>5, <3>1, LenProperties
    <3> HIDE DEF e
    <3>3. QED  BY <2>5, <3>1, <3>2, StretchFramed
  <2>9. Parse(p, d) = IF e = <<>> THEN [parser |-> begun, data |-> e] ELSE Fill(begun, e)
    BY <1>2, <2>7 DEF Parse
  <2> HIDE DEF begun, e
  <2>10. CASE e = <<>>
    <3>1. Parse(p, d) = [parser |-> begun, data |-> e]  BY <2>9, <2>10
    <3>2. begun.len # 0  BY Lengths DEF begun
    <3>3. Reads(Parse(p, d), message, w)  BY <2>3, <3>1, <3>2 DEF Reads
    <3>4. Parse(p, d).data = After(d, HeaderLength)  BY <3>1 DEF e
    <3>5. EndsWhole(d \o w) => Fed(Parse(p, d).parser, Parse(p, d).data \o w)
      BY <2>3, <3>1 DEF Fed
    <3>6. QED  BY <2>2, <3>3, <3>4, <3>5
  <2>11. CASE e # <<>>
    <3>1. Parse(p, d) = Fill(begun, e)  BY <2>9, <2>11
    <3>2. /\ \E n \in 1..Len(e) : Fill(begun, e).data = After(e, n)
          /\ Reads(Fill(begun, e), message, w)
          /\ EndsWhole(e \o w) => Fed(Fill(begun, e).parser, Fill(begun, e).data \o w)
      BY <2>3, <2>4, <2>6, <2>8, <2>11, FillReads
    <3>3. PICK n \in 1..Len(e) : Fill(begun, e).data = After(e, n)  BY <3>2
    <3>4. n \in Nat /\ HeaderLength + n \in 1..Len(d)  BY <2>5, <2>6, <3>3
    <3>5. After(e, n) = After(d, HeaderLength + n)  BY <2>5, <3>4, AfterTwice DEF e
    <3>6. QED  BY <2>2, <2>8, <3>1, <3>2, <3>3, <3>4, <3>5
  <2>12. QED  BY <2>10, <2>11
<1>3. QED  BY <1>1, <1>2

-----------------------------------------------------------------------------
(***************************************************************************)
(* The socket: the stream is framed and the parser is in phase with it.     *)
(* Bytes are missing only when the connection has ended.                    *)
(***************************************************************************)
SocketInv ==
    /\ Framed(Stream) /\ Genuine(Stream)
    /\ alive => EndsWhole(Stream)
    /\ ~alive => wire = <<>>
    /\ EndsOutsideHeader(data)
    /\ ~crashed => InPhase(parser, Stream) /\ (alive => Fed(parser, Stream))

CrashInv == crashed => data = <<>> /\ parser.msg = Body(Reply("Refusal"))

StreamInv == (source = "usbmux" => SocketInv) /\ CrashInv

\* The bytes that a parser in phase has and those it waits for are one body.
LEMMA BodyAwaited ==
    ASSUME NEW seq \in Seq(Byte), Framed(seq), EndsWhole(seq),
           NEW p \in Parsers, InPhase(p, seq), Fed(p, seq), p.len # 0
    PROVE  /\ Len(seq) >= p.len
           /\ p.msg \o Upto(seq, p.len) = Body(seq[1].of)
<1>1. PICK len \in Nat, msg \in Seq(Byte) : len = p.len /\ msg = p.msg
  BY Lengths DEF Parsers
<1>2. HeaderLength \in Nat /\ BodyLength \in Nat /\ MessageLength = HeaderLength + BodyLength
  BY Lengths
<1>3. PICK message \in Message : Within(p, message, seq)  BY DEF InPhase
<1>4. len <= BodyLength
  <2>1. p.len \in 0..BodyLength  BY DEF Parsers
  <2>2. QED  BY <1>1, <1>2, <2>1
<1>5. /\ len > 0 /\ Len(msg) = BodyLength - len /\ OfBody(msg, message)
      /\ seq # <<>> /\ FirstIs(seq, message, HeaderLength + Len(msg) + 1)
  BY <1>1, <1>3 DEF Within, Fed
<1>6. /\ Len(seq) \in Nat /\ 1 \in 1..Len(seq) /\ Len(seq) \in 1..Len(seq)
      /\ Len(msg) \in Nat /\ Len(msg) < BodyLength /\ BodyLength - Len(msg) = len
  <2>1. Len(seq) \in Nat /\ Len(seq) > 0 /\ Len(msg) \in Nat  BY <1>1, <1>5, Places
  <2>2. QED  BY <1>2, <1>4, <1>5, <2>1
<1>7. Len(seq) >= len
  <2>1. SUFFICES ASSUME Len(seq) < len PROVE FALSE
    BY <1>6
  <2>2. seq[Len(seq)].at = MessageLength  BY <1>5 DEF EndsWhole
  <2>3. Len(seq) <= BodyLength - Len(msg)  BY <1>6, <2>1
  <2>4. seq[Len(seq)] = [of |-> message, at |-> HeaderLength + Len(msg) + Len(seq)]
    BY <1>5, <1>6, <2>3, BodyContinues
  <2>5. MessageLength = HeaderLength + Len(msg) + Len(seq)  BY <2>2, <2>4
  <2>6. QED  BY <1>2, <1>4, <1>5, <1>6, <2>1, <2>5
<1> DEFINE b == Upto(seq, len)
<1>8. b \in Seq(Byte) /\ Len(b) = len /\ Starts(b, seq)
  <2>1. /\ b \in Seq(Byte)
        /\ Len(b) = IF len <= Len(seq) THEN len ELSE Len(seq)
        /\ \A k \in 1..Len(b) : b[k] = seq[k]
    BY <1>1, UptoSlices
  <2>2. len <= Len(seq)  BY <1>6, <1>7
  <2>3. QED  BY <2>1, <2>2 DEF Starts
<1> HIDE DEF b
<1>9. /\ msg \o b \in Seq(Byte) /\ Len(msg \o b) = Len(msg) + Len(b)
      /\ OfBody(msg \o b, message)
  <2>1. msg \in Seq(Byte) /\ b \in Seq(Byte) /\ OfBody(msg, message) /\ Starts(b, seq)
        /\ 1 \in 1..Len(seq) /\ Len(msg) < BodyLength
        /\ FirstIs(seq, message, HeaderLength + Len(msg) + 1)
    BY <1>1, <1>5, <1>6, <1>8
  <2>2. Len(b) <= Len(seq) /\ Len(b) <= BodyLength - Len(msg)  BY <1>6, <1>7, <1>8
  <2>3. QED  BY <2>1, <2>2, BodyGrows
<1>10. msg \o b = Body(message)
  <2>1. /\ Body(message) \in Seq(Byte) /\ Len(Body(message)) = BodyLength
        /\ \A k \in 1..BodyLength :
              Body(message)[k] = [of |-> message, at |-> HeaderLength + k]
    BY BodySent
  <2>2. Len(msg \o b) = BodyLength  BY <1>2, <1>4, <1>5, <1>6, <1>8, <1>9
  <2>3. \A k \in 1..Len(msg \o b) : (msg \o b)[k] = Body(message)[k]
    BY <1>9, <2>1, <2>2 DEF OfBody
  <2>4. QED  BY <1>9, <2>1, <2>2, <2>3, SeqEqual
<1>11. seq[1].of = message  BY <1>5 DEF FirstIs
<1>12. QED  BY <1>1, <1>6, <1>7, <1>10, <1>11 DEF b

\* The invariant is the property.
LEMMA StepFollows ==
    ASSUME TypeInv, StreamInv
    PROVE  InStep
<1>1. data \in Seq(Byte) /\ wire \in Seq(Byte) /\ parser \in Parsers  BY DEF TypeInv, TypeOK
<1>2. Stream \in Seq(Byte)  BY <1>1, ConcatProperties DEF Stream
<1>3. ASSUME source = "usbmux", alive, ~crashed
      PROVE  IF parser.len = 0
             THEN Stream # <<>> => Stream[1].at = 1
             ELSE /\ Len(Stream) >= parser.len
                  /\ parser.msg \o Upto(Stream, parser.len) = Body(Stream[1].of)
  <2>1. /\ Framed(Stream) /\ EndsWhole(Stream)
        /\ InPhase(parser, Stream) /\ Fed(parser, Stream)
    BY <1>3 DEF StreamInv, SocketInv
  <2>2. CASE parser.len = 0  BY <2>1, <2>2 DEF InPhase, Begins
  <2>3. CASE parser.len # 0  BY <1>1, <1>2, <2>1, <2>3, BodyAwaited
  <2>4. QED  BY <2>2, <2>3
<1>4. crashed => parser.msg = Body(Reply("Refusal"))  BY DEF StreamInv, CrashInv
<1>5. QED  BY <1>3, <1>4 DEF InStep, Stream

\* What the parser expects depends on the next byte only.
LEMMA SamePhase ==
    ASSUME NEW p, NEW seq, NEW part, InPhase(p, seq),
           part # <<>> => seq # <<>> /\ part[1] = seq[1]
    PROVE  InPhase(p, part)
<1>1. CASE p.len = 0  BY <1>1 DEF InPhase, Begins
<1>2. CASE p.len # 0
  <2>1. PICK message \in Message : Sound(message) /\ Within(p, message, seq)
    BY <1>2 DEF InPhase
  <2>2. Within(p, message, part)  BY <2>1 DEF Within, FirstIs
  <2>3. QED  BY <1>2, <2>1, <2>2 DEF InPhase
<1>3. QED  BY <1>1, <1>2

\* A stream cut in two.
LEMMA UptoAfter ==
    ASSUME NEW S, NEW seq \in Seq(S), NEW n \in 1..Len(seq)
    PROVE  Upto(seq, n) \o After(seq, n) = seq
<1> DEFINE a == Upto(seq, n)
           b == After(seq, n)
<1>1. Len(seq) \in Nat /\ n \in Nat /\ n <= Len(seq)  BY LenProperties
<1>2. a \in Seq(S) /\ Len(a) = n /\ \A k \in 1..n : a[k] = seq[k]
  BY <1>1, UptoSlices
<1>3. b \in Seq(S) /\ Len(b) = Len(seq) - n /\ \A k \in 1..Len(b) : b[k] = seq[n + k]
  BY <1>1, AfterSlices
<1> HIDE DEF a, b
<1>4. /\ a \o b \in Seq(S) /\ Len(a \o b) = Len(a) + Len(b)
      /\ \A k \in 1..Len(a) + Len(b) :
            (a \o b)[k] = IF k <= Len(a) THEN a[k] ELSE b[k - Len(a)]
  BY <1>2, <1>3, ConcatProperties
<1>5. Len(a \o b) = Len(seq)  BY <1>1, <1>2, <1>3, <1>4
<1>6. ASSUME NEW k \in 1..Len(seq) PROVE (a \o b)[k] = seq[k]
  <2>1. k \in 1..Len(a) + Len(b)  BY <1>4, <1>5
  <2>2. CASE k <= n
    <3>1. k \in 1..n  BY <1>1, <2>2
    <3>2. QED  BY <1>2, <1>4, <2>1, <2>2, <3>1
  <2>3. CASE ~(k <= n)
    <3>1. k - n \in 1..Len(b) /\ n + (k - n) = k  BY <1>1, <1>3, <2>3
    <3>2. b[k - n] = seq[k]  BY <1>3, <3>1
    <3>3. QED  BY <1>2, <1>4, <2>1, <2>3, <3>2
  <2>4. QED  BY <2>2, <2>3
<1>7. a \o b = seq  BY <1>4, <1>5, <1>6, SeqEqual
<1>8. QED  BY <1>7 DEF a, b

\* usbmuxd adds a message to the end of the stream.
LEMMA SendFollows ==
    ASSUME TypeInv, SocketInv, NEW message \in Message, Sound(message), Send(message)
    PROVE  SocketInv'
<1>1. data \in Seq(Byte) /\ wire \in Seq(Byte)  BY DEF TypeInv, TypeOK
<1>2. /\ alive /\ ~crashed
      /\ wire' = wire \o Bytes(message)
      /\ UNCHANGED <<alive, data, parser, crashed>>
  BY DEF Send
<1>3. /\ Bytes(message) \in Seq(Byte) /\ Len(Bytes(message)) = MessageLength
      /\ \A k \in 1..MessageLength : Bytes(message)[k] = [of |-> message, at |-> k]
  BY BytesSent
<1>4. Stream \in Seq(Byte)  BY <1>1, ConcatProperties DEF Stream
<1>5. Stream' = Stream \o Bytes(message)
  <2>1. Stream' = data \o (wire \o Bytes(message))  BY <1>2 DEF Stream
  <2>2. ASSUME NEW m \in Seq(Byte)
        PROVE  (data \o wire) \o m = data \o (wire \o m)
    BY <1>1, ConcatAssociative
  <2>3. QED  BY <1>3, <2>1, <2>2 DEF Stream
<1>6. /\ Framed(Stream) /\ Genuine(Stream) /\ EndsWhole(Stream)
      /\ EndsOutsideHeader(data) /\ InPhase(parser, Stream) /\ Fed(parser, Stream)
  BY <1>2 DEF SocketInv
<1> DEFINE s == Stream
           m == Bytes(message)
           l == s \o m
<1>7. Framed(l) /\ Genuine(l) /\ EndsWhole(l)  BY <1>4, <1>6, SentFramed
<1>8. l # <<>> /\ InPhase(parser, l)
  <2>1. s \in Seq(Byte) /\ m \in Seq(Byte) /\ Len(m) > 0 /\ Len(s) \in Nat /\ Len(m) \in Nat
    BY <1>3, <1>4, Lengths, LenProperties
  <2>2. m[1].at = 1
    <3>1. 1 \in 1..MessageLength  BY Lengths
    <3>2. m[1] = [of |-> message, at |-> 1]  BY <1>3, <3>1
    <3>3. QED  BY <3>2
  <2> HIDE DEF s, m
  <2>3. /\ l \in Seq(Byte) /\ Len(l) = Len(s) + Len(m)
        /\ \A k \in 1..Len(s) + Len(m) : l[k] = IF k <= Len(s) THEN s[k] ELSE m[k - Len(s)]
    BY <2>1, ConcatProperties
  <2> HIDE DEF l
  <2>4. l # <<>>  BY <2>1, <2>3, EmptySeq
  <2>5. 1 \in 1..Len(s) + Len(m)  BY <2>1
  <2>6. CASE s # <<>>
    <3>1. 1 <= Len(s)  BY <2>1, <2>6, Places
    <3>2. l[1] = s[1]  BY <2>3, <2>5, <3>1
    <3>3. QED  BY <1>6, <2>4, <2>6, <3>2, SamePhase DEF s
  <2>7. CASE s = <<>>
    <3>1. Len(s) = 0  BY <2>7, EmptySeq
    <3>2. l[1] = m[1]  BY <2>1, <2>3, <2>5, <3>1
    <3>3. parser.len = 0  BY <1>6, <2>7 DEF Fed, s
    <3>4. QED  BY <1>6, <2>2, <2>4, <3>2, <3>3 DEF InPhase, Begins
  <2>8. QED  BY <2>6, <2>7
<1>9. InPhase(parser', Stream')  BY <1>2, <1>5, <1>8
<1>10. Fed(parser', Stream')  BY <1>5, <1>8 DEF Fed
<1>11. Framed(Stream') /\ Genuine(Stream') /\ EndsWhole(Stream')  BY <1>5, <1>7
<1>12. EndsOutsideHeader(data')  BY <1>2, <1>6
<1>13. QED  BY <1>2, <1>9, <1>10, <1>11, <1>12 DEF SocketInv

\* What usbmuxd does.
LEMMA UsbmuxdFollows ==
    ASSUME TypeInv, StreamInv, Usbmuxd
    PROVE  StreamInv'
<1>1. ASSUME NEW message \in Message, Sound(message), Send(message)
      PROVE  StreamInv'
  <2>1. ~crashed /\ ~crashed' /\ source' = source  BY <1>1 DEF Send
  <2>2. source = "usbmux" => SocketInv'  BY <1>1, SendFollows DEF StreamInv
  <2>3. QED  BY <2>1, <2>2 DEF StreamInv, CrashInv
<1>2. ASSUME NEW u \in Udids, Connect(u) PROVE StreamInv'
  <2> DEFINE l == [id |-> lastId + 1, udid |-> u]
  <2>1. l.id \in Ids /\ Send(About("Attached", l))  BY <1>2 DEF Connect
  <2>2. About("Attached", l) \in Message /\ Sound(About("Attached", l))
    BY <2>1 DEF About, Message, Sound
  <2>3. QED  BY <1>1, <2>1, <2>2
<1>3. ASSUME NEW l \in links, Disconnect(l) \/ Pair(l) PROVE StreamInv'
  <2>1. l.id \in Ids /\ l.udid \in Udids  BY DEF TypeInv, TypeOK
  <2>2. PICK type \in {"Detached", "Paired"} : Send(About(type, l))
    BY <1>3 DEF Disconnect, Pair
  <2>3. About(type, l) \in Message /\ Sound(About(type, l))
    BY <2>1 DEF About, Message, Sound
  <2>4. QED  BY <1>1, <2>2, <2>3
<1>4. CASE SourceEnds
  <2>1. /\ alive' = FALSE /\ wire' = <<>>
        /\ UNCHANGED <<source, data, parser, crashed>>
    BY <1>4 DEF SourceEnds
  <2>2. CrashInv'  BY <2>1 DEF StreamInv, CrashInv
  <2>3. ASSUME source = "usbmux" PROVE SocketInv'
    <3>1. SocketInv  BY <2>3 DEF StreamInv
    <3>2. data \in Seq(Byte) /\ wire \in Seq(Byte)  BY DEF TypeInv, TypeOK
    <3>3. Stream' = data  BY <2>1, <3>2, ConcatEmptySeq DEF Stream
    <3>4. /\ Stream \in Seq(Byte) /\ Len(Stream) = Len(data) + Len(wire)
          /\ \A k \in 1..Len(data) + Len(wire) :
                Stream[k] = IF k <= Len(data) THEN data[k] ELSE wire[k - Len(data)]
      BY <3>2, ConcatProperties DEF Stream
    <3>5. Len(data) \in Nat /\ Len(wire) \in Nat  BY <3>2, LenProperties
    <3>6. \A k \in 1..Len(data) : data[k] = Stream[k]  BY <3>4, <3>5
    <3>7. Framed(data) /\ Genuine(data)
      <4>1. 0 + Len(data) <= Len(Stream) /\ \A k \in 1..Len(data) : data[k] = Stream[0 + k]
        BY <3>4, <3>5, <3>6
      <4>2. QED  BY <3>1, <3>2, <3>4, <4>1, StretchFramed DEF SocketInv
    <3>8. ASSUME ~crashed PROVE InPhase(parser, data)
      <4>1. ASSUME data # <<>> PROVE Stream # <<>> /\ data[1] = Stream[1]
        <5>1. 1 \in 1..Len(data) /\ Len(Stream) # 0
          BY <3>2, <3>4, <3>5, <4>1, Places
        <5>2. QED  BY <3>6, <5>1, EmptySeq
      <4>2. QED  BY <3>1, <3>8, <4>1, SamePhase DEF SocketInv
    <3>9. QED  BY <2>1, <3>1, <3>3, <3>7, <3>8 DEF SocketInv
  <2>4. QED  BY <2>1, <2>2, <2>3 DEF StreamInv
<1>5. QED  BY <1>2, <1>3, <1>4 DEF Usbmuxd

\* The next event is the next stretch of the stream, and ends in no header.
LEMMA DataEventFollows ==
    ASSUME "split" \notin Environment, TypeInv, StreamInv, DataEvent
    PROVE  StreamInv'
<1>1. data \in Seq(Byte) /\ wire \in Seq(Byte)  BY DEF TypeInv, TypeOK
<1>2. PICK n \in 1..Len(wire) :
         EndsEvent(n) /\ data' = Upto(wire, n) /\ wire' = After(wire, n)
  BY DEF DataEvent
<1>3. data = <<>> /\ ~crashed /\ UNCHANGED <<source, alive, parser, crashed>>
  BY DEF DataEvent
<1>4. Stream = wire /\ Stream' = wire
  BY <1>1, <1>2, <1>3, ConcatEmptySeq, UptoAfter DEF Stream
<1>5. CrashInv'  BY <1>3 DEF CrashInv
<1>6. ASSUME source = "usbmux" PROVE SocketInv'
  <2>1. SocketInv  BY <1>6 DEF StreamInv
  <2>2. /\ Framed(wire) /\ Genuine(wire) /\ (alive => EndsWhole(wire))
        /\ (~alive => wire = <<>>)
        /\ InPhase(parser, wire) /\ (alive => Fed(parser, wire))
    BY <1>3, <1>4, <2>1 DEF SocketInv
  <2>3. Len(wire) \in Nat /\ n \in Nat /\ 1 <= n /\ n <= Len(wire)
    BY <1>1, <1>2, LenProperties
  <2>4. alive
    <3>1. SUFFICES ASSUME ~alive PROVE FALSE
      OBVIOUS
    <3>2. Len(wire) = 0  BY <2>2, <3>1, EmptySeq
    <3>3. QED  BY <2>3, <3>2
  <2>5. /\ data' \in Seq(Byte) /\ Len(data') = n
        /\ \A k \in 1..n : data'[k] = wire[k]
    BY <1>1, <1>2, <2>3, UptoSlices
  <2>6. wire[n].at \in Nat /\ wire[n] \in Byte  BY <1>1, <1>2, Places, Lengths
  <2>7. wire[n].at >= HeaderLength
    <3>1. /\ HeaderLength \in Nat /\ MessageLength \in Nat
          /\ HeaderLength <= MessageLength
      BY Lengths
    <3>2. CASE n = Len(wire)
      <4>1. wire # <<>>  BY <2>3, <3>2, EmptySeq
      <4>2. QED  BY <2>2, <2>4, <3>1, <3>2, <4>1 DEF EndsWhole
    <3>3. CASE n # Len(wire)
      <4>1. n < Len(wire) /\ n + 1 \in 1..Len(wire) /\ n <= n + 1 /\ (n + 1) - n = 1
        BY <2>3, <3>3
      <4>2. wire[n + 1].at = 1 \/ wire[n + 1].at > HeaderLength
        BY <1>2, <4>1 DEF EndsEvent
      <4>3. 1 <= MessageLength - wire[n].at =>
               wire[n + 1] = [of |-> wire[n].of, at |-> wire[n].at + 1]
        BY <1>2, <2>2, <4>1 DEF Framed
      <4>4. 1 <= MessageLength - wire[n].at => wire[n + 1].at = wire[n].at + 1
        BY <4>3
      <4>5. wire[n].at \in 1..MessageLength  BY <1>1, <1>2, Places
      <4>6. QED  BY <2>6, <3>1, <4>2, <4>4, <4>5
    <3>4. QED  BY <3>2, <3>3
  <2>8. EndsOutsideHeader(data')
    <3>1. n \in 1..n  BY <2>3
    <3>2. QED  BY <2>5, <2>7, <3>1 DEF EndsOutsideHeader
  <2>9. QED  BY <1>3, <1>4, <2>2, <2>4, <2>8 DEF SocketInv
<1>7. QED  BY <1>3, <1>5, <1>6 DEF StreamInv

\* A part of an event that ends outside a header does so, too.
LEMMA RestEnds ==
    ASSUME NEW d \in Seq(Byte), NEW n \in 0..Len(d), EndsOutsideHeader(d)
    PROVE  EndsOutsideHeader(After(d, n))
<1> DEFINE e == After(d, n)
<1>1. Len(d) \in Nat /\ n \in Nat /\ n <= Len(d)  BY LenProperties
<1>2. e \in Seq(Byte) /\ Len(e) = Len(d) - n /\ \A k \in 1..Len(e) : e[k] = d[n + k]
  BY <1>1, AfterSlices
<1> HIDE DEF e
<1>3. ASSUME e # <<>> PROVE e[Len(e)].at >= HeaderLength
  <2>1. Len(e) > 0 /\ Len(e) \in Nat  BY <1>2, <1>3, Places
  <2>2. Len(e) \in 1..Len(e) /\ n + Len(e) = Len(d) /\ Len(d) # 0  BY <1>1, <1>2, <2>1
  <2>3. e[Len(e)] = d[Len(d)] /\ d # <<>>  BY <1>2, <2>2, EmptySeq
  <2>4. QED  BY <2>3 DEF EndsOutsideHeader
<1>4. QED  BY <1>3 DEF EndsOutsideHeader, e

\* The rest of the stream when an event was read up to a place.
LEMMA ReadFollows ==
    ASSUME NEW d \in Seq(Byte), NEW w \in Seq(Byte), NEW n \in 0..Len(d),
           Framed(d \o w), Genuine(d \o w), EndsOutsideHeader(d)
    PROVE  /\ Framed(After(d, n) \o w) /\ Genuine(After(d, n) \o w)
           /\ EndsOutsideHeader(After(d, n))
           /\ EndsWhole(d \o w) => EndsWhole(After(d, n) \o w)
<1> DEFINE s == d \o w
           r == After(d, n) \o w
<1>1. /\ r \in Seq(Byte) /\ s \in Seq(Byte) /\ n + Len(r) = Len(s)
      /\ \A k \in 1..Len(r) : r[k] = s[n + k]
  BY RestOfStream
<1>2. EndsOutsideHeader(After(d, n))  BY RestEnds
<1>3. Framed(s) /\ Genuine(s)  OBVIOUS
<1> HIDE DEF s, r
<1>4. n \in Nat /\ n + Len(r) <= Len(s)  BY <1>1, LenProperties
<1>5. Framed(r) /\ Genuine(r) /\ (EndsWhole(s) => EndsWhole(r))
  BY <1>1, <1>3, <1>4, StretchFramed
<1>6. QED  BY <1>2, <1>5 DEF r, s

\* A call of parse reads a message of usbmuxd, and fails at a refusal only.
LEMMA ParseFollows ==
    ASSUME TypeInv, StreamInv, ParseStep
    PROVE  StreamInv'
<1>1. /\ source = "usbmux" /\ data # <<>>
      /\ UNCHANGED <<source, alive, wire>>
  BY DEF ParseStep
<1>2. data \in Seq(Byte) /\ wire \in Seq(Byte) /\ parser \in Parsers  BY DEF TypeInv, TypeOK
<1>3. SocketInv /\ ~crashed  BY <1>1 DEF StreamInv, CrashInv
<1>4. /\ Framed(data \o wire) /\ Genuine(data \o wire)
      /\ (alive => EndsWhole(data \o wire))
      /\ EndsOutsideHeader(data) /\ InPhase(parser, data \o wire)
  BY <1>3 DEF SocketInv, Stream
<1> DEFINE next == Parse(parser, data)
<1>5. /\ parser.len = 0 => Legible(data)
      /\ \E n \in 1..Len(data) : next.data = After(data, n)
      /\ \E message \in Message : Sound(message) /\ Reads(next, message, wire)
      /\ EndsWhole(data \o wire) => Fed(next.parser, next.data \o wire)
  BY <1>1, <1>2, <1>4, ParseReads
<1>6. PICK n \in 1..Len(data) : next.data = After(data, n)  BY <1>5
<1>7. PICK message \in Message : Sound(message) /\ Reads(next, message, wire)  BY <1>5
<1>8. /\ crashed' = Fatal(next.parser)
      /\ parser' = IF Complete(next.parser) /\ ~crashed' THEN Idle ELSE next.parser
      /\ data' = IF crashed' THEN <<>> ELSE next.data
  BY <1>5 DEF ParseStep
<1> HIDE DEF next
<1>9. Len(data) \in Nat /\ n \in 0..Len(data) /\ Len(data) \in 0..Len(data)
  BY <1>2, LenProperties
<1>10. ASSUME next.parser.len = 0
       PROVE  /\ next.parser.msg = Body(message) /\ Begins(next.data \o wire)
              /\ Complete(next.parser) /\ Whole(next.parser)
              /\ next.parser.msg[1].of = message
  <2>1. next.parser.msg = Body(message) /\ Begins(next.data \o wire)
    BY <1>7, <1>10 DEF Reads
  <2>2. /\ Body(message) \in Seq(Byte) /\ Len(Body(message)) = BodyLength
        /\ \A k \in 1..BodyLength :
              Body(message)[k] = [of |-> message, at |-> HeaderLength + k]
    BY BodySent
  <2>3. 1 \in 1..BodyLength /\ BodyLength # 0  BY Lengths
  <2>4. Body(message)[1] = [of |-> message, at |-> HeaderLength + 1]  BY <2>2, <2>3
  <2>5. Body(message)[1].of = message /\ 1 \in DOMAIN Body(message)  BY <2>2, <2>3, <2>4
  <2>6. Body(message) # <<>>  BY <2>2, <2>3, EmptySeq
  <2>7. QED  BY <1>10, <2>1, <2>5, <2>6 DEF Complete, Whole
<1>11. CASE Fatal(next.parser)
  <2>1. Complete(next.parser) /\ next.parser.len = 0  BY <1>11 DEF Fatal, Complete
  <2>2. message.type = "Refusal"  BY <1>10, <1>11, <2>1 DEF Fatal
  <2>3. message = Reply("Refusal")  BY <1>7, <2>2 DEF Sound
  <2>4. crashed' /\ data' = <<>> /\ parser' = next.parser  BY <1>8, <1>11
  <2>5. CrashInv'  BY <1>10, <2>1, <2>3, <2>4 DEF CrashInv
  <2>6. /\ Framed(wire) /\ Genuine(wire) /\ (alive => EndsWhole(wire))
        /\ EndsOutsideHeader(<<>>)
    <3>1. After(data, Len(data)) \in Seq(Byte) /\ Len(After(data, Len(data))) = 0
      BY <1>2, <1>9, AfterSlices
    <3>2. After(data, Len(data)) = <<>>  BY <3>1, EmptySeq
    <3>3. After(data, Len(data)) \o wire = wire  BY <1>2, <3>2, ConcatEmptySeq
    <3>4. QED  BY <1>2, <1>4, <1>9, <3>2, <3>3, ReadFollows
  <2>7. Stream' = wire  BY <1>1, <1>2, <2>4, ConcatEmptySeq DEF Stream
  <2>8. SocketInv'  BY <1>1, <1>3, <2>4, <2>6, <2>7 DEF SocketInv
  <2>9. QED  BY <2>5, <2>8 DEF StreamInv
<1>12. CASE ~Fatal(next.parser)
  <2>1. /\ ~crashed' /\ data' = next.data
        /\ parser' = IF Complete(next.parser) THEN Idle ELSE next.parser
    BY <1>8, <1>12
  <2>2. Stream' = next.data \o wire  BY <1>1, <2>1 DEF Stream
  <2>3. /\ Framed(next.data \o wire) /\ Genuine(next.data \o wire)
        /\ EndsOutsideHeader(next.data)
        /\ (alive => EndsWhole(next.data \o wire))
    BY <1>2, <1>4, <1>6, <1>9, ReadFollows
  <2>4. InPhase(parser', next.data \o wire)
    <3>1. CASE next.parser.len = 0
      BY <1>10, <2>1, <3>1 DEF InPhase, Idle
    <3>2. CASE next.parser.len # 0
      <4>1. parser' = next.parser  BY <2>1, <3>2 DEF Complete
      <4>2. QED  BY <1>7, <3>2, <4>1 DEF InPhase, Reads
    <3>3. QED  BY <3>1, <3>2
  <2>5. ASSUME alive PROVE Fed(parser', next.data \o wire)
    BY <1>4, <1>5, <2>1, <2>5 DEF Fed, Idle
  <2>6. SocketInv'  BY <1>1, <1>3, <2>1, <2>2, <2>3, <2>4, <2>5 DEF SocketInv
  <2>7. QED  BY <2>1, <2>6 DEF StreamInv, CrashInv
<1>13. QED  BY <1>11, <1>12

\* The lines of go-ios leave the parser alone.
LEMMA LinesFollow ==
    ASSUME StreamInv, Notify \/ LinesAreDropped
    PROVE  StreamInv'
<1>1. source # "usbmux" /\ source' # "usbmux" /\ data # <<>> /\ crashed' = crashed
  BY DEF Notify, LinesAreDropped
<1>2. QED  BY <1>1 DEF StreamInv, CrashInv

\* The answer to Listen begins the stream.
LEMMA InitFollows == Init => StreamInv
<1> SUFFICES ASSUME Init PROVE StreamInv
  OBVIOUS
<1>1. alive /\ ~crashed /\ data = <<>> /\ parser = Idle  BY DEF Init
<1>2. ASSUME source = "usbmux" PROVE SocketInv
  <2>1. PICK type \in {"Result", "Refusal"} : wire = Bytes(Reply(type))
    BY <1>2 DEF Init, FirstAnswers
  <2>2. Reply(type) \in Message /\ Sound(Reply(type))  BY DEF Reply, Message, Sound
  <2>3. <<>> \in Seq(Byte) /\ Len(<<>>) = 0  BY EmptySeq
  <2>4. Framed(<<>>) /\ Genuine(<<>>) /\ EndsWhole(<<>>) /\ EndsOutsideHeader(<<>>)
    BY <2>3 DEF Framed, Genuine, EndsWhole, EndsOutsideHeader
  <2>5. <<>> \o wire \in Seq(Byte) /\ Framed(<<>> \o wire) /\ Genuine(<<>> \o wire)
        /\ EndsWhole(<<>> \o wire)
    BY <2>1, <2>2, <2>3, <2>4, SentFramed
  <2>6. Stream = <<>> \o wire /\ Stream = wire
    BY <1>1, <2>1, <2>2, BytesSent, ConcatEmptySeq DEF Stream
  <2>7. Begins(Stream)
    <3>1. 1 \in 1..MessageLength  BY Lengths
    <3>2. wire[1] = [of |-> Reply(type), at |-> 1]  BY <2>1, <2>2, <3>1, BytesSent
    <3>3. QED  BY <2>6, <3>2 DEF Begins
  <2>8. InPhase(parser, Stream) /\ Fed(parser, Stream)
    BY <1>1, <2>7 DEF InPhase, Fed, Idle
  <2>9. QED  BY <1>1, <2>4, <2>5, <2>6, <2>8 DEF SocketInv
<1>3. QED  BY <1>1, <1>2 DEF StreamInv, CrashInv

(***************************************************************************)
(* The parser stays in step with usbmuxd for good, for messages of any      *)
(* length and however many come, provided that no data event ends within a  *)
(* header; and the server does not fail unless usbmuxd refuses to report.   *)
(***************************************************************************)
THEOREM ParserStaysInStep ==
    ASSUME "split" \notin Environment
    PROVE  Spec => []InStep
<1> DEFINE Inv == TypeInv /\ StreamInv
<1>1. Init => Inv  BY InitTyped, InitFollows
<1>2. Inv /\ [Next]_vars => Inv'
  <2> SUFFICES ASSUME Inv, [Next]_vars PROVE Inv'
    OBVIOUS
  <2>1. CASE UNCHANGED vars
    BY <2>1 DEF vars, TypeInv, TypeOK, Lines, StreamInv, SocketInv, CrashInv, Stream
  <2>2. CASE Usbmuxd  BY <2>2, UsbmuxdTyped, UsbmuxdFollows
  <2>3. CASE Tracker
    <3>1. StreamInv'
      BY <2>3, DataEventFollows, ParseFollows, LinesFollow DEF Tracker
    <3>2. QED  BY <2>3, <3>1, TrackerTyped
  <2>4. QED  BY <2>1, <2>2, <2>3 DEF Next
<1>3. Inv => InStep  BY StepFollows
<1>4. QED  BY <1>1, <1>2, <1>3, PTL DEF Spec

=============================================================================
