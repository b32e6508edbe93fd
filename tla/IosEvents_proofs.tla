-------------------------- MODULE IosEvents_proofs --------------------------
(***************************************************************************)
(* That the events of both sources tell which iOS devices are there: what   *)
(* the tables of a source hold, together with the messages that have been   *)
(* sent and not yet read to their end, accounts for every connection.       *)
(*                                                                          *)
(* IosTracker_proofs follows the bytes.  Here a byte matters only if it is  *)
(* the last of its message: then the message counts as pending.             *)
(***************************************************************************)
EXTENDS IosTracker_proofs, FiniteSetTheorems

Links == [id : Ids, udid : Udids]

\* The message m ends at the k-th byte of a stream.
Mail(seq, k, m) == k \in 1..Len(seq) /\ seq[k] = [of |-> m, at |-> MessageLength]

\* What is left of a stream after its first n bytes.
Rests(rest, seq, n) ==
    /\ n + Len(rest) = Len(seq)
    /\ \A k \in 1..Len(rest) : rest[k] = seq[n + k]

\* No message ends within the first n bytes, or just m does, with the n-th.
TakesNone(seq, n) == \A k \in Nat, m \in Message : Mail(seq, k, m) => k > n
Takes(seq, n, m) ==
    /\ Mail(seq, n, m)
    /\ \A k \in Nat, o \in Message : Mail(seq, k, o) => k > n \/ (k = n /\ o = m)

\* The messages of a stream, and m after them.
Appends(long, seq, m) ==
    /\ Len(long) \in Nat
    /\ Mail(long, Len(long), m)
    /\ \A k \in Nat, o \in Message : Mail(seq, k, o) => Mail(long, k, o) /\ k < Len(long)
    /\ \A k \in Nat, o \in Message :
          Mail(long, k, o) => Mail(seq, k, o) \/ (k = Len(long) /\ o = m)

\* The departure of l is announced after the k-th byte.
LeftAfter(seq, k, l) == \E j \in Nat : j > k /\ Mail(seq, j, About("Detached", l))

\* After the k-th byte, a device comes and goes no more.
Quiet(seq, k, u) ==
    \A j \in Nat, m \in Message : j > k /\ Mail(seq, j, m) /\ m.udid = u => m.type = "Paired"

-----------------------------------------------------------------------------
(* Pending messages *)

\* Messages have places in the stream.
LEMMA MailPlaces ==
    ASSUME NEW seq \in Seq(Byte), NEW k, NEW m, Mail(seq, k, m)
    PROVE  k \in Nat /\ k > 0 /\ k <= Len(seq) /\ m \in Message
<1>1. k \in 1..Len(seq) /\ seq[k] = [of |-> m, at |-> MessageLength]  BY DEF Mail
<1>2. seq[k].of = m /\ seq[k].of \in Message /\ Len(seq) \in Nat  BY <1>1, Places
<1>3. QED  BY <1>1, <1>2

\* A place has one message.
LEMMA MailUnique ==
    ASSUME NEW seq, NEW k, NEW m, NEW o, Mail(seq, k, m), Mail(seq, k, o)
    PROVE  m = o
<1>1. [of |-> m, at |-> MessageLength] = [of |-> o, at |-> MessageLength]  BY DEF Mail
<1>2. [of |-> m, at |-> MessageLength].of = [of |-> o, at |-> MessageLength].of  BY <1>1
<1>3. QED  BY <1>2

\* Reading moves the messages that are left to the front.
LEMMA MailRests ==
    ASSUME NEW seq \in Seq(Byte), NEW rest \in Seq(Byte), NEW n \in Nat, Rests(rest, seq, n)
    PROVE  /\ \A k \in Nat, m \in Message :
                 Mail(rest, k, m) => n + k \in Nat /\ n + k > n /\ Mail(seq, n + k, m)
           /\ \A j \in Nat, m \in Message :
                 j > n /\ Mail(seq, j, m) =>
                     j - n \in Nat /\ j - n > 0 /\ n + (j - n) = j /\ Mail(rest, j - n, m)
<1>1. /\ Len(seq) \in Nat /\ Len(rest) \in Nat /\ n + Len(rest) = Len(seq)
      /\ \A k \in 1..Len(rest) : rest[k] = seq[n + k]
  BY LenProperties DEF Rests
<1>2. ASSUME NEW k \in Nat, NEW m \in Message, Mail(rest, k, m)
      PROVE  n + k \in Nat /\ n + k > n /\ Mail(seq, n + k, m)
  <2>1. k \in 1..Len(rest) /\ rest[k] = [of |-> m, at |-> MessageLength]
    BY <1>2 DEF Mail
  <2>2. n + k \in 1..Len(seq) /\ n + k > n  BY <1>1, <2>1
  <2>3. QED  BY <1>1, <2>1, <2>2 DEF Mail
<1>3. ASSUME NEW j \in Nat, NEW m \in Message, j > n, Mail(seq, j, m)
      PROVE  j - n \in Nat /\ j - n > 0 /\ n + (j - n) = j /\ Mail(rest, j - n, m)
  <2>1. j \in 1..Len(seq) /\ seq[j] = [of |-> m, at |-> MessageLength]
    BY <1>3 DEF Mail
  <2>2. j - n \in 1..Len(rest) /\ n + (j - n) = j /\ j - n > 0 /\ j - n \in Nat
    BY <1>1, <1>3, <2>1
  <2>3. rest[j - n] = seq[j]  BY <1>1, <2>2
  <2>4. QED  BY <2>1, <2>2, <2>3 DEF Mail
<1>4. QED  BY <1>2, <1>3

\* What is announced after a place stays so when the bytes before are read.
LEMMA LeftRests ==
    ASSUME NEW seq \in Seq(Byte), NEW rest \in Seq(Byte), NEW n \in Nat, Rests(rest, seq, n),
           NEW l \in Links, NEW k \in Nat
    PROVE  /\ LeftAfter(seq, n + k, l) => LeftAfter(rest, k, l)
           /\ \A u \in Udids : Quiet(seq, n + k, u) => Quiet(rest, k, u)
<1>1. About("Detached", l) \in Message  BY DEF About, Message, Links
<1>2. ASSUME LeftAfter(seq, n + k, l) PROVE LeftAfter(rest, k, l)
  <2>1. PICK j \in Nat : j > n + k /\ Mail(seq, j, About("Detached", l))
    BY <1>2 DEF LeftAfter
  <2>2. j > n /\ j - n > k  BY <2>1
  <2>3. j - n \in Nat /\ Mail(rest, j - n, About("Detached", l))
    BY <1>1, <2>1, <2>2, MailRests
  <2>4. QED  BY <2>2, <2>3 DEF LeftAfter
<1>3. ASSUME NEW u \in Udids, Quiet(seq, n + k, u),
             NEW j \in Nat, NEW m \in Message, j > k, Mail(rest, j, m), m.udid = u
      PROVE  m.type = "Paired"
  <2>1. n + j \in Nat /\ Mail(seq, n + j, m)  BY <1>3, MailRests
  <2>2. n + j > n + k  BY <1>3
  <2>3. QED  BY <1>3, <2>1, <2>2 DEF Quiet
<1>4. QED  BY <1>2, <1>3 DEF Quiet

\* A message that is sent comes after all others.
LEMMA MailSent ==
    ASSUME NEW seq \in Seq(Byte), NEW message \in Message,
           NEW long, long = seq \o Bytes(message)
    PROVE  long \in Seq(Byte) /\ Appends(long, seq, message)
<1>1. /\ Bytes(message) \in Seq(Byte) /\ Len(Bytes(message)) = MessageLength
      /\ \A k \in 1..MessageLength : Bytes(message)[k] = [of |-> message, at |-> k]
  BY BytesSent
<1>2. /\ long \in Seq(Byte) /\ Len(long) = Len(seq) + MessageLength
      /\ \A k \in 1..Len(seq) + MessageLength :
            long[k] = IF k <= Len(seq) THEN seq[k] ELSE Bytes(message)[k - Len(seq)]
  BY <1>1, ConcatProperties
<1>3. Len(seq) \in Nat /\ MessageLength \in Nat /\ MessageLength > 0 /\ Len(long) \in Nat
  BY <1>2, LenProperties, Lengths
<1>4. ASSUME NEW k \in Nat, k \in 1..Len(long), k > Len(seq)
      PROVE  long[k] = [of |-> message, at |-> k - Len(seq)]
  <2>1. k - Len(seq) \in 1..MessageLength /\ k \in 1..Len(seq) + MessageLength
        /\ ~(k <= Len(seq))
    BY <1>2, <1>3, <1>4
  <2>2. long[k] = Bytes(message)[k - Len(seq)]  BY <1>2, <2>1
  <2>3. QED  BY <1>1, <2>1, <2>2
<1>5. Mail(long, Len(long), message)
  <2>1. Len(long) \in 1..Len(long) /\ Len(long) > Len(seq)
        /\ Len(long) - Len(seq) = MessageLength
    BY <1>2, <1>3
  <2>2. QED  BY <1>3, <1>4, <2>1 DEF Mail
<1>6. ASSUME NEW k \in Nat, NEW m \in Message, Mail(seq, k, m)
      PROVE  Mail(long, k, m) /\ k < Len(long)
  <2>1. k \in 1..Len(seq) /\ seq[k] = [of |-> m, at |-> MessageLength]  BY <1>6 DEF Mail
  <2>2. k <= Len(seq) /\ k \in 1..Len(seq) + MessageLength /\ k \in 1..Len(long) /\ k < Len(long)
    BY <1>2, <1>3, <2>1
  <2>3. long[k] = seq[k]  BY <1>2, <2>2
  <2>4. QED  BY <2>1, <2>2, <2>3 DEF Mail
<1>7. ASSUME NEW k \in Nat, NEW m \in Message, Mail(long, k, m)
      PROVE  Mail(seq, k, m) \/ (k = Len(long) /\ m = message)
  <2>1. k \in 1..Len(long) /\ long[k] = [of |-> m, at |-> MessageLength]  BY <1>7 DEF Mail
  <2>2. CASE k <= Len(seq)
    <3>1. k \in 1..Len(seq) /\ k \in 1..Len(seq) + MessageLength  BY <1>3, <2>1, <2>2
    <3>2. long[k] = seq[k]  BY <1>2, <2>2, <3>1
    <3>3. Mail(seq, k, m)  BY <2>1, <3>1, <3>2 DEF Mail
    <3>4. QED  BY <3>3
  <2>3. CASE ~(k <= Len(seq))
    <3>1. k > Len(seq)  BY <1>3, <2>3
    <3>2. long[k] = [of |-> message, at |-> k - Len(seq)]  BY <1>4, <2>1, <3>1
    <3>3. m = message /\ MessageLength = k - Len(seq)
      <4>1. long[k].of = m /\ long[k].of = message  BY <2>1, <3>2
      <4>2. long[k].at = MessageLength /\ long[k].at = k - Len(seq)  BY <2>1, <3>2
      <4>3. QED  BY <4>1, <4>2
    <3>4. k = Len(long)  BY <1>2, <1>3, <3>3
    <3>5. QED  BY <3>3, <3>4
  <2>4. QED  BY <2>2, <2>3
<1>8. QED  BY <1>2, <1>3, <1>5, <1>6, <1>7 DEF Appends

\* What is announced stays so when something else is sent.
LEMMA LeftSent ==
    ASSUME NEW seq \in Seq(Byte), NEW message \in Message,
           NEW long, Appends(long, seq, message),
           NEW l \in Links, NEW k \in Nat
    PROVE  /\ LeftAfter(seq, k, l) => LeftAfter(long, k, l)
           /\ message = About("Detached", l) /\ k < Len(long) => LeftAfter(long, k, l)
           /\ \A u \in Udids :
                 Quiet(seq, k, u) /\ (message.udid = u => message.type = "Paired") =>
                     Quiet(long, k, u)
<1>1. About("Detached", l) \in Message  BY DEF About, Message, Links
<1>2. /\ Len(long) \in Nat /\ Mail(long, Len(long), message)
      /\ \A j \in Nat, m \in Message : Mail(seq, j, m) => Mail(long, j, m)
      /\ \A j \in Nat, m \in Message :
            Mail(long, j, m) => Mail(seq, j, m) \/ (j = Len(long) /\ m = message)
  BY DEF Appends
<1>3. ASSUME LeftAfter(seq, k, l) PROVE LeftAfter(long, k, l)
  <2>1. PICK j \in Nat : j > k /\ Mail(seq, j, About("Detached", l))
    BY <1>3 DEF LeftAfter
  <2>2. Mail(long, j, About("Detached", l))  BY <1>1, <1>2, <2>1
  <2>3. QED  BY <2>1, <2>2 DEF LeftAfter
<1>4. ASSUME message = About("Detached", l), k < Len(long) PROVE LeftAfter(long, k, l)
  BY <1>2, <1>4 DEF LeftAfter
<1>5. ASSUME NEW u \in Udids, Quiet(seq, k, u), message.udid = u => message.type = "Paired",
             NEW j \in Nat, NEW m \in Message, j > k, Mail(long, j, m), m.udid = u
      PROVE  m.type = "Paired"
  <2>1. Mail(seq, j, m) \/ (j = Len(long) /\ m = message)  BY <1>2, <1>5
  <2>2. CASE Mail(seq, j, m)  BY <1>5, <2>2 DEF Quiet
  <2>3. QED  BY <1>5, <2>1, <2>2
<1>6. QED  BY <1>3, <1>4, <1>5 DEF Quiet

-----------------------------------------------------------------------------
(* What is read *)

\* usbmuxd adds a message to the stream.
LEMMA StreamSent ==
    ASSUME TypeInv, NEW message \in Message, Send(message)
    PROVE  Stream \in Seq(Byte) /\ Stream' = Stream \o Bytes(message)
<1>1. data \in Seq(Byte) /\ wire \in Seq(Byte)  BY DEF TypeInv, TypeOK
<1>2. data' = data /\ wire' = wire \o Bytes(message)  BY DEF Send
<1>3. Bytes(message) \in Seq(Byte)  BY BytesSent
<1>4. Stream' = data \o (wire \o Bytes(message))  BY <1>2 DEF Stream
<1>5. ASSUME NEW m \in Seq(Byte) PROVE (data \o wire) \o m = data \o (wire \o m)
  BY <1>1, ConcatAssociative
<1>6. QED  BY <1>1, <1>3, <1>4, <1>5, ConcatProperties DEF Stream

\* An event cuts the stream and leaves it as it is.
LEMMA StreamKept ==
    ASSUME TypeInv, DataEvent
    PROVE  Stream \in Seq(Byte) /\ Stream' = Stream /\ Stream = wire
<1>1. data \in Seq(Byte) /\ wire \in Seq(Byte)  BY DEF TypeInv, TypeOK
<1>2. PICK n \in 1..Len(wire) : data' = Upto(wire, n) /\ wire' = After(wire, n)
  BY DEF DataEvent
<1>3. data = <<>>  BY DEF DataEvent
<1>4. Upto(wire, n) \o After(wire, n) = wire  BY <1>1, UptoAfter
<1>5. QED  BY <1>1, <1>2, <1>3, <1>4, ConcatEmptySeq DEF Stream

\* The first bytes of an event are the first bytes of the stream.
LEMMA StreamRests ==
    ASSUME NEW d \in Seq(Byte), NEW w \in Seq(Byte), NEW n \in 0..Len(d)
    PROVE  /\ d \o w \in Seq(Byte) /\ After(d, n) \o w \in Seq(Byte)
           /\ Rests(After(d, n) \o w, d \o w, n)
           /\ n \in Nat /\ n <= Len(d) /\ Len(d) <= Len(d \o w)
           /\ \A k \in 1..Len(d) : d[k] = (d \o w)[k]
<1>1. Len(d) \in Nat /\ Len(w) \in Nat /\ n \in Nat /\ n <= Len(d)  BY LenProperties
<1>2. /\ d \o w \in Seq(Byte) /\ Len(d \o w) = Len(d) + Len(w)
      /\ \A k \in 1..Len(d) + Len(w) :
            (d \o w)[k] = IF k <= Len(d) THEN d[k] ELSE w[k - Len(d)]
  BY ConcatProperties
<1>3. ASSUME NEW k \in 1..Len(d) PROVE d[k] = (d \o w)[k]
  <2>1. k \in 1..Len(d) + Len(w) /\ k <= Len(d)  BY <1>1
  <2>2. QED  BY <1>2, <2>1
<1>4. /\ After(d, n) \o w \in Seq(Byte)
      /\ n + Len(After(d, n) \o w) = Len(d \o w)
      /\ \A k \in 1..Len(After(d, n) \o w) : (After(d, n) \o w)[k] = (d \o w)[n + k]
  BY RestOfStream
<1>5. QED  BY <1>1, <1>2, <1>3, <1>4 DEF Rests

\* The bytes that a parser waits for until its message ends.
Missing(p) == IF p.len = 0 THEN MessageLength ELSE p.len

\* A call of parse takes no more bytes than that.
LEMMA ParseAdvances ==
    ASSUME NEW p \in Parsers, NEW d \in Seq(Byte), d # <<>>,
           p.len = 0 => HeaderLength \in 1..Len(d)
    PROVE  \E n \in 1..Len(d) :
              /\ n <= Missing(p)
              /\ Parse(p, d).data = After(d, n)
              /\ Parse(p, d).parser.len = Missing(p) - n
<1>1. /\ HeaderLength \in Nat /\ BodyLength \in Nat /\ MessageLength \in Nat
      /\ HeaderLength > 0 /\ BodyLength > 0 /\ MessageLength = HeaderLength + BodyLength
  BY Lengths
<1>2. Len(d) \in Nat /\ Len(d) > 0  BY Places
<1>3. CASE p.len # 0
  <2>1. PICK len \in Nat : len = p.len  BY <1>1 DEF Parsers
  <2>2. len > 0 /\ Missing(p) = len  BY <1>3, <2>1 DEF Missing
  <2> DEFINE n == Len(Upto(d, len))
  <2>3. n = IF len <= Len(d) THEN len ELSE Len(d)  BY UptoSlices
  <2>4. /\ Parse(p, d).data = After(d, n)
        /\ Parse(p, d).parser.len = len - n
    BY <1>3, <2>1 DEF Parse, Fill
  <2> HIDE DEF n
  <2>5. n \in 1..Len(d) /\ n <= len  BY <1>2, <2>2, <2>3
  <2>6. QED  BY <2>2, <2>4, <2>5
<1>4. CASE p.len = 0
  <2> DEFINE e == After(d, HeaderLength)
  <2>1. Missing(p) = MessageLength /\ HeaderLength \in 1..Len(d)
    BY <1>4 DEF Missing
  <2>2. HeaderLength <= Len(d)  BY <1>1, <1>2, <2>1
  <2>3. e \in Seq(Byte) /\ Len(e) = Len(d) - HeaderLength  BY <1>1, <2>2, AfterSlices
  <2>4. Header(d) = [parser |-> [len |-> BodyLength, msg |-> <<>>], data |-> e]
    BY DEF Header
  <2>5. CASE e = <<>>
    <3>1. Parse(p, d) = [parser |-> [len |-> BodyLength, msg |-> <<>>], data |-> e]
      BY <1>4, <2>4, <2>5 DEF Parse
    <3>2. Parse(p, d).parser.len = BodyLength /\ Parse(p, d).data = After(d, HeaderLength)
      BY <3>1
    <3>3. HeaderLength <= MessageLength /\ BodyLength = MessageLength - HeaderLength
      BY <1>1
    <3>4. QED  BY <2>1, <3>2, <3>3
  <2>6. CASE e # <<>>
    <3> DEFINE m == Len(Upto(e, BodyLength))
    <3>1. Parse(p, d) = Fill([len |-> BodyLength, msg |-> <<>>], e)
      BY <1>4, <2>4, <2>6 DEF Parse
    <3>2. /\ Parse(p, d).data = After(e, m)
          /\ Parse(p, d).parser.len = BodyLength - m
      BY <3>1 DEF Fill
    <3>3. m = IF BodyLength <= Len(e) THEN BodyLength ELSE Len(e)
      BY <1>1, <2>3, UptoSlices
    <3> HIDE DEF m
    <3>4. Len(e) \in Nat /\ m \in Nat /\ m <= BodyLength /\ m <= Len(e)
      BY <1>1, <1>2, <2>2, <2>3, <3>3
    <3>5. After(e, m) = After(d, HeaderLength + m)  BY <1>1, <3>4, AfterTwice
    <3>6. /\ HeaderLength + m \in 1..Len(d)
          /\ HeaderLength + m <= MessageLength
          /\ BodyLength - m = MessageLength - (HeaderLength + m)
      BY <1>1, <1>2, <2>2, <2>3, <3>4
    <3>7. QED  BY <2>1, <3>2, <3>5, <3>6
  <2>7. QED  BY <2>5, <2>6
<1>5. QED  BY <1>3, <1>4

\* A parser in phase waits for the rest of the message that comes first.
LEMMA PhasePlaces ==
    ASSUME NEW s \in Seq(Byte), Framed(s), s # <<>>, NEW p \in Parsers, InPhase(p, s),
           NEW j \in 1..Len(s), j <= Missing(p)
    PROVE  /\ Missing(p) \in Nat
           /\ s[j] = [of |-> s[1].of, at |-> MessageLength - Missing(p) + j]
<1>1. /\ HeaderLength \in Nat /\ BodyLength \in Nat /\ MessageLength \in Nat
      /\ MessageLength = HeaderLength + BodyLength
  BY Lengths
<1>2. Len(s) \in Nat /\ 1 \in 1..Len(s) /\ 1 <= j /\ j \in Nat
  <2>1. Len(s) \in Nat /\ Len(s) > 0  BY Places
  <2>2. QED  BY <2>1
<1> DEFINE m == Missing(p)
<1>3. m \in Nat /\ s[1].at = MessageLength - m + 1
  <2>1. CASE p.len = 0
    <3>1. m = MessageLength /\ s[1].at = 1  BY <2>1 DEF Missing, InPhase, Begins
    <3>2. QED  BY <1>1, <3>1
  <2>2. CASE p.len # 0
    <3>1. PICK message \in Message : Within(p, message, s)  BY <2>2 DEF InPhase
    <3>2. PICK len \in Nat : len = p.len /\ len <= BodyLength  BY <1>1 DEF Parsers
    <3>3. Len(p.msg) = BodyLength - len /\ m = len
          /\ s[1] = [of |-> message, at |-> HeaderLength + Len(p.msg) + 1]
      BY <2>2, <3>1, <3>2 DEF Within, FirstIs, Missing
    <3>4. s[1].at = HeaderLength + (BodyLength - len) + 1  BY <3>3
    <3>5. QED  BY <1>1, <3>2, <3>3, <3>4
  <2>3. QED  BY <2>1, <2>2
<1>4. j - 1 <= MessageLength - s[1].at =>
         s[j] = [of |-> s[1].of, at |-> s[1].at + (j - 1)]
  BY <1>2 DEF Framed
<1>5. j <= m  OBVIOUS
<1> HIDE DEF m
<1>6. j - 1 <= MessageLength - s[1].at /\ s[1].at + (j - 1) = MessageLength - m + j
  BY <1>1, <1>2, <1>3, <1>5
<1>7. QED  BY <1>3, <1>4, <1>6 DEF m

\* A call of parse reads no message to its end, or one.
LEMMA ParseTakes ==
    ASSUME TypeInv, StreamInv, ParseStep, ~crashed'
    PROVE  /\ Stream \in Seq(Byte) /\ Stream' \in Seq(Byte)
           /\ \E n \in Nat :
                 /\ Rests(Stream', Stream, n)
                 /\ \/ TakesNone(Stream, n) /\ UNCHANGED <<known, told>>
                    \/ \E m \in Message : Takes(Stream, n, m) /\ OnMsgComplete(m)
<1>1. /\ source = "usbmux" /\ data # <<>> /\ wire' = wire
      /\ data \in Seq(Byte) /\ wire \in Seq(Byte) /\ parser \in Parsers
  BY DEF ParseStep, TypeInv, TypeOK
<1>2. SocketInv /\ ~crashed  BY <1>1 DEF StreamInv, CrashInv
<1>3. /\ Framed(data \o wire) /\ Genuine(data \o wire)
      /\ EndsOutsideHeader(data) /\ InPhase(parser, data \o wire)
  BY <1>2 DEF SocketInv, Stream
<1> DEFINE next == Parse(parser, data)
<1>4. /\ parser.len = 0 => Legible(data)
      /\ \E message \in Message :
            (data \o wire)[1].of = message /\ Reads(next, message, wire)
  BY <1>1, <1>3, ParseReads
<1>5. parser.len = 0 => HeaderLength \in 1..Len(data)
  BY <1>1, <1>3, HeaderReads DEF InPhase
<1>6. PICK n \in 1..Len(data) :
         /\ n <= Missing(parser)
         /\ next.data = After(data, n)
         /\ next.parser.len = Missing(parser) - n
  BY <1>1, <1>5, ParseAdvances
<1>7. /\ ~Fatal(next.parser)
      /\ data' = next.data
      /\ IF Complete(next.parser) THEN OnMsgComplete(next.parser.msg[1].of)
         ELSE UNCHANGED <<known, told>>
  BY <1>4 DEF ParseStep
<1>8. PICK message \in Message : (data \o wire)[1].of = message /\ Reads(next, message, wire)
  BY <1>4
<1>9. next.parser.len = 0 => /\ Complete(next.parser)
                             /\ next.parser.msg[1].of = message
  <2>1. SUFFICES ASSUME next.parser.len = 0
                 PROVE  Complete(next.parser) /\ next.parser.msg[1].of = message
    OBVIOUS
  <2>2. next.parser.msg = Body(message)  BY <1>8, <2>1 DEF Reads
  <2>3. /\ Body(message) \in Seq(Byte) /\ Len(Body(message)) = BodyLength
        /\ \A k \in 1..BodyLength :
              Body(message)[k] = [of |-> message, at |-> HeaderLength + k]
    BY BodySent
  <2>4. 1 \in 1..BodyLength /\ BodyLength # 0  BY Lengths
  <2>5. Body(message)[1].of = message /\ Body(message) # <<>>  BY <2>3, <2>4, EmptySeq
  <2>6. QED  BY <2>1, <2>2, <2>5 DEF Complete
<1> HIDE DEF next
<1>10. Stream' = After(data, n) \o wire /\ Stream = data \o wire
  BY <1>1, <1>6, <1>7 DEF Stream
<1>11. Len(data) \in Nat /\ n \in 0..Len(data) /\ n \in Nat /\ n > 0
  BY <1>1, LenProperties
<1>12. /\ Stream \in Seq(Byte) /\ Stream' \in Seq(Byte)
       /\ Rests(Stream', Stream, n) /\ n <= Len(Stream)
  <2>1. /\ data \o wire \in Seq(Byte) /\ After(data, n) \o wire \in Seq(Byte)
        /\ Rests(After(data, n) \o wire, data \o wire, n)
        /\ n <= Len(data) /\ Len(data) <= Len(data \o wire)
    BY <1>1, <1>11, StreamRests
  <2>2. Len(data \o wire) \in Nat  BY <2>1, LenProperties
  <2>3. QED  BY <1>10, <1>11, <2>1, <2>2
<1> DEFINE s == Stream
<1>13. Framed(s) /\ InPhase(parser, s) /\ s \in Seq(Byte) /\ Len(s) \in Nat /\ s[1].of = message
  BY <1>3, <1>8, <1>10, <1>12, LenProperties
<1> HIDE DEF s
<1>14. s # <<>> /\ n \in 1..Len(s)
  <2>1. n <= Len(s)  BY <1>12 DEF s
  <2>2. n \in 1..Len(s) /\ Len(s) # 0  BY <1>11, <1>13, <2>1
  <2>3. QED  BY <2>2, EmptySeq
<1>15. Missing(parser) \in Nat /\ MessageLength \in Nat /\ n <= Missing(parser)
  BY <1>1, <1>6, Lengths DEF Parsers, Missing
<1>16. ASSUME NEW j \in 1..Len(s), j <= n
       PROVE  s[j] = [of |-> message, at |-> MessageLength - Missing(parser) + j]
  <2>1. j <= Missing(parser)  BY <1>11, <1>15, <1>16
  <2>2. QED  BY <1>1, <1>13, <1>14, <2>1, PhasePlaces
<1>17. ASSUME NEW k \in Nat, NEW o \in Message, Mail(s, k, o), ~(k > n)
       PROVE  k = Missing(parser) /\ o = message
  <2>1. k \in 1..Len(s) /\ s[k] = [of |-> o, at |-> MessageLength]  BY <1>17 DEF Mail
  <2>2. k <= n  BY <1>11, <1>17
  <2>3. s[k] = [of |-> message, at |-> MessageLength - Missing(parser) + k]
    BY <1>16, <2>1, <2>2
  <2>4. s[k].of = o /\ s[k].at = MessageLength  BY <2>1
  <2>5. s[k].of = message /\ s[k].at = MessageLength - Missing(parser) + k  BY <2>3
  <2>6. MessageLength = MessageLength - Missing(parser) + k  BY <2>4, <2>5
  <2>7. QED  BY <1>15, <2>4, <2>5, <2>6
<1>18. CASE next.parser.len = 0
  <2>1. n = Missing(parser)  BY <1>6, <1>11, <1>15, <1>18
  <2>2. s[n] = [of |-> message, at |-> MessageLength - Missing(parser) + n]
    BY <1>11, <1>14, <1>16
  <2>3. MessageLength - Missing(parser) + n = MessageLength  BY <1>15, <2>1
  <2>4. Mail(s, n, message)  BY <1>14, <2>2, <2>3 DEF Mail
  <2>5. Takes(s, n, message)  BY <1>17, <2>1, <2>4 DEF Takes
  <2>6. OnMsgComplete(message)  BY <1>7, <1>9, <1>18
  <2>7. QED  BY <1>11, <1>12, <2>5, <2>6 DEF s
<1>19. CASE next.parser.len # 0
  <2>1. n # Missing(parser) /\ n < Missing(parser)  BY <1>6, <1>11, <1>15, <1>19
  <2>2. TakesNone(s, n)
    <3>1. ASSUME NEW k \in Nat, NEW o \in Message, Mail(s, k, o) PROVE k > n
      <4>1. SUFFICES ASSUME ~(k > n) PROVE FALSE
        OBVIOUS
      <4>2. k = Missing(parser)  BY <1>17, <3>1, <4>1
      <4>3. QED  BY <1>11, <1>15, <2>1, <4>1, <4>2
    <3>2. QED  BY <3>1 DEF TakesNone
  <2>3. UNCHANGED <<known, told>>  BY <1>7, <1>19 DEF Complete
  <2>4. QED  BY <1>11, <1>12, <2>2, <2>3 DEF s
<1>20. QED  BY <1>18, <1>19

\* Behind the last byte of a message, a stream begins anew.
LEMMA WholeMessages ==
    ASSUME NEW s \in Seq(Byte), NEW rest \in Seq(Byte), NEW n \in 1..Len(s),
           Rests(rest, s, n), s[n].at = MessageLength, Framed(s), Genuine(s)
    PROVE  /\ Framed(rest) /\ Genuine(rest) /\ Begins(rest)
           /\ EndsWhole(s) => EndsWhole(rest)
<1>1. Len(s) \in Nat /\ Len(rest) \in Nat /\ n \in Nat /\ n + Len(rest) = Len(s)
      /\ (\A k \in 1..Len(rest) : rest[k] = s[n + k]) /\ MessageLength \in Nat
  BY LenProperties, Lengths DEF Rests
<1>2. Framed(rest) /\ Genuine(rest) /\ (EndsWhole(s) => EndsWhole(rest))
  BY <1>1, StretchFramed
<1>3. ASSUME rest # <<>> PROVE rest[1].at = 1
  <2>1. Len(rest) > 0  BY <1>3, Places
  <2>2. 1 \in 1..Len(rest) /\ n + 1 \in 1..Len(s) /\ n <= n + 1 /\ (n + 1) - n = 1
    BY <1>1, <2>1
  <2>3. (n + 1) - n = MessageLength - s[n].at + 1 => s[n + 1].at = 1
    BY <2>2 DEF Framed
  <2>4. MessageLength - s[n].at + 1 = 1  BY <1>1
  <2>5. QED  BY <1>1, <2>2, <2>3, <2>4
<1>4. QED  BY <1>2, <1>3 DEF Begins

\* The lines of go-ios: a stream of whole messages, and so is every event.
LineInv ==
    source = "go-ios" /\ alive =>
        /\ Framed(Stream) /\ Genuine(Stream) /\ EndsWhole(Stream) /\ Begins(Stream)
        /\ EndsWhole(data)

\* notify reads one message to its end.
LEMMA NotifyTakes ==
    ASSUME TypeInv, LineInv, alive, Notify
    PROVE  /\ Stream \in Seq(Byte) /\ Stream' \in Seq(Byte)
           /\ \E n \in Nat : Rests(Stream', Stream, n) /\ Takes(Stream, n, data[1].of)
           /\ data[1].of \in Message
           /\ LineInv'
<1>1. /\ source = "go-ios" /\ data # <<>> /\ data' = After(data, MessageLength)
      /\ wire' = wire /\ source' = source /\ alive' = alive
  BY DEF Notify, Rest
<1>2. data \in Seq(Byte) /\ wire \in Seq(Byte)  BY DEF TypeInv, TypeOK
<1>3. Framed(Stream) /\ Genuine(Stream) /\ EndsWhole(Stream) /\ Begins(Stream) /\ EndsWhole(data)
  BY <1>1 DEF LineInv
<1>4. Len(data) \in Nat /\ Len(data) > 0 /\ MessageLength \in Nat /\ MessageLength > 0
  BY <1>1, <1>2, Places, Lengths
<1> DEFINE s == Stream
           m == data[1].of
<1>5. /\ s \in Seq(Byte) /\ Len(data) <= Len(s) /\ Len(s) \in Nat
      /\ \A k \in 1..Len(data) : data[k] = s[k]
  <2>1. 0 \in 0..Len(data)  BY <1>4
  <2>2. /\ data \o wire \in Seq(Byte) /\ Len(data) <= Len(data \o wire)
        /\ \A k \in 1..Len(data) : data[k] = (data \o wire)[k]
    BY <1>2, <2>1, StreamRests
  <2>3. QED  BY <2>2, LenProperties DEF Stream
<1>6. Framed(s) /\ Begins(s) /\ Genuine(s)  BY <1>3
<1> HIDE DEF s
<1>7. 1 \in 1..Len(data) /\ 1 \in 1..Len(s) /\ s # <<>>
  <2>1. 1 \in 1..Len(data) /\ 1 \in 1..Len(s) /\ Len(s) # 0  BY <1>4, <1>5
  <2>2. QED  BY <2>1, EmptySeq
<1>8. s[1].at = 1 /\ s[1].of = m /\ m \in Message
  <2>1. s[1].at = 1  BY <1>6, <1>7 DEF Begins
  <2>2. s[1] = data[1]  BY <1>5, <1>7
  <2>3. data[1].of \in Message  BY <1>2, <1>7, Places
  <2>4. QED  BY <2>1, <2>2, <2>3
<1> HIDE DEF m
<1>9. ASSUME NEW j \in 1..Len(s), j <= MessageLength
      PROVE  s[j] = [of |-> m, at |-> j]
  BY <1>5, <1>6, <1>7, <1>8, <1>9, MessageBegins
<1>10. MessageLength \in 1..Len(data) /\ MessageLength \in 1..Len(s)
  <2>1. SUFFICES ASSUME Len(data) < MessageLength PROVE FALSE
    BY <1>4, <1>5
  <2>2. Len(data) \in 1..Len(s) /\ Len(data) \in 1..Len(data) /\ Len(data) <= MessageLength
    BY <1>4, <1>5, <2>1
  <2>3. s[Len(data)] = [of |-> m, at |-> Len(data)]  BY <1>9, <2>2
  <2>4. data[Len(data)].at = MessageLength  BY <1>1, <1>3 DEF EndsWhole
  <2>5. data[Len(data)] = s[Len(data)]  BY <1>5, <2>2
  <2>6. Len(data) = MessageLength  BY <2>3, <2>4, <2>5
  <2>7. QED  BY <1>4, <2>1, <2>6
<1>11. s[MessageLength] = [of |-> m, at |-> MessageLength]  BY <1>4, <1>9, <1>10
<1>12. Takes(s, MessageLength, m)
  <2>1. Mail(s, MessageLength, m)  BY <1>10, <1>11 DEF Mail
  <2>2. ASSUME NEW k \in Nat, NEW o \in Message, Mail(s, k, o), ~(k > MessageLength)
        PROVE  k = MessageLength /\ o = m
    <3>1. k \in 1..Len(s) /\ s[k] = [of |-> o, at |-> MessageLength]  BY <2>2 DEF Mail
    <3>2. s[k] = [of |-> m, at |-> k]  BY <1>4, <1>9, <2>2, <3>1
    <3>3. s[k].of = o /\ s[k].at = MessageLength /\ s[k].of = m /\ s[k].at = k
      BY <3>1, <3>2
    <3>4. QED  BY <3>3
  <2>3. QED  BY <2>1, <2>2 DEF Takes
<1>13. MessageLength \in 0..Len(data)  BY <1>4, <1>10
<1>14. /\ Stream' \in Seq(Byte) /\ Rests(Stream', s, MessageLength)
       /\ Stream' = After(data, MessageLength) \o wire
  <2>1. /\ After(data, MessageLength) \o wire \in Seq(Byte)
        /\ Rests(After(data, MessageLength) \o wire, data \o wire, MessageLength)
    BY <1>2, <1>13, StreamRests
  <2>2. QED  BY <1>1, <2>1 DEF s, Stream
<1>15. LineInv'
  <2>1. s[MessageLength].at = MessageLength  BY <1>11
  <2>2. EndsWhole(s)  BY <1>3 DEF s
  <2>3. Framed(Stream') /\ Genuine(Stream') /\ Begins(Stream') /\ EndsWhole(Stream')
    BY <1>5, <1>6, <1>10, <1>14, <2>1, <2>2, WholeMessages
  <2>4. EndsWhole(After(data, MessageLength))
    <3> DEFINE e == After(data, MessageLength)
    <3>1. /\ e \in Seq(Byte) /\ Len(e) = Len(data) - MessageLength
          /\ \A k \in 1..Len(e) : e[k] = data[MessageLength + k]
      BY <1>2, <1>4, <1>10, AfterSlices
    <3> HIDE DEF e
    <3>2. ASSUME e # <<>> PROVE e[Len(e)].at = MessageLength
      <4>1. Len(e) > 0 /\ Len(e) \in Nat  BY <3>1, <3>2, Places
      <4>2. Len(e) \in 1..Len(e) /\ MessageLength + Len(e) = Len(data)
        BY <1>4, <3>1, <4>1
      <4>3. e[Len(e)] = data[Len(data)]  BY <3>1, <4>2
      <4>4. QED  BY <1>1, <1>3, <4>3 DEF EndsWhole
    <3>3. QED  BY <3>2 DEF EndsWhole, e
  <2>5. QED  BY <1>1, <2>3, <2>4 DEF LineInv
<1>16. QED  BY <1>4, <1>5, <1>8, <1>12, <1>14, <1>15 DEF s, m

\* The lines that are given up are the messages of an event.
LEMMA DropTakes ==
    ASSUME TypeInv, LineInv, alive, LinesAreDropped
    PROVE  /\ Stream \in Seq(Byte) /\ Stream' \in Seq(Byte)
           /\ \E n \in Nat :
                 /\ Rests(Stream', Stream, n)
                 /\ \A k \in Nat, m \in Message :
                       Mail(Stream, k, m) => k > n \/ m.udid \in missed'
           /\ LineInv'
<1>1. /\ source = "go-ios" /\ data # <<>> /\ data' = <<>>
      /\ missed' = missed \cup {data[k].of.udid : k \in DOMAIN data}
      /\ wire' = wire /\ source' = source /\ alive' = alive
  BY DEF LinesAreDropped
<1>2. data \in Seq(Byte) /\ wire \in Seq(Byte)  BY DEF TypeInv, TypeOK
<1>3. Framed(Stream) /\ Genuine(Stream) /\ EndsWhole(Stream) /\ EndsWhole(data)
  BY <1>1 DEF LineInv
<1> DEFINE n == Len(data)
<1>4. n \in Nat /\ n > 0 /\ n \in 0..n /\ n \in 1..n /\ DOMAIN data = 1..n
  <2>1. Len(data) \in Nat /\ Len(data) > 0  BY <1>1, <1>2, Places
  <2>2. QED  BY <1>2, <2>1, LenProperties
<1>5. /\ Stream \in Seq(Byte) /\ n <= Len(Stream) /\ Rests(wire, Stream, n)
      /\ \A k \in 1..n : data[k] = Stream[k]
  <2>1. After(data, n) = <<>>
    <3>1. After(data, n) \in Seq(Byte) /\ Len(After(data, n)) = 0
      BY <1>2, <1>4, AfterSlices
    <3>2. QED  BY <3>1, EmptySeq
  <2>2. After(data, n) \o wire = wire  BY <1>2, <2>1, ConcatEmptySeq
  <2>3. /\ data \o wire \in Seq(Byte)
        /\ Rests(After(data, n) \o wire, data \o wire, n)
        /\ n <= Len(data \o wire)
        /\ \A k \in 1..n : data[k] = (data \o wire)[k]
    BY <1>2, <1>4, StreamRests
  <2>4. QED  BY <2>2, <2>3 DEF Stream
<1>6. Stream' = wire  BY <1>1, <1>2, ConcatEmptySeq DEF Stream
<1>7. Stream[n].at = MessageLength /\ n \in 1..Len(Stream)
  <2>1. data[n].at = MessageLength  BY <1>1, <1>3 DEF EndsWhole
  <2>2. Len(Stream) \in Nat  BY <1>5, LenProperties
  <2>3. n <= Len(Stream) /\ data[n] = Stream[n]  BY <1>4, <1>5
  <2> HIDE DEF n
  <2>4. QED  BY <1>4, <2>1, <2>2, <2>3
<1> HIDE DEF n
<1>8. ASSUME NEW k \in Nat, NEW m \in Message, Mail(Stream, k, m), ~(k > n)
      PROVE  m.udid \in missed'
  <2>1. k \in 1..Len(Stream) /\ Stream[k] = [of |-> m, at |-> MessageLength]
    BY <1>8 DEF Mail
  <2>2. k \in 1..n  BY <1>4, <1>8, <2>1
  <2>3. data[k] = [of |-> m, at |-> MessageLength]  BY <1>5, <2>1, <2>2
  <2>4. data[k].of = m  BY <2>3
  <2>5. QED  BY <1>1, <1>4, <2>2, <2>4
<1>9. LineInv'
  <2>1. Framed(wire) /\ Genuine(wire) /\ Begins(wire) /\ EndsWhole(wire)
    BY <1>2, <1>3, <1>5, <1>7, WholeMessages
  <2>2. EndsWhole(<<>>)  BY DEF EndsWhole
  <2>3. QED  BY <1>1, <1>6, <2>1, <2>2 DEF LineInv
<1>10. QED  BY <1>2, <1>4, <1>5, <1>6, <1>8, <1>9

\* A message that is sent, and an event, leave the lines whole.
LEMMA LinesStayWhole ==
    ASSUME TypeInv, LineInv
    PROVE  /\ \A m \in Message : Sound(m) /\ Send(m) => LineInv'
           /\ DataEvent => LineInv'
<1>1. data \in Seq(Byte) /\ wire \in Seq(Byte)  BY DEF TypeInv, TypeOK
<1>2. ASSUME NEW m \in Message, Sound(m), Send(m), source = "go-ios" PROVE LineInv'
  <2>1. alive /\ data' = data  BY <1>2 DEF Send
  <2>2. Stream \in Seq(Byte) /\ Stream' = Stream \o Bytes(m)  BY <1>2, StreamSent
  <2>3. /\ Framed(Stream) /\ Genuine(Stream) /\ EndsWhole(Stream) /\ Begins(Stream)
        /\ EndsWhole(data)
    BY <1>2, <2>1 DEF LineInv
  <2>4. Framed(Stream') /\ Genuine(Stream') /\ EndsWhole(Stream')
    BY <1>2, <2>2, <2>3, SentFramed
  <2>5. Begins(Stream')
    <3> DEFINE s == Stream
               b == Bytes(m)
    <3>1. /\ b \in Seq(Byte) /\ Len(b) = MessageLength
          /\ \A k \in 1..MessageLength : b[k] = [of |-> m, at |-> k]
      BY BytesSent
    <3>2. s \in Seq(Byte) /\ Begins(s)  BY <2>2, <2>3
    <3>3. 1 \in 1..MessageLength /\ MessageLength \in Nat  BY Lengths
    <3>4. b[1].at = 1  BY <3>1, <3>3
    <3>5. Stream' = s \o b  BY <2>2
    <3> HIDE DEF s, b
    <3>6. /\ Len(s) \in Nat /\ Len(b) \in Nat
          /\ \A k \in 1..Len(s) + Len(b) : (s \o b)[k] = IF k <= Len(s) THEN s[k] ELSE b[k - Len(s)]
      BY <3>1, <3>2, ConcatProperties, LenProperties
    <3>7. 1 \in 1..Len(s) + Len(b)  BY <3>1, <3>3, <3>6
    <3>8. CASE s = <<>>
      <4>1. Len(s) = 0  BY <3>8, EmptySeq
      <4>2. (s \o b)[1] = b[1]  BY <3>6, <3>7, <4>1
      <4>3. QED  BY <3>4, <3>5, <4>2 DEF Begins
    <3>9. CASE s # <<>>
      <4>1. Len(s) > 0  BY <3>2, <3>9, Places
      <4>2. (s \o b)[1] = s[1]  BY <3>6, <3>7, <4>1
      <4>3. QED  BY <3>2, <3>5, <3>9, <4>2 DEF Begins
    <3>10. QED  BY <3>8, <3>9
  <2>6. QED  BY <2>1, <2>3, <2>4, <2>5 DEF LineInv
<1>3. ASSUME NEW m \in Message, Sound(m), Send(m) PROVE LineInv'
  <2>1. source' = source  BY <1>3 DEF Send
  <2>2. QED  BY <1>2, <1>3, <2>1 DEF LineInv
<1>4. ASSUME DataEvent PROVE LineInv'
  <2>1. PICK n \in 1..Len(wire) : EndsEvent(n) /\ data' = Upto(wire, n)
    BY <1>4 DEF DataEvent
  <2>2. source' = source /\ alive' = alive  BY <1>4 DEF DataEvent
  <2>3. Stream' = Stream /\ Stream = wire  BY <1>4, StreamKept
  <2>4. SUFFICES ASSUME source = "go-ios", alive PROVE LineInv'
    BY <2>2 DEF LineInv
  <2>5. Framed(wire) /\ Genuine(wire) /\ EndsWhole(wire) /\ Begins(wire)
    BY <2>3, <2>4 DEF LineInv
  <2>6. Len(wire) \in Nat /\ n \in Nat /\ 1 <= n /\ n <= Len(wire)
    BY <1>1, <2>1, LenProperties
  <2>7. /\ data' \in Seq(Byte) /\ Len(data') = n
        /\ \A k \in 1..n : data'[k] = wire[k]
    BY <1>1, <2>1, <2>6, UptoSlices
  <2>8. wire[n].at = MessageLength
    <3>1. wire[n].at \in 1..MessageLength /\ wire[n].at \in Nat /\ MessageLength \in Nat
      BY <1>1, <2>1, Places, Lengths
    <3>2. CASE n = Len(wire)
      <4>1. wire # <<>>  BY <2>6, <3>2, EmptySeq
      <4>2. QED  BY <2>5, <3>2, <4>1 DEF EndsWhole
    <3>3. CASE n # Len(wire)
      <4>1. n < Len(wire) /\ n + 1 \in 1..Len(wire) /\ n <= n + 1 /\ (n + 1) - n = 1
        BY <2>6, <3>3
      <4>2. wire[n + 1].at = 1  BY <2>1, <2>4, <4>1 DEF EndsEvent
      <4>3. 1 <= MessageLength - wire[n].at =>
               wire[n + 1] = [of |-> wire[n].of, at |-> wire[n].at + 1]
        BY <2>1, <2>5, <4>1 DEF Framed
      <4>4. 1 <= MessageLength - wire[n].at => wire[n + 1].at = wire[n].at + 1
        BY <4>3
      <4>5. QED  BY <3>1, <4>2, <4>4
    <3>4. QED  BY <3>2, <3>3
  <2>9. EndsWhole(data')
    <3>1. n \in 1..n  BY <2>6
    <3>2. data'[n].at = MessageLength  BY <2>7, <2>8, <3>1
    <3>3. QED  BY <2>7, <3>2 DEF EndsWhole
  <2>10. QED  BY <2>3, <2>5, <2>9 DEF LineInv
<1>5. QED  BY <1>3, <1>4

-----------------------------------------------------------------------------
(***************************************************************************)
(* The account of the connections, for a stream seq: what the tables and    *)
(* the pending messages of seq say together.                                *)
(***************************************************************************)

\* Messages are about connections; go-ios keeps the answers to itself.
Proper(m) ==
    \/ \E type \in {"Attached", "Detached", "Paired"}, l \in Links :
          m = About(type, l) /\ (type = "Paired" => l.udid \in Pairing)
    \/ source = "usbmux" /\ m \in {Reply("Result"), Reply("Refusal")}

AllProper(seq) == \A k \in Nat, m \in Message : Mail(seq, k, m) => Proper(m)

\* The id i stands for the device u: in usbmuxd, in go-ios, or in a message.
Owns(seq, i, u) ==
    \/ [id |-> i, udid |-> u] \in links
    \/ names[i] = u
    \/ \E k \in Nat, m \in Message : Mail(seq, k, m) /\ m.id = i /\ m.udid = u

OneOwner(seq) == \A i \in Ids, u, v \in Udids : Owns(seq, i, u) /\ Owns(seq, i, v) => u = v
GivenOut(seq) == \A i \in Ids, u \in Udids : Owns(seq, i, u) => i <= lastId

OneLink == \A k, l \in links : k.udid = l.udid /\ l.udid \notin TwoWays => k = l

\* The connection l is there, or its end is announced after the k-th byte.
Backed(seq, k, l) == l \in links \/ LeftAfter(seq, k, l)

\* An arrival that is pending is that of a connection.
Accounted(seq) ==
    \A k \in Nat, l \in Links :
        l.udid \notin missed /\ Mail(seq, k, About("Attached", l)) => Backed(seq, k, l)

\* The source has l as the connection of its device.
Knows(l) == IF source = "usbmux" THEN known[l.udid] = l.id ELSE names[l.id] = l.udid

\* A device that was reported as attached is so for the sake of a connection.
Known(seq) ==
    \A u \in Udids \ missed : told[u] = "attached" =>
        \E l \in Links : l.udid = u /\ Knows(l) /\ Backed(seq, 0, l)

\* The devices that the source reports without fail.
Plain(l) == l.udid \notin TwoWays \cup missed /\ (source = "usbmux" \/ l.udid \notin Pairing)

\* The arrival is pending, and nothing comes after it; or it was reported.
Announced(seq, l) ==
    \E k \in Nat : Mail(seq, k, About("Attached", l)) /\ Quiet(seq, k, l.udid)
Tells(l) == told[l.udid] = "attached" /\ (source = "usbmux" => known[l.udid] = l.id)

Shown(seq) ==
    \A l \in links : Plain(l) =>
        Announced(seq, l) \/ (Tells(l) /\ Quiet(seq, 0, l.udid))

MailInv(seq) ==
    /\ AllProper(seq)
    /\ OneOwner(seq) /\ GivenOut(seq)
    /\ Accounted(seq) /\ Known(seq) /\ Shown(seq)

LinkInv == IsFiniteSet(links) /\ OneLink

EventInv == LinkInv /\ LineInv /\ (alive /\ ~crashed => MailInv(Stream))

-----------------------------------------------------------------------------
(* Reading *)

\* Messages about connections tell which.
LEMMA AboutWhich ==
    ASSUME NEW l \in Links, NEW type \in {"Attached", "Detached", "Paired"}
    PROVE  /\ About(type, l) \in Message /\ Sound(About(type, l))
           /\ About(type, l).type = type
           /\ About(type, l).id = l.id /\ About(type, l).udid = l.udid
           /\ l.id \in Ids /\ l.udid \in Udids
           /\ \A k \in Links, other \in {"Attached", "Detached", "Paired"} :
                 About(type, l) = About(other, k) => type = other /\ l = k
<1>1. ASSUME NEW k \in Links, NEW other \in {"Attached", "Detached", "Paired"},
             About(type, l) = About(other, k)
      PROVE  type = other /\ l = k
  <2>1. About(type, l).type = type /\ About(type, l).id = l.id /\ About(type, l).udid = l.udid
    BY DEF About
  <2>2. About(other, k).type = other /\ About(other, k).id = k.id /\ About(other, k).udid = k.udid
    BY DEF About
  <2>3. type = other /\ l.id = k.id /\ l.udid = k.udid  BY <1>1, <2>1, <2>2
  <2>4. QED  BY <2>3 DEF Links
<1>2. QED  BY <1>1 DEF About, Links, Message, Sound

\* Later is quieter.
LEMMA QuietLater ==
    ASSUME NEW seq, NEW n \in Nat, NEW u, Quiet(seq, 0, u)
    PROVE  Quiet(seq, n, u)
<1>1. ASSUME NEW j \in Nat, NEW m \in Message, j > n, Mail(seq, j, m), m.udid = u
      PROVE  m.type = "Paired"
  <2>1. j > 0  BY <1>1
  <2>2. QED  BY <1>1, <2>1 DEF Quiet
<1>2. QED  BY <1>1 DEF Quiet

\* A step that reads the first n bytes.
Reading(n) ==
    /\ Stream \in Seq(Byte) /\ Stream' \in Seq(Byte)
    /\ Rests(Stream', Stream, n)
    /\ UNCHANGED <<source, links, lastId>>
    /\ missed \subseteq missed'
    /\ \A i \in Ids, u \in Udids : names'[i] = u => Owns(Stream, i, u)

\* Whatever is read, messages stay proper, ids unique and arrivals accounted for.
LEMMA ReadingKeeps ==
    ASSUME NEW n \in Nat, Reading(n), MailInv(Stream)
    PROVE  /\ AllProper(Stream)'
           /\ OneOwner(Stream)' /\ GivenOut(Stream)'
           /\ Accounted(Stream)'
<1> DEFINE s == Stream
           r == Stream'
<1>1. /\ s \in Seq(Byte) /\ r \in Seq(Byte) /\ Rests(r, s, n)
      /\ UNCHANGED <<source, links, lastId>> /\ missed \subseteq missed'
      /\ \A i \in Ids, u \in Udids : names'[i] = u => Owns(s, i, u)
  BY DEF Reading
<1>2. AllProper(s) /\ OneOwner(s) /\ GivenOut(s) /\ Accounted(s)  BY DEF MailInv
<1> HIDE DEF s, r
<1>3. \A k \in Nat, m \in Message : Mail(r, k, m) => n + k \in Nat /\ Mail(s, n + k, m)
  BY <1>1, MailRests
<1>4. AllProper(Stream)'
  <2>1. ASSUME NEW k \in Nat, NEW m \in Message, Mail(r, k, m) PROVE Proper(m)'
    <3>1. Proper(m)  BY <1>2, <1>3, <2>1 DEF AllProper
    <3>2. QED  BY <1>1, <3>1 DEF Proper
  <2>2. QED  BY <2>1 DEF AllProper, r
<1>5. ASSUME NEW i \in Ids, NEW u \in Udids, Owns(Stream, i, u)' PROVE Owns(s, i, u)
  <2>1. CASE [id |-> i, udid |-> u] \in links'  BY <1>1, <2>1 DEF Owns
  <2>2. CASE names'[i] = u  BY <1>1, <2>2
  <2>3. CASE \E k \in Nat, m \in Message : Mail(r, k, m) /\ m.id = i /\ m.udid = u
    <3>1. PICK k \in Nat, m \in Message : Mail(r, k, m) /\ m.id = i /\ m.udid = u  BY <2>3
    <3>2. n + k \in Nat /\ Mail(s, n + k, m)  BY <1>3, <3>1
    <3>3. QED  BY <3>1, <3>2 DEF Owns
  <2>4. QED  BY <1>5, <2>1, <2>2, <2>3 DEF Owns, r
<1>6. OneOwner(Stream)'  BY <1>2, <1>5 DEF OneOwner
<1>7. GivenOut(Stream)'  BY <1>1, <1>2, <1>5 DEF GivenOut
<1>8. Accounted(Stream)'
  <2>1. ASSUME NEW k \in Nat, NEW l \in Links, l.udid \notin missed',
               Mail(r, k, About("Attached", l))
        PROVE  Backed(Stream, k, l)'
    <3>1. About("Attached", l) \in Message  BY AboutWhich
    <3>2. n + k \in Nat /\ Mail(s, n + k, About("Attached", l))  BY <1>3, <2>1, <3>1
    <3>3. Backed(s, n + k, l)  BY <1>1, <1>2, <2>1, <3>2 DEF Accounted
    <3>4. LeftAfter(s, n + k, l) => LeftAfter(r, k, l)  BY <1>1, LeftRests
    <3>5. QED  BY <1>1, <3>3, <3>4 DEF Backed, r
  <2>2. QED  BY <2>1 DEF Accounted, r
<1>9. QED  BY <1>4, <1>6, <1>7, <1>8

\* When nothing is read to its end but what is given up, the rest is as it was.
LEMMA PassingKeeps ==
    ASSUME NEW n \in Nat, Reading(n), MailInv(Stream), TypeInv,
           UNCHANGED <<known, names, told>>,
           \A k \in Nat, m \in Message : Mail(Stream, k, m) => k > n \/ m.udid \in missed'
    PROVE  MailInv(Stream)'
<1> DEFINE s == Stream
           r == Stream'
<1>1. /\ s \in Seq(Byte) /\ r \in Seq(Byte) /\ Rests(r, s, n)
      /\ UNCHANGED <<source, links, lastId, known, names, told>> /\ missed \subseteq missed'
      /\ \A k \in Nat, m \in Message : Mail(s, k, m) => k > n \/ m.udid \in missed'
  BY DEF Reading
<1>2. Known(s) /\ Shown(s)  BY DEF MailInv
<1>3. links \subseteq Links  BY DEF TypeInv, TypeOK, Links
<1> HIDE DEF s, r
<1>4. n + 0 = n /\ 0 \in Nat  OBVIOUS
<1>5. Known(Stream)'
  <2>1. ASSUME NEW u \in Udids \ missed', told'[u] = "attached"
        PROVE  \E l \in Links : l.udid = u /\ Knows(l)' /\ Backed(Stream, 0, l)'
    <3>1. PICK l \in Links : l.udid = u /\ Knows(l) /\ Backed(s, 0, l)
      BY <1>1, <1>2, <2>1 DEF Known
    <3>2. Knows(l)'  BY <1>1, <3>1 DEF Knows
    <3>3. ASSUME LeftAfter(s, 0, l) PROVE LeftAfter(r, 0, l)
      <4>1. PICK j \in Nat : j > 0 /\ Mail(s, j, About("Detached", l))
        BY <3>3 DEF LeftAfter
      <4>2. About("Detached", l) \in Message /\ About("Detached", l).udid = l.udid
        BY AboutWhich
      <4>3. j > n  BY <1>1, <2>1, <3>1, <4>1, <4>2
      <4>4. LeftAfter(s, n + 0, l)  BY <1>4, <4>1, <4>3 DEF LeftAfter
      <4>5. QED  BY <1>1, <1>4, <4>4, LeftRests
    <3>4. Backed(Stream, 0, l)'  BY <1>1, <3>1, <3>3 DEF Backed, r
    <3>5. QED  BY <3>1, <3>2, <3>4
  <2>2. QED  BY <2>1 DEF Known
<1>6. Shown(Stream)'
  <2>1. ASSUME NEW l \in links', Plain(l)'
        PROVE  Announced(Stream, l)' \/ (Tells(l)' /\ Quiet(Stream, 0, l.udid)')
    <3>1. l \in links /\ l \in Links /\ Plain(l) /\ l.udid \notin missed'
      BY <1>1, <1>3, <2>1 DEF Plain
    <3>2. /\ About("Attached", l) \in Message /\ About("Attached", l).udid = l.udid
          /\ l.udid \in Udids
      BY <3>1, AboutWhich
    <3>3. CASE Announced(s, l)
      <4>1. PICK k \in Nat : Mail(s, k, About("Attached", l)) /\ Quiet(s, k, l.udid)
        BY <3>3 DEF Announced
      <4>2. k > n  BY <1>1, <3>1, <3>2, <4>1
      <4>3. k - n \in Nat /\ n + (k - n) = k /\ Mail(r, k - n, About("Attached", l))
        BY <1>1, <3>2, <4>1, <4>2, MailRests
      <4>4. Quiet(r, k - n, l.udid)  BY <1>1, <3>1, <3>2, <4>1, <4>3, LeftRests
      <4>5. QED  BY <4>3, <4>4 DEF Announced, r
    <3>4. CASE Tells(l) /\ Quiet(s, 0, l.udid)
      <4>1. Tells(l)'  BY <1>1, <3>4 DEF Tells
      <4>2. Quiet(s, n + 0, l.udid)  BY <1>4, <3>4, QuietLater
      <4>3. Quiet(r, 0, l.udid)  BY <1>1, <1>4, <3>1, <3>2, <4>2, LeftRests
      <4>4. QED  BY <4>1, <4>3 DEF r
    <3>5. QED  BY <1>2, <3>1, <3>3, <3>4 DEF Shown
  <2>2. QED  BY <2>1 DEF Shown
<1>7. QED  BY <1>5, <1>6, ReadingKeeps DEF MailInv

-----------------------------------------------------------------------------
(* Handling *)

\* Who is attached after m was handled: the device of m, or one that was.
Attaches(m) ==
    \A u \in Udids : told'[u] = "attached" =>
        \/ \E l \in Links : m = About("Attached", l) /\ l.udid = u /\ Knows(l)'
        \/ /\ told[u] = "attached"
           /\ \A l \in Links : l.udid = u /\ Knows(l) => Knows(l)' /\ m # About("Detached", l)

\* m tells of an arrival, and does no harm to devices it is not about.
Reports(m) ==
    \A l \in links : Plain(l) =>
        /\ m = About("Attached", l) => Tells(l)'
        /\ Tells(l) /\ (m.udid = l.udid => m.type = "Paired") => Tells(l)'

\* The ways in which a message is handled.
LEMMA Kinds ==
    ASSUME AllProper(Stream), NEW k \in Nat, NEW m \in Message, Mail(Stream, k, m)
    PROVE  \/ \E l \in Links : m = About("Attached", l)
           \/ \E l \in Links : m = About("Detached", l)
           \/ /\ \E l \in Links : m = About("Paired", l) /\ l.udid \in Pairing
              /\ m.type \notin {"Attached", "Detached"}
           \/ /\ source = "usbmux" /\ m.type \in {"Result", "Refusal"}
              /\ \A l \in Links : m # About("Attached", l) /\ m # About("Detached", l)
<1>1. Proper(m)  BY DEF AllProper
<1>2. CASE \E type \in {"Attached", "Detached", "Paired"}, l \in Links :
              m = About(type, l) /\ (type = "Paired" => l.udid \in Pairing)
  <2>1. PICK type \in {"Attached", "Detached", "Paired"}, l \in Links :
           m = About(type, l) /\ (type = "Paired" => l.udid \in Pairing)
    BY <1>2
  <2>2. m.type = type  BY <2>1, AboutWhich
  <2>3. QED  BY <2>1, <2>2
<1>3. CASE source = "usbmux" /\ m \in {Reply("Result"), Reply("Refusal")}
  <2>1. m.type \in {"Result", "Refusal"}  BY <1>3 DEF Reply
  <2>2. ASSUME NEW l \in Links PROVE m # About("Attached", l) /\ m # About("Detached", l)
    BY <2>1, AboutWhich
  <2>3. QED  BY <1>3, <2>1, <2>2
<1>4. QED  BY <1>1, <1>2, <1>3 DEF Proper

\* The connection of a message that is pending has no other device.
LEMMA MailOwns ==
    ASSUME OneOwner(Stream), NEW k \in Nat, NEW l \in Links,
           NEW type \in {"Attached", "Detached", "Paired"},
           Mail(Stream, k, About(type, l)),
           NEW u \in Udids, Owns(Stream, l.id, u)
    PROVE  u = l.udid
<1>1. /\ About(type, l) \in Message
      /\ About(type, l).id = l.id /\ About(type, l).udid = l.udid
      /\ l.id \in Ids /\ l.udid \in Udids
  BY AboutWhich
<1>2. Owns(Stream, l.id, l.udid)  BY <1>1 DEF Owns
<1>3. QED  BY <1>1, <1>2 DEF OneOwner

\* onMsgComplete of usbmux.ts.
LEMMA SocketHandles ==
    ASSUME TypeInv, MailInv(Stream), source = "usbmux", UNCHANGED <<source, names, missed>>,
           NEW k \in Nat, NEW m \in Message, Mail(Stream, k, m), OnMsgComplete(m)
    PROVE  Attaches(m) /\ Reports(m)
<1>1. /\ AllProper(Stream) /\ OneOwner(Stream)
      /\ known \in [Udids -> Ids \cup {None}] /\ None \notin Ids
      /\ told \in [Udids -> {"nothing", "attached", "detached"}]
      /\ links \subseteq Links
  BY TrackerAssumption DEF MailInv, TypeInv, TypeOK, Links
<1>2. \A l \in Links : /\ l.id \in Ids /\ l.udid \in Udids
                       /\ (Knows(l) <=> known[l.udid] = l.id)
                       /\ (Knows(l)' <=> known'[l.udid] = l.id)
                       /\ (Tells(l) <=> told[l.udid] = "attached" /\ known[l.udid] = l.id)
                       /\ (Tells(l)' <=> told'[l.udid] = "attached" /\ known'[l.udid] = l.id)
  BY DEF Knows, Tells, Links
<1>3. CASE \E l \in Links : m = About("Attached", l)
  <2>1. PICK a \in Links : m = About("Attached", a)  BY <1>3
  <2>2. m.type = "Attached" /\ m.id = a.id /\ m.udid = a.udid  BY <2>1, AboutWhich
  <2>3. \A l \in Links : m # About("Detached", l) /\ (m = About("Attached", l) => l = a)
    BY <2>1, AboutWhich
  <2>4. /\ known' = [known EXCEPT ![a.udid] = a.id]
        /\ told' = [told EXCEPT ![a.udid] = "attached"]
    BY <2>2 DEF OnMsgComplete
  <2>5. /\ known'[a.udid] = a.id /\ told'[a.udid] = "attached"
        /\ \A u \in Udids : u # a.udid => known'[u] = known[u] /\ told'[u] = told[u]
    BY <1>1, <1>2, <2>4
  <2>6. Attaches(m)
    <3>1. ASSUME NEW u \in Udids, told'[u] = "attached"
          PROVE  \/ \E l \in Links : m = About("Attached", l) /\ l.udid = u /\ Knows(l)'
                 \/ /\ told[u] = "attached"
                    /\ \A l \in Links : l.udid = u /\ Knows(l) =>
                          Knows(l)' /\ m # About("Detached", l)
      <4>1. CASE u = a.udid  BY <1>2, <2>1, <2>5, <4>1
      <4>2. CASE u # a.udid  BY <1>2, <2>3, <2>5, <3>1, <4>2
      <4>3. QED  BY <4>1, <4>2
    <3>2. QED  BY <3>1 DEF Attaches
  <2>7. Reports(m)
    <3>1. ASSUME NEW l \in links, Plain(l)
          PROVE  /\ m = About("Attached", l) => Tells(l)'
                 /\ Tells(l) /\ (m.udid = l.udid => m.type = "Paired") => Tells(l)'
      BY <1>1, <1>2, <2>2, <2>3, <2>5
    <3>2. QED  BY <3>1 DEF Reports
  <2>8. QED  BY <2>6, <2>7
<1>4. CASE \E l \in Links : m = About("Detached", l)
  <2>1. PICK a \in Links : m = About("Detached", a)  BY <1>4
  <2>2. m.type = "Detached" /\ m.id = a.id /\ m.udid = a.udid  BY <2>1, AboutWhich
  <2>3. \A l \in Links : m # About("Attached", l) /\ (m = About("Detached", l) => l = a)
    BY <2>1, AboutWhich
  <2>4. /\ known' = ForgetId(m)
        /\ told' = [u \in Udids |-> IF known'[u] # known[u] THEN "detached" ELSE told[u]]
    BY <2>2 DEF OnMsgComplete
  <2>5. \A u \in Udids :
           /\ known[u] = a.id => told'[u] = "detached"
           /\ known[u] # a.id => known'[u] = known[u] /\ told'[u] = told[u]
    BY <1>1, <1>2, <2>2, <2>4 DEF ForgetId
  <2>6. Attaches(m)
    <3>1. ASSUME NEW u \in Udids, told'[u] = "attached"
          PROVE  /\ told[u] = "attached"
                 /\ \A l \in Links : l.udid = u /\ Knows(l) =>
                       Knows(l)' /\ m # About("Detached", l)
      <4>1. known[u] # a.id /\ known'[u] = known[u] /\ told'[u] = told[u]  BY <2>5, <3>1
      <4>2. QED  BY <1>2, <2>3, <3>1, <4>1
    <3>2. QED  BY <3>1 DEF Attaches
  <2>7. Reports(m)
    <3>1. ASSUME NEW l \in links, Plain(l), Tells(l), m.udid = l.udid => m.type = "Paired"
          PROVE  Tells(l)'
      <4>1. l \in Links /\ l.udid # a.udid /\ l.udid \in Udids
        BY <1>1, <1>2, <2>2, <3>1
      <4>2. l = [id |-> l.id, udid |-> l.udid]  BY <4>1 DEF Links
      <4>3. l.id = a.id => Owns(Stream, a.id, l.udid)  BY <3>1, <4>2 DEF Owns
      <4>4. l.id # a.id  BY <1>1, <2>1, <4>1, <4>3, MailOwns
      <4>5. known[l.udid] = l.id  BY <1>2, <3>1, <4>1
      <4>6. known'[l.udid] = known[l.udid] /\ told'[l.udid] = told[l.udid]
        BY <2>5, <4>1, <4>4, <4>5
      <4>7. QED  BY <1>2, <3>1, <4>1, <4>6
    <3>2. QED  BY <1>1, <2>3, <3>1 DEF Reports
  <2>8. QED  BY <2>6, <2>7
<1>5. CASE /\ m.type \notin {"Attached", "Detached"}
           /\ \A l \in Links : m # About("Attached", l) /\ m # About("Detached", l)
  <2>1. known' = known /\ told' = told  BY <1>5 DEF OnMsgComplete
  <2>2. Attaches(m)  BY <1>2, <1>5, <2>1 DEF Attaches
  <2>3. Reports(m)  BY <1>1, <1>2, <1>5, <2>1 DEF Reports
  <2>4. QED  BY <2>2, <2>3
<1>6. \A l, a \in Links : m = About("Paired", a) =>
         m # About("Attached", l) /\ m # About("Detached", l)
  BY AboutWhich
<1>7. QED  BY <1>1, <1>3, <1>4, <1>5, <1>6, Kinds

\* notify of goIOSTracker.ts.
LEMMA LineHandles ==
    ASSUME TypeInv, MailInv(Stream), NEW k \in Nat, NEW m \in Message, Mail(Stream, k, m),
           Notify, m = data[1].of
    PROVE  /\ Attaches(m) /\ Reports(m)
           /\ \A i \in Ids, u \in Udids : names'[i] = u => Owns(Stream, i, u)
<1>1. /\ AllProper(Stream) /\ OneOwner(Stream)
      /\ names \in [Ids -> Udids \cup {None}]
      /\ told \in [Udids -> {"nothing", "attached", "detached"}]
      /\ links \subseteq Links
  BY DEF MailInv, TypeInv, TypeOK, Links
<1>2. source = "go-ios" /\ source' = source  BY DEF Notify
<1>3. \A l \in Links : /\ l.id \in Ids /\ l.udid \in Udids
                       /\ (Knows(l) <=> names[l.id] = l.udid)
                       /\ (Knows(l)' <=> names'[l.id] = l.udid)
                       /\ (Tells(l) <=> told[l.udid] = "attached")
                       /\ (Tells(l)' <=> told'[l.udid] = "attached")
  BY <1>2 DEF Knows, Tells, Links
<1>4. CASE \E l \in Links : m = About("Attached", l)
  <2>1. PICK a \in Links : m = About("Attached", a)  BY <1>4
  <2>2. m.type = "Attached" /\ m.id = a.id /\ m.udid = a.udid  BY <2>1, AboutWhich
  <2>3. \A l \in Links : m # About("Detached", l) /\ (m = About("Attached", l) => l = a)
    BY <2>1, AboutWhich
  <2>4. /\ names' = [names EXCEPT ![a.id] = a.udid]
        /\ told' = [told EXCEPT ![a.udid] = "attached"]
    BY <2>2 DEF Notify
  <2>5. /\ names'[a.id] = a.udid /\ told'[a.udid] = "attached"
        /\ \A u \in Udids : u # a.udid => told'[u] = told[u]
        /\ \A i \in Ids : i # a.id => names'[i] = names[i]
    BY <1>1, <1>3, <2>4
  <2>6. Attaches(m)
    <3>1. ASSUME NEW u \in Udids, told'[u] = "attached"
          PROVE  \/ \E l \in Links : m = About("Attached", l) /\ l.udid = u /\ Knows(l)'
                 \/ /\ told[u] = "attached"
                    /\ \A l \in Links : l.udid = u /\ Knows(l) =>
                          Knows(l)' /\ m # About("Detached", l)
      <4>1. CASE u = a.udid  BY <1>3, <2>1, <2>5, <4>1
      <4>2. CASE u # a.udid
        <5>1. ASSUME NEW l \in Links, l.udid = u, Knows(l) PROVE Knows(l)'
          <6>1. Owns(Stream, l.id, u)  BY <1>3, <5>1 DEF Owns
          <6>2. l.id # a.id  BY <1>1, <2>1, <4>2, <6>1, MailOwns
          <6>3. QED  BY <1>3, <2>5, <5>1, <6>2
        <5>2. QED  BY <2>3, <2>5, <3>1, <4>2, <5>1
      <4>3. QED  BY <4>1, <4>2
    <3>2. QED  BY <3>1 DEF Attaches
  <2>7. Reports(m)
    <3>1. ASSUME NEW l \in links, Plain(l)
          PROVE  /\ m = About("Attached", l) => Tells(l)'
                 /\ Tells(l) /\ (m.udid = l.udid => m.type = "Paired") => Tells(l)'
      BY <1>1, <1>3, <2>2, <2>3, <2>5
    <3>2. QED  BY <3>1 DEF Reports
  <2>8. ASSUME NEW i \in Ids, NEW u \in Udids, names'[i] = u PROVE Owns(Stream, i, u)
    <3>1. CASE i = a.id  BY <2>2, <2>5, <2>8, <3>1 DEF Owns
    <3>2. CASE i # a.id  BY <2>5, <2>8, <3>2 DEF Owns
    <3>3. QED  BY <3>1, <3>2
  <2>9. QED  BY <2>6, <2>7, <2>8
<1>5. ASSUME NEW a \in Links, NEW type \in {"Detached", "Paired"}, m = About(type, a),
             type = "Paired" => a.udid \in Pairing
      PROVE  /\ Attaches(m) /\ Reports(m)
             /\ \A i \in Ids, u \in Udids : names'[i] = u => Owns(Stream, i, u)
  <2>1. m.type = type /\ m.id = a.id /\ m.udid = a.udid  BY <1>5, AboutWhich
  <2>2. \A l \in Links : m # About("Attached", l) /\ (m = About("Detached", l) => l = a)
    BY <1>5, AboutWhich
  <2>3. /\ names' = names
        /\ told' = [u \in Udids |-> IF u = names[a.id] THEN "detached" ELSE told[u]]
    BY <1>5, <2>1 DEF Notify, Named
  <2>4. \A u \in Udids : /\ u = names[a.id] => told'[u] = "detached"
                         /\ u # names[a.id] => told'[u] = told[u]
    BY <2>3
  <2>5. Attaches(m)
    <3>1. ASSUME NEW u \in Udids, told'[u] = "attached"
          PROVE  /\ told[u] = "attached"
                 /\ \A l \in Links : l.udid = u /\ Knows(l) =>
                       Knows(l)' /\ m # About("Detached", l)
      <4>1. u # names[a.id] /\ told'[u] = told[u]  BY <2>4, <3>1
      <4>2. QED  BY <1>3, <2>2, <2>3, <3>1, <4>1
    <3>2. QED  BY <3>1 DEF Attaches
  <2>6. Reports(m)
    <3>1. ASSUME NEW l \in links, Plain(l), Tells(l), m.udid = l.udid => m.type = "Paired"
          PROVE  Tells(l)'
      <4>1. l \in Links /\ l.udid \in Udids /\ l.udid \notin Pairing
        BY <1>1, <1>2, <1>3, <3>1 DEF Plain
      <4>2. l.udid # a.udid  BY <1>5, <2>1, <3>1, <4>1
      <4>3. l.udid = names[a.id] => Owns(Stream, a.id, l.udid)  BY DEF Owns
      <4>4. l.udid # names[a.id]  BY <1>1, <1>5, <4>1, <4>2, <4>3, MailOwns
      <4>5. told'[l.udid] = told[l.udid]  BY <2>4, <4>1, <4>4
      <4>6. QED  BY <1>3, <3>1, <4>1, <4>5
    <3>2. QED  BY <1>1, <2>2, <3>1 DEF Reports
  <2>7. \A i \in Ids, u \in Udids : names'[i] = u => Owns(Stream, i, u)
    BY <2>3 DEF Owns
  <2>8. QED  BY <2>5, <2>6, <2>7
<1>6. QED  BY <1>1, <1>2, <1>4, <1>5, Kinds

\* A message is read to its end and handled.
LEMMA TakingKeeps ==
    ASSUME NEW n \in Nat, Reading(n), MailInv(Stream), TypeInv, missed' = missed,
           NEW m \in Message, Takes(Stream, n, m), Attaches(m), Reports(m)
    PROVE  MailInv(Stream)'
<1> DEFINE s == Stream
           r == Stream'
<1>1. /\ s \in Seq(Byte) /\ r \in Seq(Byte) /\ Rests(r, s, n)
      /\ UNCHANGED <<source, links, lastId, missed>>
  BY DEF Reading
<1>2. Accounted(s) /\ Known(s) /\ Shown(s)  BY DEF MailInv
<1>3. links \subseteq Links  BY DEF TypeInv, TypeOK, Links
<1>4. /\ Mail(s, n, m)
      /\ \A k \in Nat, o \in Message : Mail(s, k, o) => k > n \/ (k = n /\ o = m)
  BY DEF Takes
<1> HIDE DEF s, r
<1>5. n + 0 = n /\ 0 \in Nat /\ n > 0  BY <1>1, <1>4, MailPlaces
<1>6. ASSUME NEW l \in Links, LeftAfter(s, n, l) PROVE LeftAfter(r, 0, l)
  BY <1>1, <1>5, <1>6, LeftRests
<1>7. Known(Stream)'
  <2>1. ASSUME NEW u \in Udids \ missed', told'[u] = "attached"
        PROVE  \E l \in Links : l.udid = u /\ Knows(l)' /\ Backed(Stream, 0, l)'
    <3>1. CASE \E l \in Links : m = About("Attached", l) /\ l.udid = u /\ Knows(l)'
      <4>1. PICK l \in Links : m = About("Attached", l) /\ l.udid = u /\ Knows(l)'  BY <3>1
      <4>2. Backed(s, n, l)  BY <1>1, <1>2, <1>4, <2>1, <4>1 DEF Accounted
      <4>3. Backed(Stream, 0, l)'  BY <1>1, <1>6, <4>2 DEF Backed, r
      <4>4. QED  BY <4>1, <4>3
    <3>2. CASE /\ told[u] = "attached"
               /\ \A l \in Links : l.udid = u /\ Knows(l) => Knows(l)' /\ m # About("Detached", l)
      <4>1. PICK l \in Links : l.udid = u /\ Knows(l) /\ Backed(s, 0, l)
        BY <1>1, <1>2, <2>1, <3>2 DEF Known
      <4>2. Knows(l)' /\ m # About("Detached", l)  BY <3>2, <4>1
      <4>3. ASSUME LeftAfter(s, 0, l) PROVE LeftAfter(r, 0, l)
        <5>1. PICK j \in Nat : j > 0 /\ Mail(s, j, About("Detached", l))
          BY <4>3 DEF LeftAfter
        <5>2. About("Detached", l) \in Message  BY AboutWhich
        <5>3. j > n  BY <1>4, <4>2, <5>1, <5>2
        <5>4. LeftAfter(s, n, l)  BY <5>1, <5>3 DEF LeftAfter
        <5>5. QED  BY <1>6, <5>4
      <4>4. Backed(Stream, 0, l)'  BY <1>1, <4>1, <4>3 DEF Backed, r
      <4>5. QED  BY <4>1, <4>2, <4>4
    <3>3. QED  BY <2>1, <3>1, <3>2 DEF Attaches
  <2>2. QED  BY <2>1 DEF Known
<1>8. Shown(Stream)'
  <2>1. ASSUME NEW l \in links', Plain(l)'
        PROVE  Announced(Stream, l)' \/ (Tells(l)' /\ Quiet(Stream, 0, l.udid)')
    <3>1. l \in links /\ l \in Links /\ Plain(l)
      BY <1>1, <1>3, <2>1 DEF Plain
    <3>2. About("Attached", l) \in Message /\ l.udid \in Udids  BY <3>1, AboutWhich
    <3>3. CASE Announced(s, l)
      <4>1. PICK k \in Nat : Mail(s, k, About("Attached", l)) /\ Quiet(s, k, l.udid)
        BY <3>3 DEF Announced
      <4>2. CASE k > n
        <5>1. k - n \in Nat /\ n + (k - n) = k /\ Mail(r, k - n, About("Attached", l))
          BY <1>1, <3>2, <4>1, <4>2, MailRests
        <5>2. Quiet(r, k - n, l.udid)  BY <1>1, <3>1, <3>2, <4>1, <5>1, LeftRests
        <5>3. QED  BY <5>1, <5>2 DEF Announced, r
      <4>3. CASE k = n /\ About("Attached", l) = m
        <5>1. Tells(l)'  BY <3>1, <4>3 DEF Reports
        <5>2. Quiet(r, 0, l.udid)  BY <1>1, <1>5, <3>1, <3>2, <4>1, <4>3, LeftRests
        <5>3. QED  BY <5>1, <5>2 DEF r
      <4>4. QED  BY <1>4, <3>2, <4>1, <4>2, <4>3
    <3>4. CASE Tells(l) /\ Quiet(s, 0, l.udid)
      <4>1. m.udid = l.udid => m.type = "Paired"  BY <1>4, <1>5, <3>4 DEF Quiet
      <4>2. Tells(l)'  BY <3>1, <3>4, <4>1 DEF Reports
      <4>3. Quiet(s, n + 0, l.udid)  BY <1>5, <3>4, QuietLater
      <4>4. Quiet(r, 0, l.udid)  BY <1>1, <1>5, <3>1, <3>2, <4>3, LeftRests
      <4>5. QED  BY <4>2, <4>4 DEF r
    <3>5. QED  BY <1>2, <3>1, <3>3, <3>4 DEF Shown
  <2>2. QED  BY <2>1 DEF Shown
<1>9. QED  BY <1>7, <1>8, ReadingKeeps DEF MailInv

\* Every step of the tracker keeps the account.
LEMMA TrackerKeeps ==
    ASSUME TypeInv, StreamInv, EventInv, Tracker
    PROVE  EventInv'
<1>1. /\ links' = links /\ alive' = alive /\ lastId' = lastId /\ source' = source
      /\ crashed => crashed'
  <2>1. CASE DataEvent  BY <2>1 DEF DataEvent
  <2>2. CASE ParseStep
    <3>1. ~crashed  BY <2>2 DEF ParseStep, StreamInv, CrashInv
    <3>2. QED  BY <2>2, <3>1 DEF ParseStep
  <2>3. CASE Notify  BY <2>3 DEF Notify
  <2>4. CASE LinesAreDropped  BY <2>4 DEF LinesAreDropped
  <2>5. QED  BY <2>1, <2>2, <2>3, <2>4 DEF Tracker
<1>2. LinkInv'  BY <1>1 DEF EventInv, LinkInv, OneLink
<1>3. LineInv /\ (alive /\ ~crashed => MailInv(Stream))  BY DEF EventInv
<1>4. CASE ~alive \/ crashed'
  <2>1. ASSUME alive PROVE LineInv'
    <3>1. CASE DataEvent  BY <1>3, <3>1, LinesStayWhole
    <3>2. CASE ParseStep  BY <3>2 DEF ParseStep, LineInv
    <3>3. CASE Notify  BY <1>3, <2>1, <3>3, NotifyTakes
    <3>4. CASE LinesAreDropped  BY <1>3, <2>1, <3>4, DropTakes
    <3>5. QED  BY <3>1, <3>2, <3>3, <3>4 DEF Tracker
  <2>2. LineInv'  BY <1>1, <2>1 DEF LineInv
  <2>3. QED  BY <1>1, <1>2, <1>4, <2>2 DEF EventInv
<1>5. CASE alive /\ ~crashed'
  <2>1. alive /\ ~crashed /\ MailInv(Stream)  BY <1>1, <1>3, <1>5
  <2>2. \A i \in Ids, u \in Udids : names[i] = u => Owns(Stream, i, u)  BY DEF Owns
  <2>3. CASE DataEvent
    <3>1. LineInv'  BY <1>3, <2>3, LinesStayWhole
    <3>2. Stream \in Seq(Byte) /\ Stream' = Stream  BY <2>3, StreamKept
    <3>3. UNCHANGED <<known, names, told, missed>>  BY <2>3 DEF DataEvent
    <3> DEFINE s == Stream
    <3>4. Rests(s, s, 0) /\ \A k \in Nat, m \in Message : Mail(s, k, m) => k > 0
      <4>1. s \in Seq(Byte)  BY <3>2
      <4> HIDE DEF s
      <4>2. Len(s) \in Nat /\ \A k \in 1..Len(s) : 0 + k = k  BY <4>1, LenProperties
      <4>3. Rests(s, s, 0)  BY <4>2 DEF Rests
      <4>4. QED  BY <4>1, <4>3, MailPlaces
    <3>5. Reading(0)  BY <1>1, <2>2, <3>2, <3>3, <3>4 DEF Reading
    <3>6. MailInv(Stream)'  BY <2>1, <3>3, <3>4, <3>5, PassingKeeps
    <3>7. QED  BY <1>2, <3>1, <3>6 DEF EventInv
  <2>4. CASE ParseStep
    <3>1. LineInv'  BY <2>4 DEF ParseStep, LineInv
    <3>2. source = "usbmux" /\ UNCHANGED <<names, missed>>  BY <2>4 DEF ParseStep
    <3>3. /\ Stream \in Seq(Byte) /\ Stream' \in Seq(Byte)
          /\ \E n \in Nat :
                /\ Rests(Stream', Stream, n)
                /\ \/ TakesNone(Stream, n) /\ UNCHANGED <<known, told>>
                   \/ \E m \in Message : Takes(Stream, n, m) /\ OnMsgComplete(m)
      BY <1>5, <2>4, ParseTakes
    <3>4. PICK n \in Nat :
             /\ Rests(Stream', Stream, n)
             /\ \/ TakesNone(Stream, n) /\ UNCHANGED <<known, told>>
                \/ \E m \in Message : Takes(Stream, n, m) /\ OnMsgComplete(m)
      BY <3>3
    <3>5. Reading(n)  BY <1>1, <2>2, <3>2, <3>3, <3>4 DEF Reading
    <3>6. CASE TakesNone(Stream, n) /\ UNCHANGED <<known, told>>
      <4>1. \A k \in Nat, m \in Message : Mail(Stream, k, m) => k > n
        BY <3>6 DEF TakesNone
      <4>2. MailInv(Stream)'  BY <2>1, <3>2, <3>5, <3>6, <4>1, PassingKeeps
      <4>3. QED  BY <1>2, <3>1, <4>2 DEF EventInv
    <3>7. CASE \E m \in Message : Takes(Stream, n, m) /\ OnMsgComplete(m)
      <4>1. PICK m \in Message : Takes(Stream, n, m) /\ OnMsgComplete(m)  BY <3>7
      <4>2. Mail(Stream, n, m)  BY <4>1 DEF Takes
      <4>3. Attaches(m) /\ Reports(m)
        BY <1>1, <2>1, <3>2, <4>1, <4>2, SocketHandles
      <4>4. MailInv(Stream)'  BY <2>1, <3>2, <3>5, <4>1, <4>3, TakingKeeps
      <4>5. QED  BY <1>2, <3>1, <4>4 DEF EventInv
    <3>8. QED  BY <3>4, <3>6, <3>7
  <2>5. CASE Notify
    <3> DEFINE m == data[1].of
    <3>1. /\ Stream \in Seq(Byte) /\ Stream' \in Seq(Byte)
          /\ \E n \in Nat : Rests(Stream', Stream, n) /\ Takes(Stream, n, m)
          /\ m \in Message
          /\ LineInv'
      BY <1>3, <1>5, <2>5, NotifyTakes
    <3>2. PICK n \in Nat : Rests(Stream', Stream, n) /\ Takes(Stream, n, m)  BY <3>1
    <3>3. Mail(Stream, n, m)  BY <3>2 DEF Takes
    <3>4. /\ Attaches(m) /\ Reports(m)
          /\ \A i \in Ids, u \in Udids : names'[i] = u => Owns(Stream, i, u)
      BY <2>1, <2>5, <3>1, <3>3, LineHandles
    <3>5. missed' = missed  BY <2>5 DEF Notify
    <3> HIDE DEF m
    <3>6. Reading(n)  BY <1>1, <3>1, <3>2, <3>4, <3>5 DEF Reading
    <3>7. MailInv(Stream)'  BY <2>1, <3>1, <3>2, <3>4, <3>5, <3>6, TakingKeeps
    <3>8. QED  BY <1>2, <3>1, <3>7 DEF EventInv
  <2>6. CASE LinesAreDropped
    <3>1. /\ Stream \in Seq(Byte) /\ Stream' \in Seq(Byte)
          /\ \E n \in Nat :
                /\ Rests(Stream', Stream, n)
                /\ \A k \in Nat, m \in Message :
                      Mail(Stream, k, m) => k > n \/ m.udid \in missed'
          /\ LineInv'
      BY <1>3, <1>5, <2>6, DropTakes
    <3>2. PICK n \in Nat :
             /\ Rests(Stream', Stream, n)
             /\ \A k \in Nat, m \in Message :
                   Mail(Stream, k, m) => k > n \/ m.udid \in missed'
      BY <3>1
    <3>3. UNCHANGED <<known, names, told>> /\ missed \subseteq missed'
      BY <2>6 DEF LinesAreDropped
    <3>4. Reading(n)  BY <1>1, <2>2, <3>1, <3>2, <3>3 DEF Reading
    <3>5. MailInv(Stream)'  BY <2>1, <3>2, <3>3, <3>4, PassingKeeps
    <3>6. QED  BY <1>2, <3>1, <3>5 DEF EventInv
  <2>7. QED  BY <2>3, <2>4, <2>5, <2>6 DEF Tracker
<1>6. QED  BY <1>4, <1>5

-----------------------------------------------------------------------------
(* Sending *)

\* A step of usbmuxd that announces what becomes of the connection l.
Announcing(type, l) ==
    /\ Send(About(type, l))
    /\ links \ {l} \subseteq links' /\ links' \subseteq links \cup {l}
    /\ l \in links' <=> type # "Detached"
    /\ type = "Paired" => l.udid \in Pairing
    /\ type # "Attached" => l \in links
    /\ \/ l \in links /\ lastId' = lastId
       \/ l.id = lastId + 1 /\ lastId' = lastId + 1

\* Such a step keeps the account, if every device has one connection.
LEMMA AnnouncingKeeps ==
    ASSUME TypeInv, OneLink', MailInv(Stream), OneLink,
           NEW l \in Links, NEW type \in {"Attached", "Detached", "Paired"},
           Announcing(type, l)
    PROVE  MailInv(Stream)'
<1> DEFINE s == Stream
           r == Stream'
           m == About(type, l)
<1>1. /\ m \in Message /\ m.type = type /\ m.id = l.id /\ m.udid = l.udid
      /\ l.id \in Ids /\ l.udid \in Udids
  BY AboutWhich
<1>2. /\ Send(m) /\ links \ {l} \subseteq links' /\ links' \subseteq links \cup {l}
      /\ l \in links' <=> type # "Detached"
      /\ type = "Paired" => l.udid \in Pairing
      /\ type # "Attached" => l \in links
      /\ (l \in links /\ lastId' = lastId) \/ (l.id = lastId + 1 /\ lastId' = lastId + 1)
  BY DEF Announcing
<1>3. UNCHANGED <<source, known, names, told, missed>>  BY <1>2 DEF Send
<1>4. s \in Seq(Byte) /\ r \in Seq(Byte) /\ Appends(r, s, m)
  <2>1. s \in Seq(Byte) /\ r = s \o Bytes(m)  BY <1>1, <1>2, StreamSent
  <2>2. QED  BY <1>1, <2>1, MailSent
<1>5. /\ AllProper(s) /\ OneOwner(s) /\ GivenOut(s)
      /\ Accounted(s) /\ Known(s) /\ Shown(s)
  BY DEF MailInv
<1>6. links \subseteq Links /\ lastId \in Nat
  BY TrackerAssumption DEF TypeInv, TypeOK, Links
<1>7. \A k \in Links, other \in {"Attached", "Detached", "Paired"} :
         m = About(other, k) => type = other /\ l = k
  BY AboutWhich
<1> HIDE DEF s, r
<1>8. /\ Len(r) \in Nat /\ Mail(r, Len(r), m)
      /\ \A k \in Nat, o \in Message : Mail(s, k, o) => Mail(r, k, o) /\ k < Len(r)
      /\ \A k \in Nat, o \in Message :
            Mail(r, k, o) => Mail(s, k, o) \/ (k = Len(r) /\ o = m)
  BY <1>4 DEF Appends
<1>9. AllProper(Stream)'
  <2>1. Proper(m)'  BY <1>2 DEF Proper
  <2>2. ASSUME NEW k \in Nat, NEW o \in Message, Mail(r, k, o) PROVE Proper(o)'
    <3>1. CASE Mail(s, k, o)
      <4>1. Proper(o)  BY <1>5, <3>1 DEF AllProper
      <4>2. QED  BY <1>3, <4>1 DEF Proper
    <3>2. QED  BY <1>8, <2>1, <2>2, <3>1
  <2>3. QED  BY <2>2 DEF AllProper, r
<1>10. ASSUME NEW i \in Ids, NEW u \in Udids, Owns(Stream, i, u)'
       PROVE  Owns(s, i, u) \/ (i = l.id /\ u = l.udid)
  <2>1. CASE [id |-> i, udid |-> u] \in links'
    <3>1. [id |-> i, udid |-> u] \in links \/ [id |-> i, udid |-> u] = l  BY <1>2, <2>1
    <3>2. [id |-> i, udid |-> u] = l => i = l.id /\ u = l.udid  OBVIOUS
    <3>3. QED  BY <3>1, <3>2 DEF Owns
  <2>2. CASE names'[i] = u  BY <1>3, <2>2 DEF Owns
  <2>3. CASE \E k \in Nat, o \in Message : Mail(r, k, o) /\ o.id = i /\ o.udid = u
    <3>1. PICK k \in Nat, o \in Message : Mail(r, k, o) /\ o.id = i /\ o.udid = u  BY <2>3
    <3>2. Mail(s, k, o) \/ o = m  BY <1>8, <3>1
    <3>3. QED  BY <1>1, <3>1, <3>2 DEF Owns
  <2>4. QED  BY <1>10, <2>1, <2>2, <2>3 DEF Owns, r
<1>11. OneOwner(Stream)' /\ GivenOut(Stream)'
  <2>1. CASE l \in links /\ lastId' = lastId
    <3>1. l = [id |-> l.id, udid |-> l.udid]  BY DEF Links
    <3>2. Owns(s, l.id, l.udid)  BY <2>1, <3>1 DEF Owns
    <3>3. \A i \in Ids, u \in Udids : Owns(Stream, i, u)' => Owns(s, i, u)
      BY <1>10, <3>2
    <3>4. OneOwner(Stream)'  BY <1>5, <3>3 DEF OneOwner
    <3>5. GivenOut(Stream)'  BY <1>5, <2>1, <3>3 DEF GivenOut
    <3>6. QED  BY <3>4, <3>5
  <2>2. CASE l.id = lastId + 1 /\ lastId' = lastId + 1
    <3>1. ASSUME NEW i \in Ids, NEW u \in Udids, Owns(s, i, u)
          PROVE  i <= lastId /\ i # l.id /\ i <= lastId'
      <4>1. i <= lastId  BY <1>5, <3>1 DEF GivenOut
      <4>2. i \in Nat  BY TrackerAssumption
      <4>3. QED  BY <1>6, <2>2, <4>1, <4>2
    <3>2. ASSUME NEW i \in Ids, NEW u \in Udids, NEW v \in Udids,
                 Owns(Stream, i, u)', Owns(Stream, i, v)'
          PROVE  u = v
      <4>1. CASE i = l.id
        <5>1. u = l.udid /\ v = l.udid  BY <1>10, <3>1, <3>2, <4>1
        <5>2. QED  BY <5>1
      <4>2. CASE i # l.id
        <5>1. Owns(s, i, u) /\ Owns(s, i, v)  BY <1>10, <3>2, <4>2
        <5>2. QED  BY <1>5, <5>1 DEF OneOwner
      <4>3. QED  BY <4>1, <4>2
    <3>3. ASSUME NEW i \in Ids, NEW u \in Udids, Owns(Stream, i, u)' PROVE i <= lastId'
      <4>1. CASE Owns(s, i, u)  BY <3>1, <4>1
      <4>2. CASE i = l.id  BY <1>6, <2>2, <4>2
      <4>3. QED  BY <1>10, <3>3, <4>1, <4>2
    <3>4. QED  BY <3>2, <3>3 DEF OneOwner, GivenOut
  <2>3. QED  BY <1>2, <2>1, <2>2
\* Who is backed stays so: the end of a connection is announced.
<1>12. ASSUME NEW a \in Links, NEW k \in Nat, k < Len(r), Backed(s, k, a)
       PROVE  Backed(Stream, k, a)'
  <2>1. LeftAfter(s, k, a) => LeftAfter(r, k, a)  BY <1>1, <1>4, LeftSent
  <2>2. m = About("Detached", a) => LeftAfter(r, k, a)  BY <1>1, <1>4, <1>12, LeftSent
  <2>3. a \in links /\ a \notin links' => m = About("Detached", a)  BY <1>2
  <2>4. QED  BY <1>12, <2>1, <2>2, <2>3 DEF Backed, r
<1>13. Len(r) > 0  BY <1>4, <1>8, MailPlaces
<1>14. Accounted(Stream)'
  <2>1. ASSUME NEW k \in Nat, NEW a \in Links, a.udid \notin missed',
               Mail(r, k, About("Attached", a))
        PROVE  Backed(Stream, k, a)'
    <3>1. About("Attached", a) \in Message  BY AboutWhich
    <3>2. CASE Mail(s, k, About("Attached", a))
      <4>1. Backed(s, k, a)  BY <1>3, <1>5, <2>1, <3>2 DEF Accounted
      <4>2. k < Len(r)  BY <1>8, <3>1, <3>2
      <4>3. QED  BY <1>12, <4>1, <4>2
    <3>3. CASE About("Attached", a) = m
      <4>1. type = "Attached" /\ l = a  BY <1>7, <3>3
      <4>2. QED  BY <1>2, <4>1 DEF Backed
    <3>4. QED  BY <1>8, <2>1, <3>1, <3>2, <3>3
  <2>2. QED  BY <2>1 DEF Accounted, r
<1>15. Known(Stream)'
  <2>1. ASSUME NEW u \in Udids \ missed', told'[u] = "attached"
        PROVE  \E a \in Links : a.udid = u /\ Knows(a)' /\ Backed(Stream, 0, a)'
    <3>1. PICK a \in Links : a.udid = u /\ Knows(a) /\ Backed(s, 0, a)
      BY <1>3, <1>5, <2>1 DEF Known
    <3>2. Knows(a)'  BY <1>3, <3>1 DEF Knows
    <3>3. Backed(Stream, 0, a)'  BY <1>12, <1>13, <3>1
    <3>4. QED  BY <3>1, <3>2, <3>3
  <2>2. QED  BY <2>1 DEF Known
<1>16. Shown(Stream)'
  <2>1. ASSUME NEW a \in links', Plain(a)'
        PROVE  Announced(Stream, a)' \/ (Tells(a)' /\ Quiet(Stream, 0, a.udid)')
    <3>1. a \in Links /\ Plain(a) /\ a.udid \in Udids
      <4>1. a \in Links  BY <1>2, <1>6, <2>1
      <4>2. Plain(a)  BY <1>3, <2>1 DEF Plain
      <4>3. QED  BY <4>1, <4>2, AboutWhich
    <3>2. About("Attached", a) \in Message  BY <3>1, AboutWhich
    <3>3. CASE a = l /\ type = "Attached"
      <4>1. Quiet(r, Len(r), a.udid)
        <5>1. ASSUME NEW j \in Nat, NEW o \in Message, j > Len(r), Mail(r, j, o) PROVE FALSE
          <6>1. j <= Len(r)  BY <1>4, <5>1, MailPlaces
          <6>2. QED  BY <1>8, <5>1, <6>1
        <5>2. QED  BY <5>1 DEF Quiet
      <4>2. QED  BY <1>8, <3>3, <4>1 DEF Announced, r
    <3>4. CASE ~(a = l /\ type = "Attached")
      <4>1. a \in links
        <5>1. CASE a # l  BY <1>2, <2>1, <5>1
        <5>2. CASE a = l  BY <1>2, <3>4, <5>2
        <5>3. QED  BY <5>1, <5>2
      <4>2. m.udid = a.udid => m.type = "Paired"
        <5>1. SUFFICES ASSUME l.udid = a.udid, type # "Paired" PROVE FALSE
          BY <1>1
        <5>2. a.udid \notin TwoWays  BY <3>1 DEF Plain
        <5>3. CASE type = "Attached"
          <6>1. l \in links' /\ a = l  BY <1>2, <2>1, <5>1, <5>2, <5>3 DEF OneLink
          <6>2. QED  BY <3>4, <5>3, <6>1
        <5>4. CASE type = "Detached"
          <6>1. l \in links /\ l \notin links'  BY <1>2, <5>4
          <6>2. a = l  BY <4>1, <5>1, <5>2, <6>1 DEF OneLink
          <6>3. QED  BY <2>1, <6>1, <6>2
        <5>5. QED  BY <5>1, <5>3, <5>4
      <4>3. CASE Announced(s, a)
        <5>1. PICK k \in Nat : Mail(s, k, About("Attached", a)) /\ Quiet(s, k, a.udid)
          BY <4>3 DEF Announced
        <5>2. Mail(r, k, About("Attached", a))  BY <1>8, <3>2, <5>1
        <5>3. Quiet(r, k, a.udid)  BY <1>1, <1>4, <3>1, <4>2, <5>1, LeftSent
        <5>4. QED  BY <5>2, <5>3 DEF Announced, r
      <4>4. CASE Tells(a) /\ Quiet(s, 0, a.udid)
        <5>1. Tells(a)'  BY <1>3, <4>4 DEF Tells
        <5>2. Quiet(r, 0, a.udid)  BY <1>1, <1>4, <3>1, <4>2, <4>4, LeftSent
        <5>3. QED  BY <5>1, <5>2 DEF r
      <4>5. QED  BY <1>5, <3>1, <4>1, <4>3, <4>4 DEF Shown
    <3>5. QED  BY <3>3, <3>4
  <2>2. QED  BY <2>1 DEF Shown
<1>17. QED  BY <1>9, <1>11, <1>14, <1>15, <1>16 DEF MailInv

\* An announcement keeps what else the invariant says.
LEMMA AnnouncingFollows ==
    ASSUME TypeInv, EventInv, NEW l \in Links,
           NEW type \in {"Attached", "Detached", "Paired"},
           Announcing(type, l), OneLink'
    PROVE  EventInv'
<1>1. alive /\ ~crashed /\ Send(About(type, l))  BY DEF Announcing, Send
<1>2. About(type, l) \in Message /\ Sound(About(type, l))  BY AboutWhich
<1>3. LineInv'  BY <1>1, <1>2, LinesStayWhole DEF EventInv
<1>4. MailInv(Stream)'  BY <1>1, AnnouncingKeeps DEF EventInv, LinkInv
<1>5. IsFiniteSet(links')
  <2>1. IsFiniteSet(links)  BY DEF EventInv, LinkInv
  <2>2. IsFiniteSet(links \cup {l})  BY <2>1, FS_AddElement
  <2>3. links' \in SUBSET (links \cup {l})  BY DEF Announcing
  <2>4. QED  BY <2>2, <2>3, FS_Subset
<1>6. QED  BY <1>3, <1>4, <1>5 DEF EventInv, LinkInv

\* A device has one connection, unless it may have two.
LEMMA UsbmuxdKeeps ==
    ASSUME TypeInv, EventInv, Usbmuxd
    PROVE  EventInv'
<1>1. links \subseteq Links /\ lastId \in Nat /\ IsFiniteSet(links) /\ OneLink
  BY TrackerAssumption DEF TypeInv, TypeOK, Links, EventInv, LinkInv
<1>2. ASSUME NEW u \in Udids, Connect(u) PROVE EventInv'
  <2> DEFINE l == [id |-> lastId + 1, udid |-> u]
             others == {k \in links : k.udid = u}
  <2>1. /\ l.id \in Ids /\ links' = links \cup {l} /\ lastId' = lastId + 1
        /\ Send(About("Attached", l))
        /\ Cardinality(others) < (IF u \in TwoWays THEN 2 ELSE 1)
    BY <1>2 DEF Connect
  <2>2. l \in Links /\ l.udid = u /\ l.id = lastId + 1  BY <2>1 DEF Links
  <2>3. u \notin TwoWays => others = {}
    <3>1. SUFFICES ASSUME u \notin TwoWays PROVE others = {}
      OBVIOUS
    <3>2. others \in SUBSET links  OBVIOUS
    <3>3. Cardinality(others) < 1  BY <2>1, <3>1
    <3> HIDE DEF others
    <3>4. IsFiniteSet(others)  BY <1>1, <3>2, FS_Subset
    <3>5. Cardinality(others) \in Nat  BY <3>4, FS_CardinalityType
    <3>6. Cardinality(others) = 0  BY <3>3, <3>5
    <3>7. QED  BY <3>4, <3>6, FS_EmptySet
  <2> HIDE DEF l
  <2>4. OneLink'
    <3>1. ASSUME NEW a \in links', NEW b \in links', a.udid = b.udid, b.udid \notin TwoWays
          PROVE  a = b
      <4>1. CASE a \in links /\ b \in links  BY <1>1, <3>1, <4>1 DEF OneLink
      <4>2. CASE ~(a \in links /\ b \in links)
        <5>1. a = l \/ b = l  BY <2>1, <3>1, <4>2
        <5>2. a.udid = u /\ others = {}  BY <2>2, <2>3, <3>1, <5>1
        <5>3. a \notin links /\ b \notin links  BY <3>1, <5>2
        <5>4. QED  BY <2>1, <3>1, <5>3
      <4>3. QED  BY <4>1, <4>2
    <3>2. QED  BY <3>1 DEF OneLink
  <2>5. Announcing("Attached", l)  BY <2>1, <2>2 DEF Announcing
  <2>6. QED  BY <2>2, <2>4, <2>5, AnnouncingFollows
<1>3. ASSUME NEW l \in links, Disconnect(l) \/ Pair(l) PROVE EventInv'
  <2>1. l \in Links  BY <1>1
  <2>2. CASE Disconnect(l)
    <3>1. Announcing("Detached", l) /\ links' \subseteq links
      BY <2>2 DEF Disconnect, Announcing
    <3>2. OneLink'  BY <1>1, <3>1 DEF OneLink
    <3>3. QED  BY <2>1, <3>1, <3>2, AnnouncingFollows
  <2>3. CASE Pair(l)
    <3>1. Announcing("Paired", l) /\ links' = links
      BY <2>3 DEF Pair, Announcing
    <3>2. OneLink'  BY <1>1, <3>1 DEF OneLink
    <3>3. QED  BY <2>1, <3>1, <3>2, AnnouncingFollows
  <2>4. QED  BY <1>3, <2>2, <2>3
<1>4. CASE SourceEnds
  <2>1. ~alive' /\ links' = links  BY <1>4 DEF SourceEnds
  <2>2. QED  BY <1>1, <2>1 DEF EventInv, LinkInv, LineInv, OneLink
<1>5. QED  BY <1>2, <1>3, <1>4 DEF Usbmuxd

-----------------------------------------------------------------------------
(* What the account says *)

\* Nothing is connected and nothing is pending but the answer to Listen.
LEMMA InitAccounts == Init => EventInv
<1> SUFFICES ASSUME Init PROVE EventInv
  OBVIOUS
<1>1. /\ links = {} /\ data = <<>> /\ wire \in FirstAnswers
      /\ names = [i \in Ids |-> None] /\ told = [u \in Udids |-> "nothing"]
      /\ None \notin Udids
  BY TrackerAssumption DEF Init
<1>2. LinkInv  BY <1>1, FS_EmptySet DEF LinkInv, OneLink
<1>3. <<>> \in Seq(Byte) /\ Len(<<>>) = 0  BY EmptySeq
<1>4. \/ wire = <<>>
      \/ source = "usbmux" /\ \E type \in {"Result", "Refusal"} : wire = Bytes(Reply(type))
  BY <1>1 DEF FirstAnswers, Init
<1>5. source = "go-ios" => wire = <<>>  BY <1>1 DEF FirstAnswers
<1>6. LineInv
  <2>1. SUFFICES ASSUME source = "go-ios" PROVE LineInv
    BY DEF LineInv
  <2>2. Stream = <<>>  BY <1>1, <1>3, <1>5, <2>1, ConcatEmptySeq DEF Stream
  <2>3. Framed(<<>>) /\ Genuine(<<>>) /\ EndsWhole(<<>>) /\ Begins(<<>>)
    BY <1>3 DEF Framed, Genuine, EndsWhole, Begins
  <2>4. QED  BY <1>1, <2>2, <2>3 DEF LineInv
<1>7. \A k \in Nat, m \in Message :
         Mail(Stream, k, m) => /\ source = "usbmux"
                               /\ m \in {Reply("Result"), Reply("Refusal")}
  <2>1. ASSUME NEW k, NEW m, Mail(<<>>, k, m) PROVE FALSE
    BY <1>3, <2>1 DEF Mail
  <2>2. CASE wire = <<>>
    <3>1. Stream = <<>>  BY <1>1, <1>3, <2>2, ConcatEmptySeq DEF Stream
    <3>2. QED  BY <2>1, <3>1
  <2>3. CASE source = "usbmux" /\ \E type \in {"Result", "Refusal"} : wire = Bytes(Reply(type))
    <3>1. PICK type \in {"Result", "Refusal"} : wire = Bytes(Reply(type))  BY <2>3
    <3>2. Reply(type) \in Message  BY DEF Reply, Message
    <3>3. Stream = <<>> \o Bytes(Reply(type))  BY <1>1, <3>1 DEF Stream
    <3>4. Appends(Stream, <<>>, Reply(type))  BY <1>3, <3>2, <3>3, MailSent
    <3>5. ASSUME NEW k \in Nat, NEW m \in Message, Mail(Stream, k, m) PROVE m = Reply(type)
      BY <2>1, <3>4, <3>5 DEF Appends
    <3>6. QED  BY <2>3, <3>5
  <2>4. QED  BY <1>4, <2>2, <2>3
<1>8. \A k \in Nat, m \in Message : Mail(Stream, k, m) => m.udid = None /\ m.type # "Attached"
  BY <1>7 DEF Reply
<1>9. AllProper(Stream)  BY <1>7 DEF AllProper, Proper
<1>10. \A i \in Ids, u \in Udids : ~Owns(Stream, i, u)
  BY <1>1, <1>8 DEF Owns
<1>11. OneOwner(Stream) /\ GivenOut(Stream)  BY <1>10 DEF OneOwner, GivenOut
<1>12. Accounted(Stream)
  <2>1. ASSUME NEW k \in Nat, NEW l \in Links, Mail(Stream, k, About("Attached", l)) PROVE FALSE
    <3>1. About("Attached", l) \in Message /\ About("Attached", l).type = "Attached"
      BY AboutWhich
    <3>2. QED  BY <1>8, <2>1, <3>1
  <2>2. QED  BY <2>1 DEF Accounted
<1>13. Known(Stream) /\ Shown(Stream)  BY <1>1 DEF Known, Shown
<1>14. QED  BY <1>2, <1>6, <1>9, <1>11, <1>12, <1>13 DEF EventInv, MailInv

\* The invariant is kept, as long as the parser is in step.
LEMMA EventsFollow ==
    ASSUME "split" \notin Environment
    PROVE  Spec => [](TypeInv /\ EventInv)
<1> DEFINE Inv == TypeInv /\ StreamInv /\ EventInv
<1>1. Init => Inv  BY InitTyped, InitFollows, InitAccounts
<1>2. Inv /\ [Next]_vars => Inv'
  <2> SUFFICES ASSUME Inv, [Next]_vars PROVE Inv'
    OBVIOUS
  <2>1. CASE UNCHANGED vars
    <3>1. TypeInv' /\ StreamInv'
      BY <2>1 DEF vars, TypeInv, TypeOK, Lines, StreamInv, SocketInv, CrashInv, Stream
    <3>2. LinkInv' /\ LineInv'
      BY <2>1 DEF vars, EventInv, LinkInv, OneLink, LineInv, Stream
    <3>3. ASSUME MailInv(Stream) PROVE MailInv(Stream)'
      <4>1. Stream' = Stream  BY <2>1 DEF vars, Stream
      <4>2. QED
        BY <2>1, <3>3, <4>1 DEF vars, MailInv, AllProper, Proper, OneOwner, GivenOut, Owns,
           Accounted, Backed, Known, Knows, Shown, Plain, Announced, Tells
    <3>4. QED  BY <2>1, <3>1, <3>2, <3>3 DEF vars, EventInv
  <2>2. CASE Usbmuxd  BY <2>2, UsbmuxdTyped, UsbmuxdFollows, UsbmuxdKeeps
  <2>3. CASE Tracker
    <3>1. StreamInv'
      BY <2>3, DataEventFollows, ParseFollows, LinesFollow DEF Tracker
    <3>2. QED  BY <2>3, <3>1, TrackerTyped, TrackerKeeps
  <2>4. QED  BY <2>1, <2>2, <2>3 DEF Next
<1>3. Inv => TypeInv /\ EventInv  OBVIOUS
<1>4. QED  BY <1>1, <1>2, <1>3, PTL DEF Spec

\* When all is read, the tables alone are the account.
LEMMA AllRead ==
    ASSUME TypeInv, EventInv, UpToDate
    PROVE  /\ \A u \in Udids \ missed :
                 told[u] = "attached" => \E l \in links : l.udid = u
           /\ \A l \in links : Plain(l) => told[l.udid] = "attached"
<1>1. data = <<>> /\ wire = <<>> /\ alive /\ ~crashed  BY DEF UpToDate
<1>2. <<>> \in Seq(Byte) /\ Len(<<>>) = 0  BY EmptySeq
<1>3. Stream = <<>>  BY <1>1, <1>2, ConcatEmptySeq DEF Stream
<1>4. MailInv(<<>>)  BY <1>1, <1>3 DEF EventInv
<1>5. \A k, m : ~Mail(<<>>, k, m)  BY <1>2 DEF Mail
<1>6. Known(<<>>) /\ Shown(<<>>)  BY <1>4 DEF MailInv
<1>7. \A l : ~LeftAfter(<<>>, 0, l) /\ ~Announced(<<>>, l)
  BY <1>5 DEF LeftAfter, Announced
<1>8. ASSUME NEW u \in Udids \ missed, told[u] = "attached"
      PROVE  \E l \in links : l.udid = u
  BY <1>6, <1>7, <1>8 DEF Known, Backed
<1>9. ASSUME NEW l \in links, Plain(l) PROVE told[l.udid] = "attached"
  BY <1>6, <1>7, <1>9 DEF Shown, Tells
<1>10. QED  BY <1>8, <1>9

(***************************************************************************)
(* A device that has gone is not left attached, for any number of devices,  *)
(* of connections and of messages under way, whichever the source and       *)
(* however its data is cut into events that leave headers whole.            *)
(***************************************************************************)
THEOREM DeparturesAreReported ==
    ASSUME "split" \notin Environment
    PROVE  Spec => []GoneIsReported
<1>1. TypeInv /\ EventInv => GoneIsReported
  BY AllRead DEF GoneIsReported, Linked
<1>2. QED  BY <1>1, EventsFollow, PTL

(***************************************************************************)
(* A device that is connected in one way is reported as attached once what  *)
(* was sent is read: no message about another device, and none about an     *)
(* earlier connection of its own, takes the report back.                    *)
(***************************************************************************)
THEOREM ArrivalsAreReported ==
    ASSUME "split" \notin Environment
    PROVE  Spec => []PresentIsReported
<1>1. ASSUME TypeInv, EventInv PROVE PresentIsReported
  <2>1. ASSUME UpToDate, NEW u \in Udids \ (TwoWays \cup missed), Linked(u),
               source = "usbmux" \/ u \notin Pairing
        PROVE  told[u] = "attached"
    <3>1. PICK l \in links : l.udid = u  BY <2>1 DEF Linked
    <3>2. Plain(l)  BY <2>1, <3>1 DEF Plain
    <3>3. QED  BY <1>1, <2>1, <3>1, <3>2, AllRead
  <2>2. QED  BY <2>1 DEF PresentIsReported
<1>2. TypeInv /\ EventInv => PresentIsReported  BY <1>1
<1>3. QED  BY <1>2, EventsFollow, PTL

=============================================================================
