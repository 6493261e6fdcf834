------------------------- MODULE RtspFramingProofs -------------------------
(***************************************************************************)
(* What RtspFraming does, proved for any number of connections, messages   *)
(* of any kind and length, and segments of any size.                       *)
(*                                                                         *)
(* First what each message looks like in the stream, byte by byte; then    *)
(* what one call of rtsp_get_next_message() makes of a buffer that starts  *)
(* with a message or with a part of one (MessageParsed); then the          *)
(* invariant: for each connection there is an n such that the bytes gone   *)
(* from the buffer are those of its first n messages, and these have been  *)
(* handled.                                                                *)
(***************************************************************************)
EXTENDS RtspFraming, SequenceTheorems, TLAPS

\* No connection sends in the middle of a message of another, or closes in the
\* middle of its own.
Apart == ~Interrupt

\* The header of a message that cannot be read is all of it: only a header is
\* skipped.
Skippable == \A m \in Shapes : m.type = "unreadable" => Len(m.data) = 0

\* Channel and length of a packet do not look like an empty line.  Of three
\* bytes, rtsp_parse_interleaved() cannot tell that they are one.
Recognised ==
    \A m \in Shapes : m.type = "interleaved" =>
        ~(m.channel \in {CR, LF} /\ (Len(m.data) + 1) \div 256 = m.channel)

\* Bytes that message m takes in a stream.
Width(m) == Len(m.data) + (IF m.type = "interleaved" THEN 5 ELSE 7)

\* The first byte of a header.
Line(type) ==
    IF type = "request" THEN RequestLine
    ELSE IF type = "response" THEN StatusLine ELSE OtherLine

\* A number is written as a digit.
LEMMA DigitIsByte ==
    ASSUME NEW n \in Nat
    PROVE  n % 10 \in 0..9 /\ Digit(n) \in 48..57 /\ Digit(n) - Digit0 = n % 10
BY SMTT(10) DEF Digit, Digit0

\* The parts of a concatenation.
LEMMA ConcatParts ==
    ASSUME NEW S, NEW h \in Seq(S), NEW d \in Seq(S)
    PROVE  /\ h \o d \in Seq(S) /\ Len(h \o d) = Len(h) + Len(d)
           /\ \A i \in 1..Len(h) : (h \o d)[i] = h[i]
           /\ \A i \in 1..Len(d) : (h \o d)[Len(h) + i] = d[i]
<1>1. Len(d) \in Nat /\ Len(h) \in Nat
  BY LenProperties
<1>2. h \o d \in Seq(S) /\ Len(h \o d) = Len(h) + Len(d)
  BY ConcatProperties
<1>3. \A i \in 1..Len(h) : (h \o d)[i] = h[i]
  OBVIOUS
<1>4. \A i \in 1..Len(d) : (h \o d)[Len(h) + i] = d[i]
  BY <1>1
<1> QED BY <1>2, <1>3, <1>4

\* The types of a message.
LEMMA ShapeTypes ==
    ASSUME NEW m \in Shapes
    PROVE  /\ m.type \in {"request", "response", "unreadable", "interleaved"}
           /\ m.channel \in Byte /\ m.data \in Seq(Byte)
<1>1. m \in Shape
  BY FramingAssumption
<1> QED BY <1>1 DEF Shape, TextTypes

\* A body fits one digit, a payload two bytes.
LEMMA ShapeLen ==
    ASSUME NEW m \in Shapes
    PROVE  /\ Len(m.data) \in Nat
           /\ m.type = "interleaved" => Len(m.data) + 1 <= UINT16_MAX - 4
           /\ m.type # "interleaved" => Len(m.data) < 10
<1>1. m.data \in Seq(Byte)
  BY ShapeTypes
<1>2. Len(m.data) \in Nat
  BY <1>1, LenProperties
<1>3. IF m.type = "interleaved" THEN Len(m.data) + 1 <= UINT16_MAX - 4
      ELSE Len(m.data) < 10
  BY FramingAssumption, SMTT(10)
<1> QED BY <1>2, <1>3, SMTT(10)

\* A text message is its header and its body.
LEMMA WriteIsText ==
    ASSUME NEW m \in Shapes, m.type # "interleaved", NEW n
    PROVE  Write(m, n) = Header(Line(m.type), n, Len(m.data)) \o m.data
<1>1. m.type \in {"request", "response", "unreadable"}
  BY ShapeTypes
<1>2. Write(m, n) = WriteText(m, n)
  BY DEF Write
<1>3. CASE m.type = "request"
  BY <1>2, <1>3, Zenon DEF WriteText, Line, rtsp_request_header_write
<1>4. CASE m.type = "response"
  BY <1>2, <1>4, Zenon DEF WriteText, Line, rtsp_response_header_write
<1>5. CASE m.type = "unreadable"
  BY <1>2, <1>5, Zenon DEF WriteText, Line
<1> QED BY <1>1, <1>3, <1>4, <1>5

\* Bytes w are a header and the body d.
IsText(w, line, n, d) ==
    /\ w \in Seq(Byte) /\ Len(w) = 7 + Len(d)
    /\ w[1] = line /\ w[2] = Digit(n) /\ w[3] = Digit0 + Len(d)
    /\ w[4] = CR /\ w[5] = LF /\ w[6] = CR /\ w[7] = LF
    /\ \A i \in 1..Len(d) : w[7 + i] = d[i]

\* Bytes w are a packet with number n and payload d.
IsPacket(w, channel, n, d) ==
    /\ w \in Seq(Byte) /\ Len(w) = 5 + Len(d)
    /\ w[1] = Dollar /\ w[2] = channel
    /\ w[3] = (Len(d) + 1) \div 256 /\ w[4] = (Len(d) + 1) % 256
    /\ w[5] = Digit(n)
    /\ \A i \in 1..Len(d) : w[5 + i] = d[i]

\* Bytes h are a header.
IsHeader(h, line, n, len) ==
    /\ h \in Seq(Byte) /\ Len(h) = 7
    /\ h[1] = line /\ h[2] = Digit(n) /\ h[3] = Digit0 + len
    /\ h[4] = CR /\ h[5] = LF /\ h[6] = CR /\ h[7] = LF

\* What a header looks like.
LEMMA HeaderBytes ==
    ASSUME NEW a \in Byte, NEW n \in Nat, NEW len \in Nat, len < 10
    PROVE  IsHeader(Header(a, n, len), a, n, len)
<1>1. Digit(n) \in Byte /\ Digit(len) \in Byte
  BY DigitIsByte, SMTT(10) DEF Byte
<1>2. Digit(len) = Digit0 + len
  BY SMTT(10) DEF Digit, Digit0
<1>3. CR \in Byte /\ LF \in Byte
  BY SMTT(10) DEF CR, LF, Byte
<1> QED BY <1>1, <1>2, <1>3, SMTT(10) DEF Header, IsHeader

\* What a header and a body look like, byte by byte.
LEMMA HeaderAndBody ==
    ASSUME NEW a \in Byte, NEW n \in Nat, NEW d \in Seq(Byte),
           NEW h, IsHeader(h, a, n, Len(d))
    PROVE  IsText(h \o d, a, n, d)
<1>1. /\ h \in Seq(Byte) /\ Len(h) = 7
      /\ h[1] = a /\ h[2] = Digit(n) /\ h[3] = Digit0 + Len(d)
      /\ h[4] = CR /\ h[5] = LF /\ h[6] = CR /\ h[7] = LF
  BY DEF IsHeader
<1>2. /\ h \o d \in Seq(Byte) /\ Len(h \o d) = Len(h) + Len(d)
      /\ \A i \in 1..Len(h) : (h \o d)[i] = h[i]
      /\ \A i \in 1..Len(d) : (h \o d)[Len(h) + i] = d[i]
  <2>1. h \in Seq(Byte)
    BY <1>1
  <2> QED BY <2>1, ConcatParts, SMTT(10)
<1> QED BY <1>1, <1>2, SMTT(10) DEF IsText

\* What a text message looks like.
LEMMA TextBytes ==
    ASSUME NEW m \in Shapes, m.type # "interleaved", NEW n \in Nat
    PROVE  IsText(Write(m, n), Line(m.type), n, m.data)
<1>1. Len(m.data) < 10 /\ m.data \in Seq(Byte) /\ Len(m.data) \in Nat
  BY ShapeLen, ShapeTypes, SMTT(10)
<1>2. Line(m.type) \in Byte
  BY SMTT(10) DEF Line, Byte, RequestLine, StatusLine, OtherLine
<1>3. IsHeader(Header(Line(m.type), n, Len(m.data)), Line(m.type), n, Len(m.data))
  BY <1>1, <1>2, HeaderBytes, Zenon
<1>4. IsText(Header(Line(m.type), n, Len(m.data)) \o m.data, Line(m.type), n, m.data)
  BY <1>1, <1>2, <1>3, HeaderAndBody, Zenon
<1> QED BY <1>4, WriteIsText, Zenon

\* A payload and its number.
IsPayload(p, n, d) ==
    /\ p \in Seq(Byte) /\ Len(p) = 1 + Len(d) /\ p[1] = Digit(n)
    /\ \A i \in 1..Len(d) : p[1 + i] = d[i]

\* The bytes of a payload and its number.
LEMMA PayloadBytes ==
    ASSUME NEW n \in Nat, NEW d \in Seq(Byte), NEW t \in Seq(Byte),
           Len(t) = 1, t[1] = Digit(n)
    PROVE  IsPayload(t \o d, n, d)
<1>1. /\ t \o d \in Seq(Byte) /\ Len(t \o d) = Len(t) + Len(d)
      /\ \A i \in 1..Len(t) : (t \o d)[i] = t[i]
      /\ \A i \in 1..Len(d) : (t \o d)[Len(t) + i] = d[i]
  BY ConcatParts, SMTT(10)
<1> QED BY <1>1, SMTT(10) DEF IsPayload

\* The four bytes in front of a payload of len bytes.
IsPrefix4(h, a, len) ==
    /\ h \in Seq(Byte) /\ Len(h) = 4 /\ h[1] = Dollar /\ h[2] = a
    /\ h[3] = len \div 256 /\ h[4] = len % 256

\* A channel and a length of at most two bytes.
LEMMA Prefix4Bytes ==
    ASSUME NEW a \in Byte, NEW len \in Nat, len <= UINT16_MAX - 4
    PROVE  IsPrefix4(<<Dollar, a, len \div 256, len % 256>>, a, len)
<1>1. len \div 256 \in Byte /\ len % 256 \in Byte /\ Dollar \in Byte
  BY SMTT(10) DEF Byte, Dollar, UINT16_MAX
<1> QED BY <1>1, SMTT(10) DEF IsPrefix4

\* What a packet looks like, byte by byte.
LEMMA InterleavedBytes ==
    ASSUME NEW a \in Byte, NEW n \in Nat, NEW d \in Seq(Byte),
           NEW p, IsPayload(p, n, d), NEW h, IsPrefix4(h, a, Len(p))
    PROVE  IsPacket(h \o p, a, n, d)
<1>1. Len(d) \in Nat
  BY LenProperties, SMTT(10)
<1>2. /\ p \in Seq(Byte) /\ Len(p) = 1 + Len(d) /\ p[1] = Digit(n)
      /\ \A i \in 1..Len(d) : p[1 + i] = d[i]
  BY DEF IsPayload
<1>3. /\ h \in Seq(Byte) /\ Len(h) = 4 /\ h[1] = Dollar /\ h[2] = a
      /\ h[3] = Len(p) \div 256 /\ h[4] = Len(p) % 256
  BY DEF IsPrefix4
<1>4. /\ h \o p \in Seq(Byte) /\ Len(h \o p) = Len(h) + Len(p)
      /\ \A i \in 1..Len(h) : (h \o p)[i] = h[i]
      /\ \A i \in 1..Len(p) : (h \o p)[Len(h) + i] = p[i]
  <2>1. h \in Seq(Byte) /\ p \in Seq(Byte)
    BY <1>2, <1>3
  <2> QED BY <2>1, ConcatParts, SMTT(10)
<1>5. (h \o p)[5] = Digit(n)
  BY <1>1, <1>2, <1>3, <1>4, SMTT(10)
<1>6. ASSUME NEW i \in 1..Len(d) PROVE (h \o p)[5 + i] = d[i]
  <2>1. 1 + i \in 1..Len(p) /\ Len(h) + (1 + i) = 5 + i
    BY <1>1, <1>2, <1>3, SMTT(10)
  <2> QED BY <2>1, <1>2, <1>4, SMTT(10)
<1>7. /\ (h \o p)[1] = Dollar /\ (h \o p)[2] = a
      /\ (h \o p)[3] = (Len(d) + 1) \div 256 /\ (h \o p)[4] = (Len(d) + 1) % 256
  BY <1>1, <1>2, <1>3, <1>4, SMTT(10)
<1>8. Len(h \o p) = 5 + Len(d)
  BY <1>1, <1>2, <1>3, <1>4, SMTT(10)
<1> QED BY <1>4, <1>5, <1>6, <1>7, <1>8, Zenon DEF IsPacket

\* What a packet looks like.
LEMMA PacketBytes ==
    ASSUME NEW m \in Shapes, m.type = "interleaved", NEW n \in Nat
    PROVE  IsPacket(Write(m, n), m.channel, n, m.data)
<1> DEFINE t == <<Digit(n)>>
           p == t \o m.data
           h == <<Dollar, m.channel, Len(p) \div 256, Len(p) % 256>>
<1>1. Len(m.data) \in Nat /\ Len(m.data) + 1 <= UINT16_MAX - 4
  BY ShapeLen, SMTT(10)
<1>2. m.data \in Seq(Byte) /\ m.channel \in Byte
  BY ShapeTypes, SMTT(10)
<1>3. t \in Seq(Byte) /\ Len(t) = 1 /\ t[1] = Digit(n)
  <2>1. Digit(n) \in Byte
    BY DigitIsByte, SMTT(10) DEF Byte
  <2> QED BY <2>1, SMTT(10)
<1>4. Write(m, n) = h \o p
  BY Zenon DEF Write, rtsp_build_interleaved
<1> HIDE DEF t
<1>5. IsPayload(p, n, m.data)
  BY <1>2, <1>3, PayloadBytes, Zenon
<1> HIDE DEF p
<1>6. Len(p) \in Nat /\ Len(p) <= UINT16_MAX - 4
  BY <1>1, <1>5, SMTT(10) DEF IsPayload, UINT16_MAX
<1>7. IsPrefix4(h, m.channel, Len(p))
  BY <1>2, <1>6, Prefix4Bytes, Zenon
<1> HIDE DEF h
<1>8. IsPacket(h \o p, m.channel, n, m.data)
  BY <1>2, <1>5, <1>7, InterleavedBytes, Zenon
<1> QED BY <1>4, <1>8, Zenon

(***************************************************************************)
(* find_double_newline()                                                   *)
(***************************************************************************)

\* The least number of a set.
LEMMA MinIs ==
    ASSUME NEW S, S \subseteq Int, NEW x \in S, \A y \in S : x <= y
    PROVE  Min(S) = x
<1>1. Min(S) \in S /\ \A y \in S : Min(S) <= y
  BY Zenon DEF Min
<1>2. Min(S) \in Int /\ x \in Int /\ x <= Min(S) /\ Min(S) <= x
  BY <1>1, Zenon
<1>3. \A y, z \in Int : y <= z /\ z <= y => y = z
  BY SMTT(10)
<1> QED BY <1>2, <1>3, Zenon

\* There is no empty line.
LEMMA NoneFound ==
    ASSUME NEW b, \A k \in 1..4 : Occurrences(DoubleNewlines[k], b) = {}
    PROVE  find_double_newline(b) = 0
<1>1. {k \in 1..4 : Occurrences(DoubleNewlines[k], b) # {}} = {}
  BY Zenon
<1> QED BY <1>1, Zenon DEF find_double_newline

\* The patterns.
LEMMA Patterns ==
    /\ DoubleNewlines[1] = <<CR, LF, CR, LF>> /\ DoubleNewlines[2] = <<LF, CR, LF, CR>>
    /\ DoubleNewlines[3] = <<LF, LF>> /\ DoubleNewlines[4] = <<CR, CR>>
BY SMTT(10) DEF DoubleNewlines

\* Four bytes that start with x are not found where there is no x.
LEMMA FourNotFound ==
    ASSUME NEW b \in Seq(Byte), NEW x \in Byte, NEW y \in Byte, NEW z \in Byte, NEW u \in Byte,
           \A i \in 1..Len(b) : i + 3 <= Len(b) => b[i] # x
    PROVE  Occurrences(<<x, y, z, u>>, b) = {}
<1> SUFFICES ASSUME NEW i \in Occurrences(<<x, y, z, u>>, b) PROVE FALSE
  OBVIOUS
<1>1. Len(b) \in Nat
  BY LenProperties, SMTT(10)
<1>2. Len(<<x, y, z, u>>) = 4 /\ <<x, y, z, u>>[1] = x
  BY SMTT(10)
<1>3. /\ i \in 1..(Len(b) + 1 - Len(<<x, y, z, u>>))
      /\ \A j \in 1..Len(<<x, y, z, u>>) : b[i + j - 1] = <<x, y, z, u>>[j]
  BY Zenon DEF Occurrences
<1>4. i \in 1..Len(b) /\ i + 3 <= Len(b) /\ 1 \in 1..4 /\ i + 1 - 1 = i
  BY <1>1, <1>2, <1>3, SMTT(10)
<1>5. b[i] = x
  BY <1>2, <1>3, <1>4, Zenon
<1> QED BY <1>4, <1>5, Zenon

\* A byte that never comes twice is not found twice.
LEMMA TwoNotFound ==
    ASSUME NEW b \in Seq(Byte), NEW x \in Byte,
           \A i \in 1..Len(b) : i + 1 <= Len(b) => ~(b[i] = x /\ b[i + 1] = x)
    PROVE  Occurrences(<<x, x>>, b) = {}
<1> SUFFICES ASSUME NEW i \in Occurrences(<<x, x>>, b) PROVE FALSE
  OBVIOUS
<1>1. Len(b) \in Nat
  BY LenProperties, SMTT(10)
<1>2. Len(<<x, x>>) = 2 /\ <<x, x>>[1] = x /\ <<x, x>>[2] = x
  BY SMTT(10)
<1>3. /\ i \in 1..(Len(b) + 1 - Len(<<x, x>>))
      /\ \A j \in 1..Len(<<x, x>>) : b[i + j - 1] = <<x, x>>[j]
  BY Zenon DEF Occurrences
<1>4. /\ i \in 1..Len(b) /\ i + 1 <= Len(b) /\ 1 \in 1..2 /\ 2 \in 1..2
      /\ i + 1 - 1 = i /\ i + 2 - 1 = i + 1
  BY <1>1, <1>2, <1>3, SMTT(10)
<1>5. b[i] = x /\ b[i + 1] = x
  BY <1>2, <1>3, <1>4, Zenon
<1> QED BY <1>4, <1>5, Zenon

\* The bytes the patterns are made of.
LEMMA LineEnds == CR \in Byte /\ LF \in Byte /\ CR # LF
BY SMTT(10) DEF CR, LF, Byte

\* The empty line behind a header.
LEMMA HeaderFound ==
    ASSUME NEW b \in Seq(Byte), 7 <= Len(b),
           \A i \in 1..3 : b[i] \notin {NUL, CR, LF},
           b[4] = CR, b[5] = LF, b[6] = CR, b[7] = LF
    PROVE  find_double_newline(b) = 7
<1> DEFINE occ == Occurrences(<<CR, LF, CR, LF>>, b)
           kinds == {k \in 1..4 : Occurrences(DoubleNewlines[k], b) # {}}
<1>1. 4 \in occ
  BY SMTT(20) DEF Occurrences, NUL, CR, LF
<1>2. occ \subseteq Int /\ \A i \in occ : 4 <= i
  BY SMTT(20) DEF Occurrences, NUL, CR, LF
<1>3. Min(occ) = 4
  <2> HIDE DEF occ
  <2> QED BY <1>1, <1>2, MinIs, Zenon
<1>4. 1 \in kinds
  BY <1>1, Patterns, SMTT(10)
<1>5. Min(kinds) = 1
  <2>1. kinds \subseteq Int /\ \A k \in kinds : 1 <= k
    BY SMTT(10)
  <2> HIDE DEF kinds
  <2> QED BY <1>4, <2>1, MinIs, Zenon
<1>6. find_double_newline(b) = Min(occ) + Len(<<CR, LF, CR, LF>>) - 1
  <2>1. kinds # {}
    BY <1>4
  <2>2. DoubleNewlines[Min(kinds)] = <<CR, LF, CR, LF>>
    BY <1>5, Patterns, Zenon
  <2> QED BY <2>1, <2>2, Zenon DEF find_double_newline
<1>7. Len(<<CR, LF, CR, LF>>) = 4
  BY SMTT(10)
<1> HIDE DEF occ
<1> QED BY <1>3, <1>6, <1>7, SMTT(10)

\* Bytes b are the beginning of w, or w and more.
Starts(b, w) == b \in Seq(Byte) /\ \A i \in 1..Len(b) : i <= Len(w) => b[i] = w[i]

\* No part of a header has an empty line.
LEMMA PartOfHeader ==
    ASSUME NEW b, NEW w, NEW a \in {RequestLine, StatusLine, OtherLine}, NEW n \in Nat,
           NEW d \in Seq(Byte), IsText(w, a, n, d), Starts(b, w), Len(b) < 7
    PROVE  find_double_newline(b) = 0
<1>1. b \in Seq(Byte) /\ Len(b) \in Nat /\ Len(d) \in Nat
  BY LenProperties, SMTT(10) DEF Starts
<1>2. \A i \in 1..Len(b) : b[i] = w[i]
  BY <1>1, SMTT(10) DEF Starts, IsText
<1>3. w[1] \notin {CR, LF} /\ w[2] \notin {CR, LF} /\ w[3] \notin {CR, LF}
  <2>1. w[1] = a /\ w[2] = Digit(n) /\ w[3] = 48 + Len(d)
    BY Zenon DEF IsText, Digit0
  <2>2. Digit(n) \in 48..57
    BY DigitIsByte, Zenon
  <2>3. a \in {66, 81, 82}
    BY Zenon DEF RequestLine, StatusLine, OtherLine
  <2> QED BY <1>1, <2>1, <2>2, <2>3, SMTT(10) DEF CR, LF
<1>4. w[4] = CR /\ w[5] = LF /\ w[6] = CR /\ CR # LF
  BY LineEnds, Zenon DEF IsText
<1>5. \A i \in 1..Len(b) : i + 3 <= Len(b) => b[i] # CR /\ b[i] # LF
  BY <1>1, <1>2, <1>3, SMTT(10)
<1>6. \A i \in 1..Len(b) : i + 1 <= Len(b) =>
          ~(b[i] = CR /\ b[i + 1] = CR) /\ ~(b[i] = LF /\ b[i + 1] = LF)
  <2> SUFFICES ASSUME NEW i \in 1..Len(b), i + 1 <= Len(b)
               PROVE  ~(w[i] = CR /\ w[i + 1] = CR) /\ ~(w[i] = LF /\ w[i + 1] = LF)
    BY <1>1, <1>2, SMTT(10)
  <2>1. i = 1 \/ i = 2 \/ i = 3 \/ i = 4 \/ i = 5
    BY <1>1, SMTT(10)
  <2> QED BY <2>1, <1>3, <1>4, SMTT(10)
<1>7. /\ Occurrences(<<CR, LF, CR, LF>>, b) = {} /\ Occurrences(<<LF, CR, LF, CR>>, b) = {}
  BY <1>1, <1>5, LineEnds, FourNotFound, Zenon
<1>8. /\ Occurrences(<<LF, LF>>, b) = {} /\ Occurrences(<<CR, CR>>, b) = {}
  BY <1>1, <1>6, LineEnds, TwoNotFound, Zenon
<1>9. \A k \in 1..4 : k = 1 \/ k = 2 \/ k = 3 \/ k = 4
  BY SMTT(10)
<1> QED BY <1>7, <1>8, <1>9, Patterns, NoneFound, Zenon

\* Three bytes of a packet have none, unless channel and length are one.
LEMMA PartOfPacket ==
    ASSUME NEW b, NEW w, NEW a \in Byte, NEW n \in Nat,
           NEW d \in Seq(Byte), IsPacket(w, a, n, d), Starts(b, w), Len(b) < 4,
           ~(a \in {CR, LF} /\ (Len(d) + 1) \div 256 = a)
    PROVE  find_double_newline(b) = 0
<1>1. b \in Seq(Byte) /\ Len(b) \in Nat /\ Len(d) \in Nat
  BY LenProperties, SMTT(10) DEF Starts
<1>2. \A i \in 1..Len(b) : b[i] = w[i]
  BY <1>1, SMTT(10) DEF Starts, IsPacket
<1>3. /\ w[1] \notin {CR, LF} /\ ~(w[2] = CR /\ w[3] = CR) /\ ~(w[2] = LF /\ w[3] = LF)
  <2>1. w[1] = 36 /\ w[2] = a /\ w[3] = (Len(d) + 1) \div 256
    BY DEF IsPacket, Dollar
  <2> QED BY <2>1, SMTT(10) DEF CR, LF
<1>5. \A i \in 1..Len(b) : i + 3 <= Len(b) => b[i] # CR /\ b[i] # LF
  BY <1>1, SMTT(10)
<1>6. \A i \in 1..Len(b) : i + 1 <= Len(b) =>
          ~(b[i] = CR /\ b[i + 1] = CR) /\ ~(b[i] = LF /\ b[i + 1] = LF)
  <2> SUFFICES ASSUME NEW i \in 1..Len(b), i + 1 <= Len(b)
               PROVE  ~(w[i] = CR /\ w[i + 1] = CR) /\ ~(w[i] = LF /\ w[i + 1] = LF)
    BY <1>1, <1>2, SMTT(10)
  <2>1. i = 1 \/ i = 2
    BY <1>1, SMTT(10)
  <2> QED BY <2>1, <1>3, SMTT(10)
<1>7. /\ Occurrences(<<CR, LF, CR, LF>>, b) = {} /\ Occurrences(<<LF, CR, LF, CR>>, b) = {}
  BY <1>1, <1>5, LineEnds, FourNotFound, Zenon
<1>8. /\ Occurrences(<<LF, LF>>, b) = {} /\ Occurrences(<<CR, CR>>, b) = {}
  BY <1>1, <1>6, LineEnds, TwoNotFound, Zenon
<1>9. \A k \in 1..4 : k = 1 \/ k = 2 \/ k = 3 \/ k = 4
  BY SMTT(10)
<1> QED BY <1>7, <1>8, <1>9, Patterns, NoneFound, Zenon

(***************************************************************************)
(* rtsp_get_next_message()                                                 *)
(***************************************************************************)

\* The context of a text message whose header has been read.
TextContext(type, n, len) ==
    [type |-> type, header_len |-> 7, body_len |-> len, id |-> n % 10]

\* What is handled of a message.
Passed(type, n, a, d) == [type |-> type, id |-> n % 10, channel |-> a, data |-> d]

\* There is a header in the context only while its body is missing.
MayHave(x, b, type, n, len) ==
    \/ x = NoContext
    \/ type \in {"request", "response"} /\ 7 <= Len(b) /\ x = TextContext(type, n, len)

\* A header has been read unless it is unreadable.
LEMMA ContextIsOne ==
    ASSUME NEW type \in {"request", "response"}, NEW n, NEW len
    PROVE  TextContext(type, n, len) # NoContext
BY SMTT(10) DEF TextContext, NoContext

\* The readers read what the writers write.
LEMMA HeaderRead ==
    ASSUME NEW h, NEW type \in {"request", "response", "unreadable"},
           NEW n \in Nat, NEW len \in Nat, len < 10, IsHeader(h, Line(type), n, len)
    PROVE  header_read(h) = IF type = "unreadable" THEN NoContext
                            ELSE TextContext(type, n, len)
<1>1. h[1] = Line(type) /\ h[2] = Digit(n) /\ h[3] = Digit0 + len /\ Len(h) = 7
  BY Zenon DEF IsHeader
<1>2. Digit(n) - Digit0 = n % 10 /\ n % 10 \in 0..9
  BY DigitIsByte, Zenon
<1>3. h[2] - Digit0 = n % 10 /\ h[3] - Digit0 = len /\ len \in 0..9
  BY <1>1, <1>2, SMTT(10) DEF Digit0
<1>4. Fields(h)
  BY <1>1, <1>2, <1>3, SMTT(10) DEF Fields, Digits
<1>5. \A t : Context(t, h) = TextContext(t, n, len)
  BY <1>1, <1>3, SMTT(10) DEF Context, TextContext
<1>6. RequestLine # StatusLine /\ OtherLine # RequestLine /\ OtherLine # StatusLine
  BY SMTT(10) DEF RequestLine, StatusLine, OtherLine
<1>7. CASE type = "request"
  <2>1. h[1] = RequestLine
    BY <1>1, <1>7, Zenon DEF Line
  <2> QED BY <1>4, <1>5, <1>6, <1>7, <2>1, Zenon DEF header_read, rtsp_request_header_read
<1>8. CASE type = "response"
  <2>1. h[1] = StatusLine
    BY <1>1, <1>8, Zenon DEF Line
  <2> QED BY <1>4, <1>5, <1>8, <2>1, Zenon DEF header_read, rtsp_response_header_read
<1>9. CASE type = "unreadable"
  <2>1. h[1] = OtherLine
    BY <1>1, <1>9, Zenon DEF Line
  <2> QED BY <1>6, <1>9, <2>1, Zenon DEF header_read, rtsp_request_header_read
<1> QED BY <1>7, <1>8, <1>9, Zenon

\* The header of a text message is found and read.
LEMMA HeaderParsed ==
    ASSUME NEW b, NEW w, NEW type \in {"request", "response", "unreadable"},
           NEW n \in Nat, NEW d \in Seq(Byte), Len(d) < 10,
           IsText(w, Line(type), n, d), Starts(b, w), 7 <= Len(b)
    PROVE  /\ find_double_newline(b) = 7
           /\ header_read(SubSeq(b, 1, 7)) = IF type = "unreadable" THEN NoContext
                                             ELSE TextContext(type, n, Len(d))
<1> DEFINE h == SubSeq(b, 1, 7)
<1>1. b \in Seq(Byte) /\ Len(b) \in Nat /\ Len(d) \in Nat
  BY LenProperties, SMTT(10) DEF Starts
<1>2. \A i \in 1..7 : b[i] = w[i]
  BY <1>1, SMTT(10) DEF Starts, IsText
<1>3. /\ w[1] = Line(type) /\ w[2] = Digit(n) /\ w[3] = Digit0 + Len(d)
      /\ w[4] = CR /\ w[5] = LF /\ w[6] = CR /\ w[7] = LF
  BY Zenon DEF IsText
<1>4. Digit(n) \in 48..57 /\ Line(type) \in {66, 81, 82}
  <2>1. Line(type) \in {66, 81, 82}
    BY SMTT(10) DEF Line, RequestLine, StatusLine, OtherLine
  <2> QED BY <2>1, DigitIsByte, Zenon
<1>5. find_double_newline(b) = 7
  <2>1. \A i \in 1..3 : b[i] \notin {NUL, CR, LF}
    <3>1. b[1] = Line(type) /\ b[2] = Digit(n) /\ b[3] = 48 + Len(d)
      BY <1>2, <1>3, SMTT(10) DEF Digit0
    <3> QED BY <1>1, <1>4, <3>1, SMTT(10) DEF NUL, CR, LF
  <2>2. b[4] = CR /\ b[5] = LF /\ b[6] = CR /\ b[7] = LF
    BY <1>2, <1>3, SMTT(10)
  <2> QED BY <1>1, <2>1, <2>2, HeaderFound, Zenon
<1>6. h \in Seq(Byte) /\ Len(h) = 7 /\ \A i \in 1..7 : h[i] = b[i]
  BY <1>1, SMTT(10)
<1>7. IsHeader(h, Line(type), n, Len(d))
  <2> HIDE DEF h
  <2> QED BY <1>2, <1>3, <1>6, SMTT(10) DEF IsHeader
<1>8. header_read(h) = IF type = "unreadable" THEN NoContext ELSE TextContext(type, n, Len(d))
  BY <1>1, <1>7, HeaderRead, Zenon
<1> QED BY <1>5, <1>8, Zenon

\* The body is behind the header.
LEMMA BodyBytes ==
    ASSUME NEW b, NEW w, NEW a, NEW n, NEW d \in Seq(Byte),
           IsText(w, a, n, d), Starts(b, w), ~(Len(b) < 7 + Len(d))
    PROVE  SubSeq(b, 7 + 1, 7 + Len(d)) = d
<1>1. b \in Seq(Byte) /\ Len(b) \in Nat /\ Len(d) \in Nat
  BY LenProperties, SMTT(10) DEF Starts
<1>2. \A i \in 1..Len(d) : b[7 + i] = d[i]
  <2> SUFFICES ASSUME NEW i \in 1..Len(d) PROVE b[7 + i] = d[i]
    OBVIOUS
  <2>1. 7 + i \in 1..Len(b) /\ 7 + i <= 7 + Len(d)
    BY <1>1, SMTT(10)
  <2>2. b[7 + i] = w[7 + i]
    BY <2>1, Zenon DEF Starts, IsText
  <2> QED BY <2>2, Zenon DEF IsText
<1>3. /\ SubSeq(b, 7 + 1, 7 + Len(d)) \in Seq(Byte)
      /\ Len(SubSeq(b, 7 + 1, 7 + Len(d))) = Len(d)
      /\ \A i \in 1..Len(d) : SubSeq(b, 7 + 1, 7 + Len(d))[i] = d[i]
  BY <1>1, <1>2, SMTT(10)
<1> QED BY <1>1, <1>3, SeqEqual, SMTT(10)

\* What is made of a body.
LEMMA BodyParsed ==
    ASSUME NEW b, NEW w, NEW type \in {"request", "response"},
           NEW n \in Nat, NEW d \in Seq(Byte),
           IsText(w, Line(type), n, d), Starts(b, w)
    PROVE  /\ Len(b) < 7 + Len(d) =>
                  get_body(b, TextContext(type, n, Len(d)))
                     = Result("EAGAIN", NoMessage, 0, TextContext(type, n, Len(d)))
           /\ ~(Len(b) < 7 + Len(d)) =>
                  get_body(b, TextContext(type, n, Len(d)))
                     = Result("OK", Passed(type, n, 0, d), 7 + Len(d), NoContext)
<1> DEFINE x == TextContext(type, n, Len(d))
<1>1. x.header_len = 7 /\ x.body_len = Len(d) /\ x.type = type /\ x.id = n % 10
  BY Zenon DEF TextContext
<1> HIDE DEF x
<1>2. CASE Len(b) < 7 + Len(d)
  <2>1. get_body(b, x) = Result("EAGAIN", NoMessage, 0, x)
    BY <1>1, <1>2, Zenon DEF get_body
  <2> QED BY <1>2, <2>1, Zenon DEF x
<1>3. CASE ~(Len(b) < 7 + Len(d))
  <2>1. SubSeq(b, 7 + 1, 7 + Len(d)) = d
    BY <1>3, BodyBytes, Zenon
  <2>2. get_body(b, x) = Result("OK", Passed(type, n, 0, d), 7 + Len(d), NoContext)
    BY <1>1, <1>3, <2>1, Zenon DEF get_body, Passed
  <2> QED BY <1>3, <2>2, Zenon DEF x
<1> QED BY <1>2, <1>3, Zenon

\* What a call makes of the message with bytes w, context y and handled form e:
\* nothing while bytes are missing, unless its header; then all of it.
Reads(r, b, width, type, y, e) ==
    IF Len(b) < width
    THEN /\ r.ret = "EAGAIN" /\ r.total_len = 0
         /\ \/ r.ctx = NoContext
            \/ type \in {"request", "response"} /\ 7 <= Len(b) /\ r.ctx = y
    ELSE /\ r.total_len = width /\ r.ctx = NoContext
         /\ IF type = "unreadable" THEN r.ret = "EPROTO" ELSE r.ret = "OK" /\ r.msg = e

\* The three results.
LEMMA ReadsNothing ==
    ASSUME NEW b, NEW width, NEW type, NEW y, NEW e, NEW x, Len(b) < width,
           \/ x = NoContext
           \/ type \in {"request", "response"} /\ 7 <= Len(b) /\ x = y
    PROVE  Reads(Result("EAGAIN", NoMessage, 0, x), b, width, type, y, e)
<1> DEFINE r == Result("EAGAIN", NoMessage, 0, x)
<1>1. r.ret = "EAGAIN" /\ r.total_len = 0 /\ r.ctx = x
  BY Zenon DEF Result
<1> HIDE DEF r
<1>2. Reads(r, b, width, type, y, e)
  BY <1>1, Zenon DEF Reads
<1> QED BY <1>2, Zenon DEF r

\* All of a message is there.
LEMMA ReadsAll ==
    ASSUME NEW b, NEW width, NEW type, NEW y, NEW e, ~(Len(b) < width), type # "unreadable"
    PROVE  Reads(Result("OK", e, width, NoContext), b, width, type, y, e)
<1> DEFINE r == Result("OK", e, width, NoContext)
<1>1. r.ret = "OK" /\ r.msg = e /\ r.total_len = width /\ r.ctx = NoContext
  BY Zenon DEF Result
<1> HIDE DEF r
<1>2. Reads(r, b, width, type, y, e)
  BY <1>1, Zenon DEF Reads
<1> QED BY <1>2, Zenon DEF r

\* All of a header that cannot be read is there.
LEMMA ReadsBad ==
    ASSUME NEW b, NEW width, NEW y, NEW e, ~(Len(b) < width)
    PROVE  Reads(Result("EPROTO", NoMessage, width, NoContext), b, width, "unreadable", y, e)
<1> DEFINE r == Result("EPROTO", NoMessage, width, NoContext)
<1>1. r.ret = "EPROTO" /\ r.total_len = width /\ r.ctx = NoContext
  BY Zenon DEF Result
<1> HIDE DEF r
<1>2. Reads(r, b, width, "unreadable", y, e)
  BY <1>1, Zenon DEF Reads
<1> QED BY <1>2, Zenon DEF r

\* What is made of a text message.
LEMMA TextParsed ==
    ASSUME NEW b, NEW w, NEW type \in {"request", "response", "unreadable"},
           NEW n \in Nat, NEW d \in Seq(Byte), Len(d) < 10,
           IsText(w, Line(type), n, d), Starts(b, w),
           type = "unreadable" => Len(d) = 0,
           NEW x, MayHave(x, b, type, n, Len(d))
    PROVE  Reads(get_text(b, x), b, 7 + Len(d), type, TextContext(type, n, Len(d)),
                 Passed(type, n, 0, d))
<1> DEFINE y == TextContext(type, n, Len(d))
           e == Passed(type, n, 0, d)
<1>1. Len(b) \in Nat /\ Len(d) \in Nat
  BY LenProperties, SMTT(10) DEF Starts
<1>2. ASSUME type \in {"request", "response"}, 7 <= Len(b)
      PROVE  Reads(get_body(b, y), b, 7 + Len(d), type, y, e)
  <2>1. /\ Len(b) < 7 + Len(d) => get_body(b, y) = Result("EAGAIN", NoMessage, 0, y)
        /\ ~(Len(b) < 7 + Len(d)) => get_body(b, y) = Result("OK", e, 7 + Len(d), NoContext)
    BY <1>2, BodyParsed, Zenon
  <2>2. type # "unreadable" /\ type # "interleaved"
    BY <1>2, Zenon
  <2> HIDE DEF e, y
  <2> QED BY <1>2, <2>1, <2>2, ReadsNothing, ReadsAll, Zenon
<1>3. CASE x # NoContext
  <2>1. type \in {"request", "response"} /\ 7 <= Len(b) /\ x = y
    BY <1>3, Zenon DEF MayHave
  <2>2. get_text(b, x) = get_body(b, x)
    BY <1>3, Zenon DEF get_text
  <2> QED BY <1>2, <2>1, <2>2, Zenon
<1>4. CASE x = NoContext /\ Len(b) < 7
  <2>1. Line(type) \in {RequestLine, StatusLine, OtherLine}
    BY Zenon DEF Line
  <2>2. find_double_newline(b) = 0
    BY <1>4, <2>1, PartOfHeader, Zenon
  <2>3. get_text(b, x) = Result("EAGAIN", NoMessage, 0, x)
    BY <1>4, <2>2, Zenon DEF get_text
  <2>4. Len(b) < 7 + Len(d)
    BY <1>1, <1>4, SMTT(10)
  <2> QED BY <1>4, <2>3, <2>4, ReadsNothing, Zenon
<1>5. CASE x = NoContext /\ 7 <= Len(b)
  <2>1. /\ find_double_newline(b) = 7
        /\ header_read(SubSeq(b, 1, 7)) = IF type = "unreadable" THEN NoContext ELSE y
    BY <1>5, HeaderParsed, Zenon
  <2>2. 7 # 0
    BY SMTT(10)
  <2>3. CASE type = "unreadable"
    <3>1. get_text(b, x) = Result("EPROTO", NoMessage, 7, NoContext)
      BY <1>5, <2>1, <2>2, <2>3, Zenon DEF get_text
    <3>2. 7 + Len(d) = 7 /\ ~(Len(b) < 7)
      BY <1>1, <1>5, <2>3, SMTT(10)
    <3>3. Reads(Result("EPROTO", NoMessage, 7, NoContext), b, 7, "unreadable", y, e)
      BY <3>2, ReadsBad, Zenon
    <3> QED BY <2>3, <3>1, <3>2, <3>3, Zenon
  <2>4. CASE type # "unreadable"
    <3>1. type \in {"request", "response"} /\ y # NoContext
      BY <2>4, ContextIsOne, Zenon
    <3>2. get_text(b, x) = get_body(b, y)
      BY <1>5, <2>1, <2>2, <2>4, <3>1, Zenon DEF get_text
    <3> QED BY <1>2, <1>5, <3>1, <3>2, Zenon
  <2> QED BY <2>3, <2>4, Zenon
<1>6. Len(b) < 7 \/ 7 <= Len(b)
  BY <1>1, SMTT(10)
<1> QED BY <1>3, <1>4, <1>5, <1>6, Zenon

\* What does not start with '$' is text.
LEMMA NotInterleaved ==
    ASSUME NEW b, NEW x, Len(b) < 4 \/ b[1] # Dollar
    PROVE  rtsp_get_next_message(b, x) = get_text(b, x)
<1>1. rtsp_parse_interleaved(b) = "EINVAL"
  BY Zenon DEF rtsp_parse_interleaved
<1> QED BY <1>1, Zenon DEF rtsp_get_next_message

\* The payload is behind the four bytes.
LEMMA PayloadRead ==
    ASSUME NEW b, NEW w, NEW a, NEW n \in Nat, NEW d \in Seq(Byte),
           IsPacket(w, a, n, d), Starts(b, w), ~(Len(b) < 5 + Len(d))
    PROVE  /\ SubSeq(b, 6, 4 + (Len(d) + 1)) = d /\ b[5] - Digit0 = n % 10
<1>1. b \in Seq(Byte) /\ Len(b) \in Nat /\ Len(d) \in Nat
  BY LenProperties, SMTT(10) DEF Starts
<1>2. \A i \in 1..Len(d) : b[5 + i] = d[i]
  <2> SUFFICES ASSUME NEW i \in 1..Len(d) PROVE b[5 + i] = d[i]
    OBVIOUS
  <2>1. 5 + i \in 1..Len(b) /\ 5 + i <= 5 + Len(d)
    BY <1>1, SMTT(10)
  <2>2. b[5 + i] = w[5 + i]
    BY <2>1, Zenon DEF Starts, IsPacket
  <2> QED BY <2>2, Zenon DEF IsPacket
<1>3. b[5] = Digit(n)
  <2>1. 5 \in 1..Len(b) /\ 5 <= 5 + Len(d)
    BY <1>1, SMTT(10)
  <2> QED BY <2>1, Zenon DEF Starts, IsPacket
<1>4. /\ SubSeq(b, 6, 4 + (Len(d) + 1)) \in Seq(Byte)
      /\ Len(SubSeq(b, 6, 4 + (Len(d) + 1))) = Len(d)
      /\ \A i \in 1..Len(d) : SubSeq(b, 6, 4 + (Len(d) + 1))[i] = d[i]
  BY <1>1, <1>2, SMTT(10)
<1>5. SubSeq(b, 6, 4 + (Len(d) + 1)) = d
  BY <1>1, <1>4, SeqEqual, SMTT(10)
<1>6. Digit(n) - Digit0 = n % 10
  BY DigitIsByte, Zenon
<1> QED BY <1>3, <1>5, <1>6, Zenon

\* What is made of a packet.
LEMMA PacketParsed ==
    ASSUME NEW b, NEW w, NEW a \in Byte, NEW n \in Nat, NEW d \in Seq(Byte), NEW y,
           IsPacket(w, a, n, d), Starts(b, w),
           ~(a \in {CR, LF} /\ (Len(d) + 1) \div 256 = a)
    PROVE  Reads(rtsp_get_next_message(b, NoContext), b, 5 + Len(d), "interleaved", y,
                 Passed("interleaved", n, a, d))
<1>1. Len(b) \in Nat /\ Len(d) \in Nat
  BY LenProperties, SMTT(10) DEF Starts
<1>2. CASE Len(b) < 4
  <2>1. rtsp_get_next_message(b, NoContext) = get_text(b, NoContext)
    BY <1>2, NotInterleaved, Zenon
  <2>2. find_double_newline(b) = 0
    BY <1>2, PartOfPacket, Zenon
  <2>3. get_text(b, NoContext) = Result("EAGAIN", NoMessage, 0, NoContext)
    BY <2>2, Zenon DEF get_text
  <2>4. Len(b) < 5 + Len(d)
    BY <1>1, <1>2, SMTT(10)
  <2> QED BY <2>1, <2>3, <2>4, ReadsNothing, Zenon
<1>3. CASE ~(Len(b) < 4)
  <2>1. /\ b[1] = Dollar /\ b[2] = a
        /\ b[3] = (Len(d) + 1) \div 256 /\ b[4] = (Len(d) + 1) % 256
    <3>1. Len(w) = 5 + Len(d) /\ \A i \in 1..Len(b) : i <= Len(w) => b[i] = w[i]
      BY Zenon DEF Starts, IsPacket
    <3>2. b[1] = w[1] /\ b[2] = w[2] /\ b[3] = w[3] /\ b[4] = w[4]
      BY <1>1, <1>3, <3>1, SMTT(10)
    <3> QED BY <3>2, Zenon DEF IsPacket
  <2>2. 4 + b[3] * 256 + b[4] = 5 + Len(d) /\ 4 + (Len(d) + 1) = 5 + Len(d)
    BY <1>1, <2>1, SMTT(10)
  <2>3. CASE Len(b) < 5 + Len(d)
    <3>1. rtsp_parse_interleaved(b) = "EAGAIN"
      BY <1>3, <2>1, <2>2, <2>3, Zenon DEF rtsp_parse_interleaved
    <3>2. rtsp_get_next_message(b, NoContext) = Result("EAGAIN", NoMessage, 0, NoContext)
      BY <3>1, Zenon DEF rtsp_get_next_message
    <3> QED BY <2>3, <3>2, ReadsNothing, Zenon
  <2>4. CASE ~(Len(b) < 5 + Len(d))
    <3>1. rtsp_parse_interleaved(b) = "OK"
      BY <1>3, <2>1, <2>2, <2>4, Zenon DEF rtsp_parse_interleaved
    <3>2. rtsp_get_next_message(b, NoContext)
            = Result("OK", Packet(b), 4 + b[3] * 256 + b[4], NoContext)
      BY <3>1, Zenon DEF rtsp_get_next_message
    <3>3. Packet(b) = Passed("interleaved", n, a, d)
      <4>1. SubSeq(b, 6, 4 + (Len(d) + 1)) = d /\ b[5] - Digit0 = n % 10
        BY <2>4, PayloadRead, Zenon
      <4> QED BY <2>1, <2>2, <4>1, Zenon DEF Packet, Passed
    <3>4. "interleaved" # "unreadable"
      BY Zenon
    <3> QED BY <2>2, <2>4, <3>2, <3>3, <3>4, ReadsAll, Zenon
  <2> QED BY <2>3, <2>4, Zenon
<1> QED BY <1>2, <1>3, Zenon

\* What is made of any message that a peer has sent.
LEMMA MessageParsed ==
    ASSUME Skippable, Recognised, NEW m \in Shapes, NEW n \in Nat,
           NEW b, Starts(b, Write(m, n)),
           NEW x, MayHave(x, b, m.type, n, Len(m.data))
    PROVE  Reads(rtsp_get_next_message(b, x), b, Width(m), m.type,
                 TextContext(m.type, n, Len(m.data)), Expected(m, n))
<1>1. m.data \in Seq(Byte) /\ m.channel \in Byte
  BY ShapeTypes, SMTT(10)
<1>2. Len(m.data) \in Nat
  BY ShapeLen, SMTT(10)
<1>3. CASE m.type = "interleaved"
  <2>1. IsPacket(Write(m, n), m.channel, n, m.data)
    BY <1>3, PacketBytes, Zenon
  <2>2. ~(m.channel \in {CR, LF} /\ (Len(m.data) + 1) \div 256 = m.channel)
    BY <1>3, Zenon DEF Recognised
  <2>3. x = NoContext
    BY <1>3, Zenon DEF MayHave
  <2>4. Width(m) = 5 + Len(m.data)
    BY <1>2, <1>3, SMTT(10) DEF Width
  <2>5. Expected(m, n) = Passed("interleaved", n, m.channel, m.data)
    BY <1>3, Zenon DEF Expected, Passed
  <2>6. Reads(rtsp_get_next_message(b, NoContext), b, 5 + Len(m.data), "interleaved",
              TextContext(m.type, n, Len(m.data)), Passed("interleaved", n, m.channel, m.data))
    BY <1>1, <2>1, <2>2, PacketParsed, Zenon
  <2> QED BY <1>3, <2>3, <2>4, <2>5, <2>6, Zenon
<1>4. CASE m.type # "interleaved"
  <2>1. m.type \in {"request", "response", "unreadable"}
    BY <1>4, ShapeTypes, SMTT(10)
  <2>2. Len(m.data) < 10
    BY <1>4, ShapeLen, SMTT(10)
  <2>3. IsText(Write(m, n), Line(m.type), n, m.data)
    BY <1>4, TextBytes, Zenon
  <2>4. Width(m) = 7 + Len(m.data)
    BY <1>2, <1>4, SMTT(10) DEF Width
  <2>5. Expected(m, n) = Passed(m.type, n, 0, m.data)
    BY <1>4, Zenon DEF Expected, Passed
  <2>6. m.type = "unreadable" => Len(m.data) = 0
    BY Zenon DEF Skippable
  <2>7. Reads(get_text(b, x), b, 7 + Len(m.data), m.type,
              TextContext(m.type, n, Len(m.data)), Passed(m.type, n, 0, m.data))
    BY <1>1, <2>1, <2>2, <2>3, <2>6, TextParsed, Zenon
  <2>8. Len(b) < 4 \/ b[1] # Dollar
    <3>1. b \in Seq(Byte) /\ Len(b) \in Nat
          /\ \A i \in 1..Len(b) : i <= Len(Write(m, n)) => b[i] = Write(m, n)[i]
      BY LenProperties, SMTT(10) DEF Starts
    <3>2. Write(m, n)[1] = Line(m.type) /\ Len(Write(m, n)) = 7 + Len(m.data)
      BY <2>3, Zenon DEF IsText
    <3>3. Line(m.type) # Dollar
      BY SMTT(10) DEF Line, Dollar, RequestLine, StatusLine, OtherLine
    <3>4. 1 <= Len(Write(m, n))
      BY <1>2, <3>2, SMTT(10)
    <3>5. ~(Len(b) < 4) => 1 \in 1..Len(b)
      BY <3>1, SMTT(10)
    <3> QED BY <3>1, <3>2, <3>3, <3>4, <3>5, Zenon
  <2> QED BY <2>4, <2>5, <2>7, <2>8, NotInterleaved, Zenon
<1> QED BY <1>3, <1>4, Zenon

\* Nothing is made of nothing.
LEMMA NothingParsed ==
    rtsp_get_next_message(<< >>, NoContext) = Result("EAGAIN", NoMessage, 0, NoContext)
<1>1. Len(<< >>) = 0 /\ << >> \in Seq(Byte)
  BY SMTT(10)
<1>2. Len(<< >>) < 4
  BY <1>1, SMTT(10)
<1>3. rtsp_get_next_message(<< >>, NoContext) = get_text(<< >>, NoContext)
  BY <1>2, NotInterleaved, Zenon
<1>4. \A i \in 1..Len(<< >>) : FALSE
  BY <1>1, SMTT(10)
<1>5. /\ Occurrences(<<CR, LF, CR, LF>>, << >>) = {}
      /\ Occurrences(<<LF, CR, LF, CR>>, << >>) = {}
  BY <1>1, <1>4, LineEnds, FourNotFound, Zenon
<1>6. Occurrences(<<LF, LF>>, << >>) = {} /\ Occurrences(<<CR, CR>>, << >>) = {}
  BY <1>1, <1>4, LineEnds, TwoNotFound, Zenon
<1>7. \A k \in 1..4 : k = 1 \/ k = 2 \/ k = 3 \/ k = 4
  BY SMTT(10)
<1>8. find_double_newline(<< >>) = 0
  BY <1>5, <1>6, <1>7, Patterns, NoneFound, Zenon
<1> QED BY <1>3, <1>8, Zenon DEF get_text

\* The bytes of any message.
LEMMA WriteBytes ==
    ASSUME NEW m \in Shapes, NEW n \in Nat
    PROVE  Write(m, n) \in Seq(Byte) /\ Len(Write(m, n)) = Width(m)
           /\ Width(m) \in Nat /\ Width(m) > 0
<1>1. Len(m.data) \in Nat
  BY ShapeLen, SMTT(10)
<1>3. CASE m.type = "interleaved"
  <2>1. IsPacket(Write(m, n), m.channel, n, m.data)
    BY <1>3, PacketBytes, Zenon
  <2>2. Width(m) = 5 + Len(m.data)
    BY <1>1, <1>3, SMTT(10) DEF Width
  <2>3. Width(m) \in Nat /\ Width(m) > 0
    BY <1>1, <2>2, SMTT(10)
  <2> QED BY <2>1, <2>2, <2>3, Zenon DEF IsPacket
<1>4. CASE m.type # "interleaved"
  <2>1. IsText(Write(m, n), Line(m.type), n, m.data)
    BY <1>4, TextBytes, Zenon
  <2>2. Width(m) = 7 + Len(m.data)
    BY <1>1, <1>4, SMTT(10) DEF Width
  <2>3. Width(m) \in Nat /\ Width(m) > 0
    BY <1>1, <2>2, SMTT(10)
  <2> QED BY <2>1, <2>2, <2>3, Zenon DEF IsText
<1> QED BY <1>3, <1>4, Zenon

(***************************************************************************)
(* The stream and what has been handled of it                              *)
(***************************************************************************)

\* Where the n-th message ends.
EndOf(e, n) == IF n = 0 THEN 0 ELSE e[n]

\* The bytes of a stream are those of its messages, one after the other.
StreamOK(s, bytes, e) ==
    /\ Len(e) = Len(s) /\ Len(bytes) = EndOf(e, Len(s))
    /\ \A n \in 1..Len(s) :
          /\ EndOf(e, n) = EndOf(e, n - 1) + Width(s[n])
          /\ \A i \in 1..Width(s[n]) : bytes[EndOf(e, n - 1) + i] = Write(s[n], n)[i]
    /\ \A j, k \in 0..Len(s) : j < k => EndOf(e, j) < EndOf(e, k)

\* What has been handled is the first n messages but the unreadable ones; all
\* of them if no header has failed.
HandledOK(h, s, n, fl) ==
    /\ ~fl => Len(h) = n
    /\ \E which \in [1..Len(h) -> 1..n] :
          /\ \A i \in 1..Len(h) : h[i] = Expected(s[which[i]], which[i])
          /\ \A i, j \in 1..Len(h) : i < j => which[i] < which[j]
          /\ \A k \in 1..n : s[k].type # "unreadable" => \E j \in 1..Len(h) : which[j] = k

\* An end is a number.
LEMMA EndType ==
    ASSUME NEW e \in Seq(Nat), NEW n \in 0..Len(e) PROVE EndOf(e, n) \in Nat
<1>1. Len(e) \in Nat
  BY LenProperties, SMTT(10)
<1> QED BY <1>1, SMTT(10) DEF EndOf

\* The same of bytes.
LEMMA ConcatBytes ==
    ASSUME NEW t \in Seq(Byte), NEW d \in Seq(Byte)
    PROVE  /\ t \o d \in Seq(Byte) /\ Len(t \o d) = Len(t) + Len(d)
           /\ \A i \in 1..Len(t) : (t \o d)[i] = t[i]
           /\ \A i \in 1..Len(d) : (t \o d)[Len(t) + i] = d[i]
BY ConcatParts, SMTT(10)

\* What message m has added.
Grown(s, bytes, e, m, t, f) ==
    /\ t \in Seq(Byte) /\ f \in Seq(Nat) /\ Len(bytes) <= Len(t)
    /\ StreamOK(Append(s, m), t, f)
    /\ \A n \in 0..Len(s) : EndOf(f, n) = EndOf(e, n)
    /\ \A i \in 1..Len(bytes) : t[i] = bytes[i]

\* A message is written behind the others.
LEMMA StreamGrows ==
    ASSUME NEW s \in Seq(Shapes), NEW bytes \in Seq(Byte), NEW e \in Seq(Nat),
           StreamOK(s, bytes, e), NEW m \in Shapes, NEW w \in Seq(Byte),
           Len(w) = Width(m), Width(m) \in Nat, Width(m) > 0,
           \A i \in 1..Width(m) : w[i] = Write(m, Len(s) + 1)[i]
    PROVE  Grown(s, bytes, e, m, bytes \o w, Append(e, Len(bytes \o w)))
<1> DEFINE t == bytes \o w
           f == Append(e, Len(t))
           r == Append(s, m)
<1>1. Len(s) \in Nat /\ Len(bytes) \in Nat /\ Len(e) = Len(s) /\ Len(bytes) = EndOf(e, Len(s))
  BY LenProperties, SMTT(10) DEF StreamOK
<1>2. t \in Seq(Byte) /\ Len(t) = Len(bytes) + Width(m)
      /\ \A i \in 1..Len(bytes) : t[i] = bytes[i]
  <2>1. t \in Seq(Byte)
    BY ConcatParts, SMTT(10)
  <2>2. Len(t) = Len(bytes) + Len(w)
    BY ConcatBytes, Zenon
  <2>3. \A i \in 1..Len(bytes) : t[i] = bytes[i]
    BY ConcatParts, SMTT(10)
  <2> QED BY <2>1, <2>2, <2>3, Zenon
<1>3. \A i \in 1..Width(m) : t[Len(bytes) + i] = w[i]
  BY ConcatParts, SMTT(10)
<1> HIDE DEF t
<1>4. /\ f \in Seq(Nat) /\ Len(f) = Len(s) + 1 /\ f[Len(s) + 1] = Len(t)
      /\ \A n \in 1..Len(s) : f[n] = e[n]
  BY <1>1, <1>2, SMTT(10)
<1>5. Len(r) = Len(s) + 1 /\ r[Len(s) + 1] = m /\ \A n \in 1..Len(s) : r[n] = s[n]
  BY <1>1, SMTT(10)
<1> HIDE DEF f, r
<1>6. \A n \in 0..Len(s) : EndOf(f, n) = EndOf(e, n) /\ EndOf(f, n) \in Nat
  <2>1. \A n \in 0..Len(s) : EndOf(e, n) \in Nat
    BY <1>1, EndType, Zenon
  <2> QED BY <1>1, <1>4, <2>1, SMTT(10) DEF EndOf
<1>7. EndOf(f, Len(s) + 1) = Len(bytes) + Width(m)
  BY <1>1, <1>2, <1>4, SMTT(10) DEF EndOf
<1>8. Len(f) = Len(r) /\ Len(t) = EndOf(f, Len(r))
  BY <1>2, <1>4, <1>5, <1>7, SMTT(10)
<1>9. ASSUME NEW n \in 1..Len(r)
      PROVE  /\ EndOf(f, n) = EndOf(f, n - 1) + Width(r[n])
             /\ \A i \in 1..Width(r[n]) : t[EndOf(f, n - 1) + i] = Write(r[n], n)[i]
  <2>1. CASE n = Len(s) + 1
    <3>1. n - 1 = Len(s) /\ Len(s) \in 0..Len(s) /\ r[n] = m
      BY <1>1, <1>5, <2>1, SMTT(10)
    <3>2. EndOf(f, n - 1) = Len(bytes)
      BY <1>1, <1>6, <3>1, Zenon
    <3> QED BY <1>3, <1>7, <2>1, <3>1, <3>2, Zenon
  <2>2. CASE n # Len(s) + 1
    <3>1. n \in 1..Len(s) /\ n \in 0..Len(s) /\ n - 1 \in 0..Len(s) /\ r[n] = s[n]
      <4>1. n \in 1..(Len(s) + 1)
        BY <1>5, Zenon
      <4>2. n \in 1..Len(s) /\ n \in 0..Len(s) /\ n - 1 \in 0..Len(s)
        BY <1>1, <2>2, <4>1, SMTT(10)
      <4> QED BY <1>5, <4>2, Zenon
    <3>2. /\ EndOf(e, n) = EndOf(e, n - 1) + Width(s[n])
          /\ \A i \in 1..Width(s[n]) : bytes[EndOf(e, n - 1) + i] = Write(s[n], n)[i]
      BY <3>1, Zenon DEF StreamOK
    <3>3. EndOf(f, n) = EndOf(e, n) /\ EndOf(f, n - 1) = EndOf(e, n - 1)
      BY <1>6, <3>1, Zenon
    <3>4. ASSUME NEW i \in 1..Width(s[n])
          PROVE  t[EndOf(e, n - 1) + i] = bytes[EndOf(e, n - 1) + i]
      <4>1. EndOf(e, n) <= Len(bytes)
        <5>1. n = Len(s) \/ (n < Len(s) /\ Len(s) \in 0..Len(s))
          BY <1>1, <3>1, SMTT(10)
        <5>2. n < Len(s) => EndOf(e, n) < EndOf(e, Len(s))
          BY <3>1, <5>1, Zenon DEF StreamOK
        <5>3. EndOf(e, n) \in Nat
          BY <1>6, <3>1, Zenon
        <5> QED BY <1>1, <5>1, <5>2, <5>3, SMTT(10)
      <4>2. s[n] \in Shapes
        BY <1>1, <3>1, SMTT(10)
      <4>3. Width(s[n]) \in Nat
        BY <3>1, <4>2, WriteBytes, Zenon, <1>1
      <4>4. EndOf(e, n - 1) \in Nat
        BY <1>6, <3>1, <3>3, Zenon
      <4>5. EndOf(e, n - 1) + i \in 1..Len(bytes)
        BY <1>1, <3>2, <4>1, <4>3, <4>4, SMTT(10)
      <4> QED BY <1>2, <4>5, Zenon
    <3> QED BY <3>1, <3>2, <3>3, <3>4, Zenon
  <2> QED BY <2>1, <2>2, Zenon
<1>10. ASSUME NEW j \in 0..Len(r), NEW k \in 0..Len(r), j < k
       PROVE  EndOf(f, j) < EndOf(f, k)
  <2>1. j \in 0..Len(s)
    BY <1>1, <1>5, <1>10, SMTT(10)
  <2>2. CASE k = Len(s) + 1
    <3>1. j = Len(s) \/ (j < Len(s) /\ Len(s) \in 0..Len(s))
      BY <1>1, <2>1, SMTT(10)
    <3>2. j < Len(s) => EndOf(e, j) < EndOf(e, Len(s))
      BY <2>1, <3>1, Zenon DEF StreamOK
    <3>3. EndOf(f, j) = EndOf(e, j) /\ EndOf(f, j) \in Nat
      BY <1>6, <2>1, Zenon
    <3> QED BY <1>1, <1>7, <2>2, <3>1, <3>2, <3>3, SMTT(10)
  <2>3. CASE k # Len(s) + 1
    <3>1. k \in 0..Len(s)
      BY <1>1, <1>5, <2>3, SMTT(10)
    <3>2. EndOf(e, j) < EndOf(e, k)
      BY <1>10, <2>1, <3>1, Zenon DEF StreamOK
    <3> QED BY <1>6, <2>1, <3>1, <3>2, Zenon
  <2> QED BY <2>2, <2>3, Zenon
<1>11. StreamOK(r, t, f)
  BY <1>8, <1>9, <1>10, Zenon DEF StreamOK
<1>12. Len(bytes) <= Len(t)
  BY <1>1, <1>2, SMTT(10)
<1>13. StreamOK(Append(s, m), t, f)
  BY <1>11, Zenon DEF r
<1>14. Grown(s, bytes, e, m, t, f)
  BY <1>2, <1>4, <1>6, <1>12, <1>13, Zenon DEF Grown
<1> QED BY <1>14, Zenon DEF t, f

\* So does every message of a peer.
LEMMA WriteGrows ==
    ASSUME NEW s \in Seq(Shapes), NEW bytes \in Seq(Byte), NEW e \in Seq(Nat),
           StreamOK(s, bytes, e), NEW m \in Shapes, Len(s) \in Nat
    PROVE  LET t == bytes \o Write(m, Len(s) + 1)
           IN  Grown(s, bytes, e, m, t, Append(e, Len(t)))
<1> DEFINE w == Write(m, Len(s) + 1)
<1>1. Len(s) + 1 \in Nat
  BY SMTT(10)
<1>2. w \in Seq(Byte) /\ Len(w) = Width(m) /\ Width(m) \in Nat /\ Width(m) > 0
  BY <1>1, WriteBytes, Zenon
<1>3. \A i \in 1..Width(m) : w[i] = Write(m, Len(s) + 1)[i]
  BY Zenon
<1> HIDE DEF w
<1>4. Grown(s, bytes, e, m, bytes \o w, Append(e, Len(bytes \o w)))
  BY <1>2, <1>3, StreamGrows, Zenon
<1> QED BY <1>4, Zenon DEF w

\* What has been handled stays so when one more is sent.
LEMMA HandledSend ==
    ASSUME NEW s \in Seq(Shapes), NEW m \in Shapes, NEW h, Len(h) \in Nat,
           NEW n \in 0..Len(s), NEW fl, HandledOK(h, s, n, fl)
    PROVE  HandledOK(h, Append(s, m), n, fl)
<1> DEFINE r == Append(s, m)
<1>1. Len(s) \in Nat
  BY LenProperties, SMTT(10)
<1>2. \A k \in 1..Len(s) : r[k] = s[k]
  BY <1>1, SMTT(10)
<1> HIDE DEF r
<1>3. \A k \in 1..n : k \in 1..Len(s)
  BY <1>1, SMTT(10)
<1>4. \A k \in 1..n : r[k] = s[k]
  BY <1>2, <1>3, Zenon
<1>5. HandledOK(h, r, n, fl)
  <2>1. PICK which \in [1..Len(h) -> 1..n] :
          /\ \A i \in 1..Len(h) : h[i] = Expected(s[which[i]], which[i])
          /\ \A i, j \in 1..Len(h) : i < j => which[i] < which[j]
          /\ \A k \in 1..n : s[k].type # "unreadable" => \E j \in 1..Len(h) : which[j] = k
    BY Zenon DEF HandledOK
  <2>2. \A i \in 1..Len(h) : which[i] \in 1..n
    BY <2>1, Zenon
  <2>3. \A i \in 1..Len(h) : h[i] = Expected(r[which[i]], which[i])
    BY <1>4, <2>1, <2>2, Zenon
  <2>4. \A k \in 1..n : r[k].type # "unreadable" => \E j \in 1..Len(h) : which[j] = k
    BY <1>4, <2>1, Zenon
  <2>5. ~fl => Len(h) = n
    BY Zenon DEF HandledOK
  <2> QED BY <2>1, <2>3, <2>4, <2>5, Zenon DEF HandledOK
<1> QED BY <1>5, Zenon DEF r

\* After a failure less is said.
LEMMA HandledFail ==
    ASSUME NEW s, NEW h, NEW n, NEW fl, HandledOK(h, s, n, fl), NEW fm, fl => fm
    PROVE  HandledOK(h, s, n, fm)
BY Zenon DEF HandledOK

\* An unreadable message is skipped.
LEMMA HandledSkip ==
    ASSUME NEW s \in Seq(Shapes), NEW h, Len(h) \in Nat, NEW n \in Nat, NEW fl,
           HandledOK(h, s, n, fl), s[n + 1].type = "unreadable"
    PROVE  HandledOK(h, s, n + 1, TRUE)
<1>1. PICK which \in [1..Len(h) -> 1..n] :
        /\ \A i \in 1..Len(h) : h[i] = Expected(s[which[i]], which[i])
        /\ \A i, j \in 1..Len(h) : i < j => which[i] < which[j]
        /\ \A k \in 1..n : s[k].type # "unreadable" => \E j \in 1..Len(h) : which[j] = k
  BY Zenon DEF HandledOK
<1>2. \A k \in 1..(n + 1) : k \in 1..n \/ k = n + 1
  BY SMTT(10)
<1>3. \A k \in 1..n : k \in 1..(n + 1)
  BY SMTT(10)
<1>4. which \in [1..Len(h) -> 1..(n + 1)]
  BY <1>3, Zenon
<1>5. \A k \in 1..(n + 1) : s[k].type # "unreadable" => \E j \in 1..Len(h) : which[j] = k
  BY <1>1, <1>2, Zenon
<1> QED BY <1>1, <1>4, <1>5, Zenon DEF HandledOK

\* The next message is handled.
LEMMA HandledOne ==
    ASSUME NEW s \in Seq(Shapes), NEW h, NEW n \in Nat, NEW fl, HandledOK(h, s, n, fl),
           NEW g, Len(h) \in Nat, Len(g) = Len(h) + 1, \A i \in 1..Len(h) : g[i] = h[i],
           g[Len(h) + 1] = Expected(s[n + 1], n + 1)
    PROVE  HandledOK(g, s, n + 1, fl)
<1>1. PICK which \in [1..Len(h) -> 1..n] :
        /\ \A i \in 1..Len(h) : h[i] = Expected(s[which[i]], which[i])
        /\ \A i, j \in 1..Len(h) : i < j => which[i] < which[j]
        /\ \A k \in 1..n : s[k].type # "unreadable" => \E j \in 1..Len(h) : which[j] = k
  BY Zenon DEF HandledOK
<1> DEFINE now == [i \in 1..Len(g) |-> IF i = Len(g) THEN n + 1 ELSE which[i]]
<1>2. \A k \in 1..(n + 1) : k \in 1..n \/ k = n + 1
  BY SMTT(10)
<1>3. \A k \in 1..n : k \in 1..(n + 1) /\ k < n + 1
  BY SMTT(10)
<1>4. /\ \A i \in 1..Len(g) : i \in 1..Len(h) \/ i = Len(g)
      /\ \A i \in 1..Len(h) : i \in 1..Len(g) /\ i # Len(g)
      /\ Len(g) \in 1..Len(g) /\ n + 1 \in 1..(n + 1)
  BY SMTT(10)
<1>5. \A i \in 1..Len(h) : now[i] = which[i] /\ which[i] \in 1..n
  BY <1>1, <1>4, Zenon
<1>6. now[Len(g)] = n + 1
  BY <1>4, Zenon
<1>7. now \in [1..Len(g) -> 1..(n + 1)]
  BY <1>1, <1>3, <1>4, <1>5, Zenon
<1> HIDE DEF now
<1>8. ASSUME NEW i \in 1..Len(g) PROVE g[i] = Expected(s[now[i]], now[i])
  BY <1>1, <1>4, <1>5, <1>6, Zenon
<1>9. ASSUME NEW i \in 1..Len(g), NEW j \in 1..Len(g), i < j PROVE now[i] < now[j]
  <2>1. i \in 1..Len(h)
    BY <1>9, SMTT(10)
  <2> QED BY <1>1, <1>3, <1>4, <1>5, <1>6, <1>9, <2>1, Zenon
<1>10. ASSUME NEW k \in 1..(n + 1), s[k].type # "unreadable"
       PROVE  \E j \in 1..Len(g) : now[j] = k
  BY <1>1, <1>2, <1>4, <1>5, <1>6, <1>10, Zenon
<1>11. ~fl => Len(g) = n + 1
  BY SMTT(10) DEF HandledOK
<1> QED BY <1>7, <1>8, <1>9, <1>10, <1>11, Zenon DEF HandledOK

(***************************************************************************)
(* The inductive invariant                                                 *)
(***************************************************************************)

\* The buffer has the last of the bytes that have arrived.
Buffered(b, bytes, arr) ==
    /\ b \in Seq(Byte) /\ Len(b) <= arr /\ arr <= Len(bytes)
    /\ \A i \in 1..Len(b) : b[i] = bytes[(arr - Len(b)) + i]

\* Bytes pos and before are those of n messages, and these have been handled.
AtPlace(s, e, h, pos, fl, n) ==
    EndOf(e, n) = pos /\ HandledOK(h, s, n, fl)

\* A header that has been read is that of the message after the n-th; when the
\* callback returns, that message has not arrived.
Pending(s, e, arr, b, x, idle, n) ==
    /\ \/ x = NoContext
       \/ n < Len(s) /\ MayHave(x, b, s[n + 1].type, n + 1, Len(s[n + 1].data))
    /\ idle /\ n < Len(s) => arr < EndOf(e, n + 1)

\* Bytes of a connection that are in the buffer no longer.
Pos(c) == arrived[c] - (IF c = last THEN Len(buf) ELSE 0)

Place(c, n) == AtPlace(sent[c], ends[c], handled[c], Pos(c), failed, n)

PendingLast(n) ==
    Pending(sent[last], ends[last], arrived[last], buf, ctx, ~reading /\ ~failed, n)

Types ==
    /\ sent \in [Conns -> Seq(Shapes)] /\ stream \in [Conns -> Seq(Byte)]
    /\ ends \in [Conns -> Seq(Nat)] /\ arrived \in [Conns -> Nat]
    /\ reading \in BOOLEAN /\ failed \in BOOLEAN
    /\ last \in Conns /\ cut \subseteq Conns
    /\ handled \in [Conns -> Seq(MessageType)]

Streams ==
    \A c \in Conns :
        StreamOK(sent[c], stream[c], ends[c]) /\ arrived[c] <= Len(stream[c])

Places ==
    \A c \in Conns :
        \E n \in 0..Len(sent[c]) : Place(c, n) /\ (c = last => PendingLast(n))

IInv == Types /\ Streams /\ Buffered(buf, stream[last], arrived[last]) /\ Places

\* What is in the buffer after the n-th message is the next one.
LEMMA BufferedStarts ==
    ASSUME NEW s \in Seq(Shapes), NEW bytes \in Seq(Byte), NEW e \in Seq(Nat),
           StreamOK(s, bytes, e), NEW arr \in Nat, NEW b, Buffered(b, bytes, arr),
           NEW n \in Nat, n < Len(s), EndOf(e, n) = arr - Len(b)
    PROVE  Starts(b, Write(s[n + 1], n + 1))
<1>1. Len(s) \in Nat /\ b \in Seq(Byte) /\ Len(b) \in Nat
  BY LenProperties, SMTT(10) DEF Buffered
<1>2. n + 1 \in 1..Len(s) /\ n + 1 \in Nat /\ (n + 1) - 1 = n
  BY <1>1, SMTT(10)
<1>3. s[n + 1] \in Shapes
  BY <1>1, <1>2, SMTT(10)
<1>4. \A i \in 1..Width(s[n + 1]) : bytes[EndOf(e, n) + i] = Write(s[n + 1], n + 1)[i]
  <2>1. \A i \in 1..Width(s[n + 1]) :
           bytes[EndOf(e, (n + 1) - 1) + i] = Write(s[n + 1], n + 1)[i]
    BY <1>2, Zenon DEF StreamOK
  <2> QED BY <1>2, <2>1, Zenon
<1>5. Len(Write(s[n + 1], n + 1)) = Width(s[n + 1]) /\ Width(s[n + 1]) \in Nat
  BY <1>2, <1>3, WriteBytes, Zenon
<1>6. ASSUME NEW i \in 1..Len(b), i <= Len(Write(s[n + 1], n + 1))
      PROVE  b[i] = Write(s[n + 1], n + 1)[i]
  <2>1. i <= Width(s[n + 1])
    BY <1>5, <1>6, Zenon
  <2>2. i \in 1..Width(s[n + 1])
    BY <1>1, <1>5, <2>1, SMTT(10)
  <2>3. b[i] = bytes[EndOf(e, n) + i]
    BY Zenon DEF Buffered
  <2> QED BY <1>4, <2>2, <2>3, Zenon
<1> QED BY <1>1, <1>6, Zenon DEF Starts

\* Part of a sequence.
LEMMA Part ==
    ASSUME NEW b \in Seq(Byte), NEW j \in Nat, NEW k \in Nat, j <= k, k <= Len(b)
    PROVE  LET t == SubSeq(b, j + 1, k)
           IN  t \in Seq(Byte) /\ Len(t) = k - j /\ \A i \in 1..(k - j) : t[i] = b[j + i]
<1> DEFINE t == SubSeq(b, j + 1, k)
<1>1. t \in Seq(Byte) /\ Len(t) = k - j
  BY SubSeqProperties, LenProperties, SMTT(10)
<1>2. \A i \in 1..(k - j) : t[i] = b[j + i]
  BY SMTT(10)
<1> QED BY <1>1, <1>2, Zenon

\* A segment is added to the buffer.
LEMMA BufferedMore ==
    ASSUME NEW b, NEW bytes \in Seq(Byte), NEW arr \in Nat, Buffered(b, bytes, arr),
           NEW k \in Nat, arr + k <= Len(bytes)
    PROVE  LET t == b \o SubSeq(bytes, arr + 1, arr + k)
           IN  Buffered(t, bytes, arr + k) /\ Len(t) = Len(b) + k
<1> DEFINE g == SubSeq(bytes, arr + 1, arr + k)
           t == b \o g
<1>1. b \in Seq(Byte) /\ Len(b) \in Nat /\ Len(b) <= arr
  BY LenProperties, SMTT(10) DEF Buffered
<1>2. arr + k \in Nat /\ arr <= arr + k /\ (arr + k) - arr = k
  BY SMTT(10)
<1>3. g \in Seq(Byte) /\ Len(g) = k /\ \A i \in 1..k : g[i] = bytes[arr + i]
  <2>1. g \in Seq(Byte) /\ Len(g) = (arr + k) - arr
        /\ \A i \in 1..((arr + k) - arr) : g[i] = bytes[arr + i]
    BY <1>2, Part, Zenon
  <2> QED BY <1>2, <2>1, Zenon
<1> HIDE DEF g
<1>4. /\ t \in Seq(Byte) /\ Len(t) = Len(b) + Len(g)
      /\ \A i \in 1..Len(b) : t[i] = b[i]
      /\ \A i \in 1..Len(g) : t[Len(b) + i] = g[i]
  BY <1>1, <1>3, ConcatBytes, Zenon
<1> HIDE DEF t
<1>5. Len(t) = Len(b) + k /\ Len(t) <= arr + k
      /\ (arr + k) - Len(t) = arr - Len(b)
  BY <1>1, <1>3, <1>4, SMTT(10)
<1>6. ASSUME NEW i \in 1..Len(t) PROVE t[i] = bytes[((arr + k) - Len(t)) + i]
  <2>1. CASE i <= Len(b)
    <3>1. i \in 1..Len(b)
      BY <1>1, <1>5, <2>1, SMTT(10)
    <3> QED BY <1>4, <1>5, <3>1, Zenon DEF Buffered
  <2>2. CASE ~(i <= Len(b))
    <3>1. i - Len(b) \in 1..k /\ Len(b) + (i - Len(b)) = i
          /\ arr + (i - Len(b)) = (arr - Len(b)) + i
      BY <1>1, <1>5, <2>2, SMTT(10)
    <3>2. t[Len(b) + (i - Len(b))] = bytes[arr + (i - Len(b))]
      BY <1>3, <1>4, <3>1, Zenon
    <3> QED BY <1>5, <3>1, <3>2, Zenon
  <2> QED BY <2>1, <2>2, Zenon
<1>7. Buffered(t, bytes, arr + k)
  BY <1>4, <1>5, <1>6, Zenon DEF Buffered
<1> QED BY <1>5, <1>7, Zenon DEF t, g

\* Bytes are removed from the buffer.
LEMMA BufferedLess ==
    ASSUME NEW b, NEW bytes \in Seq(Byte), NEW arr \in Nat, Buffered(b, bytes, arr),
           NEW count \in Nat, count <= Len(b)
    PROVE  LET t == rtsp_buffer_remove_first_bytes(b, count)
           IN  Buffered(t, bytes, arr) /\ Len(t) = Len(b) - count
<1> DEFINE t == SubSeq(b, count + 1, Len(b))
<1>1. b \in Seq(Byte) /\ Len(b) \in Nat /\ Len(b) <= arr /\ arr <= Len(bytes)
      /\ Len(b) <= Len(b)
  BY LenProperties, SMTT(10) DEF Buffered
<1>2. t \in Seq(Byte) /\ Len(t) = Len(b) - count
      /\ \A i \in 1..(Len(b) - count) : t[i] = b[count + i]
  BY <1>1, Part, Zenon
<1> HIDE DEF t
<1>3. Len(t) <= arr
  BY <1>1, <1>2, SMTT(10)
<1>4. ASSUME NEW i \in 1..Len(t) PROVE t[i] = bytes[(arr - Len(t)) + i]
  <2>1. count + i \in 1..Len(b) /\ (arr - Len(b)) + (count + i) = (arr - Len(t)) + i
        /\ i \in 1..(Len(b) - count)
    BY <1>1, <1>2, SMTT(10)
  <2>2. b[count + i] = bytes[(arr - Len(b)) + (count + i)]
    BY <2>1, Zenon DEF Buffered
  <2> QED BY <1>2, <2>1, <2>2, Zenon
<1>5. Buffered(t, bytes, arr)
  BY <1>1, <1>2, <1>3, <1>4, Zenon DEF Buffered
<1> QED BY <1>2, <1>5, Zenon DEF t, rtsp_buffer_remove_first_bytes

\* The peer writes behind what is in the buffer.
LEMMA BufferedStays ==
    ASSUME NEW b, NEW bytes \in Seq(Byte), NEW arr \in Nat, Buffered(b, bytes, arr),
           NEW t \in Seq(Byte), Len(bytes) <= Len(t), \A i \in 1..Len(bytes) : t[i] = bytes[i]
    PROVE  Buffered(b, t, arr)
<1>1. b \in Seq(Byte) /\ Len(b) \in Nat /\ Len(b) <= arr /\ arr <= Len(bytes)
      /\ Len(bytes) \in Nat /\ Len(t) \in Nat
  BY LenProperties, SMTT(10) DEF Buffered
<1>2. arr <= Len(t)
  BY <1>1, SMTT(10)
<1>3. ASSUME NEW i \in 1..Len(b) PROVE b[i] = t[(arr - Len(b)) + i]
  <2>1. (arr - Len(b)) + i \in 1..Len(bytes)
    BY <1>1, SMTT(10)
  <2> QED BY <2>1, Zenon DEF Buffered
<1> QED BY <1>1, <1>2, <1>3, Zenon DEF Buffered

\* A message that is sent has not arrived.
LEMMA PendingGrows ==
    ASSUME NEW s \in Seq(Shapes), NEW bytes \in Seq(Byte), NEW e \in Seq(Nat),
           StreamOK(s, bytes, e), NEW m \in Shapes, NEW t, NEW f \in Seq(Nat),
           StreamOK(Append(s, m), t, f), \A k \in 0..Len(s) : EndOf(f, k) = EndOf(e, k),
           NEW arr \in Nat, arr <= Len(bytes), NEW b, NEW x, NEW idle,
           NEW n \in 0..Len(s), Pending(s, e, arr, b, x, idle, n)
    PROVE  Pending(Append(s, m), f, arr, b, x, idle, n)
<1> DEFINE r == Append(s, m)
<1>1. Len(s) \in Nat /\ Len(bytes) \in Nat /\ n \in Nat
  BY LenProperties, SMTT(10)
<1>2. Len(r) = Len(s) + 1 /\ \A k \in 1..Len(s) : r[k] = s[k]
  BY <1>1, SMTT(10)
<1> HIDE DEF r
<1>3. StreamOK(r, t, f)
  BY Zenon DEF r
<1>4. n < Len(s) => n < Len(r) /\ r[n + 1] = s[n + 1] /\ n + 1 \in 0..Len(s)
  BY <1>1, <1>2, SMTT(10)
<1>5. \/ x = NoContext
      \/ n < Len(r) /\ MayHave(x, b, r[n + 1].type, n + 1, Len(r[n + 1].data))
  BY <1>4, Zenon DEF Pending
<1>6. ASSUME idle, n < Len(r) PROVE arr < EndOf(f, n + 1)
  <2>1. CASE n < Len(s)
    BY <1>4, <1>6, <2>1, Zenon DEF Pending
  <2>2. CASE ~(n < Len(s))
    <3>1. n = Len(s) /\ n \in 0..Len(r) /\ n + 1 \in 0..Len(r) /\ n < n + 1
      BY <1>1, <1>2, <2>2, SMTT(10)
    <3>2. EndOf(f, n) < EndOf(f, n + 1)
      BY <1>3, <3>1, Zenon DEF StreamOK
    <3>3. EndOf(f, n) = Len(bytes)
      BY <3>1, Zenon DEF StreamOK
    <3>4. EndOf(f, n + 1) \in Nat
      <4>1. Len(f) = Len(r)
        BY <1>3, Zenon DEF StreamOK
      <4> QED BY <3>1, <4>1, EndType, Zenon
    <3>5. Len(bytes) < EndOf(f, n + 1)
      BY <3>2, <3>3, Zenon
    <3> QED BY <1>1, <3>4, <3>5, SMTT(10)
  <2> QED BY <2>1, <2>2, Zenon
<1>7. Pending(r, f, arr, b, x, idle, n)
  BY <1>5, <1>6, Zenon DEF Pending
<1> QED BY <1>7, Zenon DEF r

\* What the conjuncts say of one connection.
LEMMA TypesOf ==
    ASSUME Types, NEW c \in Conns
    PROVE  /\ sent[c] \in Seq(Shapes) /\ stream[c] \in Seq(Byte) /\ ends[c] \in Seq(Nat)
           /\ arrived[c] \in Nat /\ handled[c] \in Seq(MessageType)
           /\ Len(sent[c]) \in Nat /\ Len(stream[c]) \in Nat /\ Len(handled[c]) \in Nat
<1>1. /\ sent[c] \in Seq(Shapes) /\ stream[c] \in Seq(Byte) /\ ends[c] \in Seq(Nat)
      /\ arrived[c] \in Nat /\ handled[c] \in Seq(MessageType)
  BY Zenon DEF Types
<1> QED BY <1>1, LenProperties, Zenon

(***************************************************************************)
(* The steps                                                               *)
(***************************************************************************)

\* Nothing has been sent.
LEMMA Start == StreamOK(<< >>, << >>, << >>) /\ HandledOK(<< >>, << >>, 0, FALSE)
<1>1. Len(<< >>) = 0 /\ EndOf(<< >>, 0) = 0
  BY SMTT(10) DEF EndOf
<1>2. (\A i \in 1..0 : FALSE) /\ \A i \in 0..0 : i = 0
  BY SMTT(10)
<1>3. \A j, k \in 0..0 : ~(j < k)
  BY SMTT(10)
<1>4. [i \in 1..0 |-> 0] \in [1..0 -> 1..0]
  BY <1>2, Zenon
<1>5. StreamOK(<< >>, << >>, << >>)
  BY <1>1, <1>2, <1>3, Zenon DEF StreamOK
<1>6. HandledOK(<< >>, << >>, 0, FALSE)
  BY <1>1, <1>2, <1>4, Zenon DEF HandledOK
<1> QED BY <1>5, <1>6, Zenon

\* The invariant holds at the start.
LEMMA InitHolds == Init => IInv
<1> SUFFICES ASSUME Init PROVE IInv
  OBVIOUS
<1>0. /\ << >> \in Seq(Shapes) /\ << >> \in Seq(Byte) /\ << >> \in Seq(Nat)
      /\ << >> \in Seq(MessageType) /\ 0 \in Nat /\ FALSE \in BOOLEAN
  BY SMTT(10)
<1>1. Types
  BY <1>0, Zenon DEF Init, Types
<1>2. \A c \in Conns : /\ sent[c] = << >> /\ stream[c] = << >> /\ ends[c] = << >>
                       /\ arrived[c] = 0 /\ handled[c] = << >>
  BY Zenon DEF Init
<1>3. Len(<< >>) = 0 /\ 0 <= 0 /\ 0 - 0 = 0 /\ 0 \in 0..0 /\ ~(0 < 0)
      /\ \A i \in 1..0 : FALSE
  BY SMTT(10)
<1>4. Streams
  BY <1>2, <1>3, Start, Zenon DEF Streams
<1>5. last \in Conns /\ buf = << >> /\ ctx = NoContext /\ failed = FALSE
  BY Zenon DEF Init
<1>6. Buffered(buf, stream[last], arrived[last])
  BY <1>0, <1>2, <1>3, <1>5, Zenon DEF Buffered
<1>7. ASSUME NEW c \in Conns
      PROVE  \E n \in 0..Len(sent[c]) : Place(c, n) /\ (c = last => PendingLast(n))
  <2>1. Pos(c) = 0
    <3>1. Pos(c) = 0 - (IF c = last THEN 0 ELSE 0)
      BY <1>2, <1>3, <1>5, Zenon DEF Pos
    <3> QED BY <1>3, <3>1, Zenon
  <2>2. EndOf(ends[c], 0) = 0
    BY Zenon DEF EndOf
  <2>3. Place(c, 0)
    BY <1>2, <1>5, <2>1, <2>2, Start, Zenon DEF Place, AtPlace
  <2>4. PendingLast(0)
    BY <1>2, <1>3, <1>5, Zenon DEF PendingLast, Pending
  <2>5. 0 \in 0..Len(sent[c])
    BY <1>2, <1>3, Zenon
  <2> QED BY <2>3, <2>4, <2>5, Zenon
<1> QED BY <1>1, <1>4, <1>6, <1>7, Zenon DEF IInv, Places

\* A message is sent.
LEMMA SendHolds ==
    ASSUME IInv, NEW c \in Conns, NEW m \in Shapes, Send(c, m)
    PROVE  IInv'
<1> DEFINE s == sent[c]
           w == Write(m, Len(s) + 1)
           t == stream[c] \o w
           f == Append(ends[c], Len(t))
<1>1. Types /\ Streams /\ Places /\ Buffered(buf, stream[last], arrived[last]) /\ last \in Conns
  BY Zenon DEF IInv, Types
<1>2. /\ s \in Seq(Shapes) /\ stream[c] \in Seq(Byte) /\ ends[c] \in Seq(Nat)
      /\ arrived[c] \in Nat /\ Len(s) \in Nat /\ Len(stream[c]) \in Nat
      /\ handled[c] \in Seq(MessageType) /\ Len(handled[c]) \in Nat
  BY <1>1, TypesOf, Zenon
<1>5. StreamOK(s, stream[c], ends[c]) /\ arrived[c] <= Len(stream[c])
  BY <1>1, Zenon DEF Streams
<1>6. /\ t \in Seq(Byte) /\ f \in Seq(Nat) /\ Len(stream[c]) <= Len(t)
      /\ StreamOK(Append(s, m), t, f)
      /\ \A n \in 0..Len(s) : EndOf(f, n) = EndOf(ends[c], n)
      /\ \A i \in 1..Len(stream[c]) : t[i] = stream[c][i]
  <2>1. Grown(s, stream[c], ends[c], m, t, f)
    BY <1>2, <1>5, WriteGrows, Zenon
  <2> QED BY <2>1, Zenon DEF Grown
<1>7. Append(s, m) \in Seq(Shapes) /\ Len(Append(s, m)) = Len(s) + 1
  BY <1>2, AppendProperties, SMTT(10)
<1> HIDE DEF w
<1>8. /\ sent' = [sent EXCEPT ![c] = Append(s, m)]
      /\ stream' = [stream EXCEPT ![c] = t]
      /\ UNCHANGED <<arrived, buf, ctx, reading, last, handled, failed, cut>>
  BY Zenon DEF Send, w
<1>9. stream'[c] = t
  BY <1>1, <1>8, Zenon DEF Types
<1>10. ends' = [ends EXCEPT ![c] = f]
  BY <1>9, Zenon DEF Send
<1>11. sent'[c] = Append(s, m) /\ ends'[c] = f
  BY <1>1, <1>8, <1>10, Zenon DEF Types
<1>12. ASSUME NEW d \in Conns, d # c
       PROVE  sent'[d] = sent[d] /\ stream'[d] = stream[d] /\ ends'[d] = ends[d]
  BY <1>1, <1>8, <1>10, <1>12, Zenon DEF Types
<1>13. Types'
  <2>1. sent' \in [Conns -> Seq(Shapes)]
    BY <1>1, <1>7, <1>8, Zenon DEF Types
  <2>2. stream' \in [Conns -> Seq(Byte)]
    BY <1>1, <1>6, <1>8, Zenon DEF Types
  <2>3. ends' \in [Conns -> Seq(Nat)]
    BY <1>1, <1>6, <1>10, Zenon DEF Types
  <2> QED BY <1>1, <1>8, <2>1, <2>2, <2>3, Zenon DEF Types
<1> HIDE DEF t, f
<1>14. Streams'
  <2> SUFFICES ASSUME NEW d \in Conns
               PROVE  StreamOK(sent'[d], stream'[d], ends'[d]) /\ arrived'[d] <= Len(stream'[d])
    BY Zenon DEF Streams
  <2>1. CASE d = c
    <3>1. Len(t) \in Nat
      BY <1>6, LenProperties, Zenon
    <3>2. arrived[c] <= Len(t)
      BY <1>2, <1>5, <1>6, <3>1, SMTT(10)
    <3> QED BY <1>6, <1>8, <1>9, <1>11, <2>1, <3>2, Zenon
  <2>2. CASE d # c
    BY <1>1, <1>8, <1>12, <2>2, Zenon DEF Streams
  <2> QED BY <2>1, <2>2, Zenon
<1>15. Buffered(buf, stream[last], arrived[last])'
  <2>1. CASE last = c
    <3>1. Buffered(buf, t, arrived[c])
      BY <1>1, <1>2, <1>6, <2>1, BufferedStays, Zenon
    <3> QED BY <1>8, <1>9, <2>1, <3>1, Zenon
  <2>2. CASE last # c
    <3>1. stream'[last] = stream[last]
      BY <1>1, <1>12, <2>2, Zenon
    <3> QED BY <1>1, <1>8, <3>1, Zenon
  <2> QED BY <2>1, <2>2, Zenon
<1>16. Places'
  <2> SUFFICES ASSUME NEW d \in Conns
               PROVE  \E n \in 0..Len(sent'[d]) : Place(d, n)' /\ (d = last' => PendingLast(n)')
    BY Zenon DEF Places
  <2>1. PICK n \in 0..Len(sent[d]) : Place(d, n) /\ (d = last => PendingLast(n))
    BY <1>1, Zenon DEF Places
  <2>2. Pos(d)' = Pos(d)
    BY <1>8, Zenon DEF Pos
  <2>3. CASE d = c
    <3>1. n \in 0..Len(s)
      BY <2>1, <2>3, Zenon
    <3>2. n \in 0..Len(sent'[c])
      <4>1. n \in 0..(Len(s) + 1)
        BY <1>2, <3>1, SMTT(10)
      <4> QED BY <1>7, <1>11, <4>1, Zenon
    <3>3. HandledOK(handled[c], Append(s, m), n, failed)
      BY <1>2, <2>1, <2>3, <3>1, HandledSend, Zenon DEF Place, AtPlace
    <3>4. EndOf(f, n) = Pos(c)
      BY <1>6, <2>1, <2>3, <3>1, Zenon DEF Place, AtPlace
    <3>5. Place(c, n)'
      BY <1>8, <1>11, <2>2, <2>3, <3>3, <3>4, Zenon DEF Place, AtPlace
    <3>6. ASSUME c = last PROVE PendingLast(n)'
      <4>1. Pending(s, ends[c], arrived[c], buf, ctx, ~reading /\ ~failed, n)
        BY <2>1, <2>3, <3>6, Zenon DEF PendingLast
      <4>2. Pending(Append(s, m), f, arrived[c], buf, ctx, ~reading /\ ~failed, n)
        BY <1>2, <1>5, <1>6, <3>1, <4>1, PendingGrows, Zenon
      <4> QED BY <1>8, <1>11, <3>6, <4>2, Zenon DEF PendingLast
    <3> QED BY <1>8, <2>3, <3>2, <3>5, <3>6, Zenon
  <2>4. CASE d # c
    <3>1. sent'[d] = sent[d] /\ ends'[d] = ends[d] /\ handled' = handled /\ failed' = failed
      BY <1>8, <1>12, <2>4, Zenon
    <3>2. Place(d, n)'
      BY <2>1, <2>2, <3>1, Zenon DEF Place
    <3>3. ASSUME d = last PROVE PendingLast(n)'
      <4>1. PendingLast(n)
        BY <2>1, <3>3, Zenon
      <4>2. sent'[last'] = sent[last] /\ ends'[last'] = ends[last]
            /\ arrived'[last'] = arrived[last]
        BY <1>8, <3>1, <3>3, Zenon
      <4> QED BY <1>8, <4>1, <4>2, Zenon DEF PendingLast
    <3> QED BY <1>8, <2>1, <3>1, <3>2, <3>3, Zenon
  <2> QED BY <2>3, <2>4, Zenon
<1> QED BY <1>13, <1>14, <1>15, <1>16, Zenon DEF IInv

\* With an empty buffer there is no context.
LEMMA EmptyHasNone ==
    ASSUME IInv, buf = << >> PROVE ctx = NoContext
<1>1. last \in Conns
  BY Zenon DEF IInv, Types
<1>2. PICK n \in 0..Len(sent[last]) : PendingLast(n)
  BY <1>1, Zenon DEF IInv, Places
<1>3. ~(7 <= Len(buf))
  BY SMTT(10)
<1> QED BY <1>2, <1>3, Zenon DEF PendingLast, Pending, MayHave

\* A segment arrives.
LEMMA SegmentHolds ==
    ASSUME Apart, IInv, NEW c \in Conns, NEW k \in 1..MaxSegment, Segment(c, k)
    PROVE  IInv'
<1> DEFINE t == buf \o SubSeq(stream[c], arrived[c] + 1, arrived[c] + k)
<1>1. Types /\ Streams /\ Places /\ Buffered(buf, stream[last], arrived[last]) /\ last \in Conns
  BY Zenon DEF IInv, Types
<1>2. stream[c] \in Seq(Byte) /\ arrived[c] \in Nat /\ Len(stream[c]) \in Nat
  BY <1>1, TypesOf, Zenon
<1>3. k \in Nat
  BY FramingAssumption, SMTT(10)
<1>4. (c = last \/ buf = << >>) /\ arrived[c] + k <= Len(stream[c])
  BY Zenon DEF Segment, Apart
<1>5. /\ buf' = t /\ arrived' = [arrived EXCEPT ![c] = @ + k] /\ last' = c /\ reading' = TRUE
      /\ sent' = sent /\ stream' = stream /\ ends' = ends
      /\ UNCHANGED <<ctx, handled, failed, cut>>
  BY Zenon DEF Segment, peerVars
<1>6. Len(buf) \in Nat /\ buf \in Seq(Byte)
  BY <1>1, LenProperties, Zenon DEF Buffered
<1>7. buf = << >> => Len(buf) = 0
  BY SMTT(10)
<1>8. Buffered(buf, stream[c], arrived[c])
  <2>1. CASE c = last
    BY <1>1, <2>1, Zenon
  <2>2. CASE buf = << >>
    <3>1. Len(buf) = 0
      BY <1>7, <2>2, Zenon
    <3>2. Len(buf) <= arrived[c] /\ \A i \in 1..Len(buf) : FALSE
      BY <1>2, <3>1, SMTT(10)
    <3>3. arrived[c] <= Len(stream[c])
      BY <1>1, Zenon DEF Streams
    <3> QED BY <1>6, <3>2, <3>3, Zenon DEF Buffered
  <2> QED BY <1>4, <2>1, <2>2, Zenon
<1>9. Buffered(t, stream[c], arrived[c] + k) /\ Len(t) = Len(buf) + k
  BY <1>2, <1>3, <1>4, <1>8, BufferedMore, Zenon
<1> HIDE DEF t
<1>10. arrived'[c] = arrived[c] + k
  BY <1>1, <1>5, Zenon DEF Types
<1>11. \A d \in Conns : d # c => arrived'[d] = arrived[d]
  BY <1>1, <1>5, Zenon DEF Types
<1>12. arrived[c] + k \in Nat
  BY <1>2, <1>3, SMTT(10)
<1>13. Types'
  <2>1. arrived' \in [Conns -> Nat]
    BY <1>1, <1>5, <1>12, Zenon DEF Types
  <2> QED BY <1>1, <1>5, <2>1, Zenon DEF Types
<1>14. Streams'
  <2> SUFFICES ASSUME NEW d \in Conns
               PROVE  StreamOK(sent'[d], stream'[d], ends'[d]) /\ arrived'[d] <= Len(stream'[d])
    BY Zenon DEF Streams
  <2>1. StreamOK(sent'[d], stream'[d], ends'[d])
    BY <1>1, <1>5, Zenon DEF Streams
  <2>2. arrived'[d] <= Len(stream'[d])
    BY <1>1, <1>4, <1>5, <1>10, <1>11, Zenon DEF Streams
  <2> QED BY <2>1, <2>2, Zenon
<1>15. Buffered(buf, stream[last], arrived[last])'
  BY <1>5, <1>9, <1>10, Zenon
<1>16. ASSUME NEW d \in Conns PROVE Pos(d)' = Pos(d)
  <2>0. arrived[d] \in Nat
    BY <1>1, TypesOf, Zenon
  <2>1. CASE d = c
    <3>1. Pos(d)' = (arrived[c] + k) - Len(t)
      BY <1>5, <1>10, <2>1, Zenon DEF Pos
    <3>2. (arrived[c] + k) - Len(t) = arrived[c] - Len(buf)
      BY <1>2, <1>3, <1>6, <1>9, SMTT(10)
    <3>3. CASE c = last
      BY <2>1, <3>1, <3>2, <3>3, Zenon DEF Pos
    <3>4. CASE c # last
      <4>1. Len(buf) = 0
        BY <1>4, <1>7, <3>4, Zenon
      <4>2. arrived[c] - Len(buf) = arrived[c] - 0
        BY <4>1, Zenon
      <4> QED BY <2>1, <3>1, <3>2, <3>4, <4>2, Zenon DEF Pos
    <3> QED BY <3>3, <3>4, Zenon
  <2>2. CASE d # c
    <3>1. Pos(d)' = arrived[d] - 0
      BY <1>5, <1>11, <2>2, Zenon DEF Pos
    <3>2. CASE d = last
      <4>1. Len(buf) = 0
        BY <1>4, <1>7, <2>2, <3>2, Zenon
      <4> QED BY <3>1, <3>2, <4>1, Zenon DEF Pos
    <3>3. CASE d # last
      BY <3>1, <3>3, Zenon DEF Pos
    <3> QED BY <3>2, <3>3, Zenon
  <2> QED BY <2>1, <2>2, Zenon
<1>17. Places'
  <2> SUFFICES ASSUME NEW d \in Conns
               PROVE  \E n \in 0..Len(sent'[d]) : Place(d, n)' /\ (d = last' => PendingLast(n)')
    BY Zenon DEF Places
  <2>1. PICK n \in 0..Len(sent[d]) : Place(d, n) /\ (d = last => PendingLast(n))
    BY <1>1, Zenon DEF Places
  <2>2. Place(d, n)'
    BY <1>5, <1>16, <2>1, Zenon DEF Place
  <2>3. ASSUME d = last' PROVE PendingLast(n)'
    <3>1. d = c
      BY <1>5, <2>3, Zenon
    <3>2. \/ ctx = NoContext
          \/ n < Len(sent[c]) /\ MayHave(ctx, t, sent[c][n + 1].type, n + 1,
                                      Len(sent[c][n + 1].data))
      <4>1. CASE c = last
        <5>1. \/ ctx = NoContext
              \/ n < Len(sent[c]) /\ MayHave(ctx, buf, sent[c][n + 1].type, n + 1,
                                          Len(sent[c][n + 1].data))
          BY <2>1, <3>1, <4>1, Zenon DEF PendingLast, Pending
        <5>2. 7 <= Len(buf) => 7 <= Len(t)
          BY <1>3, <1>6, <1>9, SMTT(10)
        <5> QED BY <5>1, <5>2, Zenon DEF MayHave
      <4>2. CASE c # last
        BY <1>4, <4>2, EmptyHasNone, Zenon
      <4> QED BY <4>1, <4>2, Zenon
    <3> QED BY <1>5, <3>2, Zenon DEF PendingLast, Pending
  <2> QED BY <1>5, <2>1, <2>2, <2>3, Zenon
<1> QED BY <1>13, <1>14, <1>15, <1>17, Zenon DEF IInv

\* A connection closes; nothing moves.
LEMMA OtherHolds ==
    ASSUME IInv, UNCHANGED <<peerVars, arrived, buf, ctx, reading, last, handled, failed>>,
           cut' \subseteq Conns
    PROVE  IInv'
<1>1. Types'
  BY Zenon DEF IInv, Types, peerVars
<1>2. Streams'
  BY Zenon DEF IInv, Streams, peerVars
<1>3. Buffered(buf, stream[last], arrived[last])'
  BY Zenon DEF IInv, peerVars
<1>4. \A c \in Conns : \A n :
        (Place(c, n) <=> Place(c, n)') /\ (PendingLast(n) <=> PendingLast(n)')
  BY Zenon DEF Place, PendingLast, Pos, peerVars
<1>5. Places'
  BY <1>4, Zenon DEF IInv, Places, peerVars
<1> QED BY <1>1, <1>2, <1>3, <1>5, Zenon DEF IInv

\* What is handled is a message.
LEMMA ExpectedType ==
    ASSUME NEW m \in Shapes, m.type # "unreadable", NEW n \in Nat
    PROVE  Expected(m, n) \in MessageType
<1>1. m.type \in {"request", "response", "interleaved"}
      /\ m.channel \in Byte /\ m.data \in Seq(Byte)
  BY ShapeTypes, Zenon
<1>2. n % 10 \in Int /\ 0 \in Byte
  BY SMTT(10) DEF Byte
<1> QED BY <1>1, <1>2, SMTT(10) DEF Expected, MessageType

\* One message more.
LEMMA AppendParts ==
    ASSUME NEW S, NEW h \in Seq(S), NEW x \in S
    PROVE  /\ Append(h, x) \in Seq(S) /\ Len(Append(h, x)) = Len(h) + 1
           /\ \A i \in 1..Len(h) : Append(h, x)[i] = h[i]
           /\ Append(h, x)[Len(h) + 1] = x
<1>1. Len(h) \in Nat
  BY LenProperties
<1> QED BY <1>1, AppendProperties, SMTT(10)

\* Nothing is left of a stream whose messages have all been handled.
LEMMA AllRead ==
    ASSUME NEW s \in Seq(Shapes), NEW bytes \in Seq(Byte), NEW e, StreamOK(s, bytes, e),
           NEW arr \in Nat, NEW b, Buffered(b, bytes, arr), EndOf(e, Len(s)) = arr - Len(b)
    PROVE  b = << >>
<1>1. b \in Seq(Byte) /\ Len(b) \in Nat /\ Len(bytes) \in Nat /\ arr <= Len(bytes)
  BY LenProperties, SMTT(10) DEF Buffered
<1>2. Len(bytes) = arr - Len(b)
  BY Zenon DEF StreamOK
<1>3. Len(b) = 0
  BY <1>1, <1>2, SMTT(10)
<1> QED BY <1>1, <1>3, EmptySeq, Zenon

\* A call returns, with n messages handled before it: the next one is not there
\* yet, or it is removed.
Waited(r, s, e, arr, b, n) ==
    /\ r.ret = "EAGAIN" /\ r.total_len = 0
    /\ \/ r.ctx = NoContext
       \/ n < Len(s) /\ MayHave(r.ctx, b, s[n + 1].type, n + 1, Len(s[n + 1].data))
    /\ n < Len(s) => arr < EndOf(e, n + 1)

Taken(r, s, e, arr, b, n) ==
    /\ n < Len(s) /\ r.ctx = NoContext
    /\ r.total_len \in Nat /\ r.total_len <= Len(b)
    /\ EndOf(e, n + 1) = (arr - Len(b)) + r.total_len
    /\ IF s[n + 1].type = "unreadable" THEN r.ret = "EPROTO"
       ELSE r.ret = "OK" /\ r.msg = Expected(s[n + 1], n + 1)

\* rtsp_get_next_message() does one of the two.
LEMMA CallResult ==
    ASSUME Skippable, Recognised,
           NEW s \in Seq(Shapes), NEW bytes \in Seq(Byte), NEW e \in Seq(Nat),
           StreamOK(s, bytes, e), NEW arr \in Nat, NEW b, Buffered(b, bytes, arr),
           NEW n \in 0..Len(s), EndOf(e, n) = arr - Len(b), NEW x, NEW idle,
           Pending(s, e, arr, b, x, idle, n)
    PROVE  \/ Waited(rtsp_get_next_message(b, x), s, e, arr, b, n)
           \/ Taken(rtsp_get_next_message(b, x), s, e, arr, b, n)
<1> DEFINE r == rtsp_get_next_message(b, x)
<1>1. Len(s) \in Nat /\ n \in Nat /\ b \in Seq(Byte) /\ Len(b) \in Nat
  BY LenProperties, SMTT(10) DEF Buffered
<1>2. CASE n < Len(s)
  <2> DEFINE m == s[n + 1]
  <2>1. n + 1 \in 1..Len(s) /\ n + 1 \in Nat /\ (n + 1) - 1 = n
    BY <1>1, <1>2, SMTT(10)
  <2>2. m \in Shapes
    BY <1>1, <2>1, SMTT(10)
  <2>3. Starts(b, Write(m, n + 1))
    BY <1>1, <1>2, BufferedStarts, Zenon
  <2>4. MayHave(x, b, m.type, n + 1, Len(m.data))
    BY Zenon DEF Pending, MayHave
  <2>5. Reads(r, b, Width(m), m.type, TextContext(m.type, n + 1, Len(m.data)), Expected(m, n + 1))
    BY <2>1, <2>2, <2>3, <2>4, MessageParsed, Zenon
  <2>6. Width(m) \in Nat
    BY <2>1, <2>2, WriteBytes, Zenon
  <2>7. EndOf(e, n + 1) = EndOf(e, n) + Width(m)
    BY <2>1, Zenon DEF StreamOK
  <2>8. EndOf(e, n + 1) = (arr - Len(b)) + Width(m)
    BY <2>7, Zenon
  <2> HIDE DEF m, r
  <2>9. CASE Len(b) < Width(m)
    <3>1. /\ r.ret = "EAGAIN" /\ r.total_len = 0
          /\ MayHave(r.ctx, b, m.type, n + 1, Len(m.data))
      BY <2>5, <2>9, Zenon DEF Reads, MayHave
    <3>2. arr < EndOf(e, n + 1)
      BY <1>1, <2>6, <2>8, <2>9, SMTT(10)
    <3> QED BY <1>2, <3>1, <3>2, Zenon DEF Waited, m, r
  <2>10. CASE ~(Len(b) < Width(m))
    <3>1. /\ r.total_len = Width(m) /\ r.ctx = NoContext
          /\ IF m.type = "unreadable" THEN r.ret = "EPROTO"
             ELSE r.ret = "OK" /\ r.msg = Expected(m, n + 1)
      BY <2>5, <2>10, Zenon DEF Reads
    <3>2. Width(m) <= Len(b)
      BY <1>1, <2>6, <2>10, SMTT(10)
    <3>3. /\ r.total_len \in Nat /\ r.total_len <= Len(b)
          /\ EndOf(e, n + 1) = (arr - Len(b)) + r.total_len
      BY <2>6, <2>8, <3>1, <3>2, Zenon
    <3> QED BY <1>2, <3>1, <3>3, Zenon DEF Taken, m, r
  <2> QED BY <2>9, <2>10, Zenon
<1>3. CASE ~(n < Len(s))
  <2>1. n = Len(s)
    BY <1>1, <1>3, SMTT(10)
  <2>2. b = << >>
    BY <2>1, AllRead, Zenon
  <2>3. x = NoContext
    BY <1>3, Zenon DEF Pending
  <2>4. r = Result("EAGAIN", NoMessage, 0, NoContext)
    BY <2>2, <2>3, NothingParsed, Zenon
  <2> HIDE DEF r
  <2>5. r.ret = "EAGAIN" /\ r.total_len = 0 /\ r.ctx = NoContext
    BY <2>4, Zenon DEF Result
  <2> QED BY <1>3, <2>5, Zenon DEF Waited, r
<1> QED BY <1>2, <1>3, Zenon

\* The loop of the callback goes round once.
LEMMA NextMessageHolds ==
    ASSUME Skippable, Recognised, IInv, NextMessage
    PROVE  IInv'
<1> DEFINE r == rtsp_get_next_message(buf, ctx)
           c == last
           s == sent[c]
           e == ends[c]
<1>1. Types /\ Streams /\ Places /\ Buffered(buf, stream[c], arrived[c]) /\ c \in Conns
  BY Zenon DEF IInv, Types
<1>2. /\ s \in Seq(Shapes) /\ stream[c] \in Seq(Byte) /\ e \in Seq(Nat)
      /\ arrived[c] \in Nat /\ handled[c] \in Seq(MessageType)
      /\ Len(s) \in Nat /\ Len(handled[c]) \in Nat
  BY <1>1, TypesOf, Zenon
<1>3. PICK n \in 0..Len(s) : Place(c, n) /\ PendingLast(n)
  BY <1>1, Zenon DEF Places
<1>4. /\ EndOf(e, n) = arrived[c] - Len(buf)
      /\ HandledOK(handled[c], s, n, failed)
  BY <1>3, Zenon DEF Place, AtPlace, Pos
<1>5. n \in Nat /\ Len(buf) \in Nat /\ 0 \in Nat /\ 0 <= Len(buf)
  <2>1. Len(buf) \in Nat
    BY <1>1, LenProperties, Zenon DEF Buffered
  <2> QED BY <1>2, <2>1, SMTT(10)
<1>6. StreamOK(s, stream[c], e)
  BY <1>1, Zenon DEF Streams
<1>7. Pending(s, e, arrived[c], buf, ctx, ~reading /\ ~failed, n)
  BY <1>3, Zenon DEF PendingLast
<1>8. \/ Waited(r, s, e, arrived[c], buf, n)
      \/ Taken(r, s, e, arrived[c], buf, n)
  BY <1>1, <1>2, <1>4, <1>6, <1>7, CallResult, Zenon
<1>9. /\ buf' = rtsp_buffer_remove_first_bytes(buf, r.total_len) /\ ctx' = r.ctx
      /\ handled' = IF r.ret = "OK" THEN [handled EXCEPT ![c] = Append(@, r.msg)]
                    ELSE handled
      /\ reading' = (r.ret = "OK") /\ failed' = (failed \/ r.ret = "EPROTO")
      /\ last' = last /\ sent' = sent /\ stream' = stream /\ ends' = ends
      /\ arrived' = arrived /\ cut' = cut
  BY Zenon DEF NextMessage, peerVars
<1> HIDE DEF r
<1>10. reading' \in BOOLEAN /\ failed' \in BOOLEAN
  BY <1>9, Zenon
<1>11. failed => failed'
  BY <1>9, Zenon
<1>12. Streams'
  BY <1>1, <1>9, Zenon DEF Streams
<1>13. r.total_len \in Nat /\ r.total_len <= Len(buf)
  BY <1>5, <1>8, Zenon DEF Waited, Taken
<1>14. Buffered(buf', stream[c], arrived[c]) /\ Len(buf') = Len(buf) - r.total_len
  BY <1>1, <1>2, <1>9, <1>13, BufferedLess, Zenon
<1>15. Buffered(buf, stream[last], arrived[last])'
  BY <1>9, <1>14, Zenon
<1>16. \A d \in Conns : d # c => handled'[d] = handled[d]
  BY <1>1, <1>9, Zenon DEF Types
<1>17. ASSUME NEW d \in Conns, d # c
       PROVE  \E k \in 0..Len(sent'[d]) : Place(d, k)' /\ (d = last' => PendingLast(k)')
  <2>1. PICK k \in 0..Len(sent[d]) : Place(d, k)
    BY <1>1, Zenon DEF Places
  <2>2. Pos(d)' = Pos(d)
    BY <1>9, <1>17, Zenon DEF Pos
  <2>3. HandledOK(handled[d], sent[d], k, failed')
    BY <1>11, <2>1, HandledFail, Zenon DEF Place, AtPlace
  <2>4. Place(d, k)'
    BY <1>9, <1>16, <1>17, <2>1, <2>2, <2>3, Zenon DEF Place, AtPlace
  <2> QED BY <1>9, <1>17, <2>1, <2>4, Zenon
<1>18. Pos(c)' = (arrived[c] - Len(buf)) + r.total_len
  <2>1. Pos(c)' = arrived[c] - Len(buf')
    BY <1>9, Zenon DEF Pos
  <2>2. Len(buf') \in Nat
    BY <1>15, LenProperties, Zenon DEF Buffered
  <2> QED BY <1>2, <1>5, <1>13, <1>14, <2>1, <2>2, SMTT(10)
<1>19. CASE Waited(r, s, e, arrived[c], buf, n)
  <2>1. r.ret = "EAGAIN" /\ r.total_len = 0
    BY <1>19, Zenon DEF Waited
  <2>2. handled' = handled
    BY <1>9, <2>1, Zenon
  <2>3. Pos(c)' = arrived[c] - Len(buf) /\ Len(buf') = Len(buf)
    BY <1>2, <1>5, <1>14, <1>18, <2>1, SMTT(10)
  <2>4. HandledOK(handled[c], s, n, failed')
    BY <1>4, <1>11, HandledFail, Zenon
  <2>5. Place(c, n)'
    BY <1>4, <1>9, <2>2, <2>3, <2>4, Zenon DEF Place, AtPlace
  <2>6. \/ r.ctx = NoContext
        \/ n < Len(s) /\ MayHave(r.ctx, buf', s[n + 1].type, n + 1, Len(s[n + 1].data))
    BY <1>19, <2>3, Zenon DEF Waited, MayHave
  <2>7. n < Len(s) => arrived[c] < EndOf(e, n + 1)
    BY <1>19, Zenon DEF Waited
  <2>8. Pending(s, e, arrived[c], buf', ctx', ~reading' /\ ~failed', n)
    BY <1>9, <2>6, <2>7, Zenon DEF Pending
  <2>9. PendingLast(n)'
    BY <1>9, <2>8, Zenon DEF PendingLast
  <2>10. Places'
    BY <1>3, <1>9, <1>17, <2>5, <2>9, Zenon DEF Places
  <2>11. Types'
    BY <1>1, <1>9, <1>10, <2>2, Zenon DEF Types
  <2> QED BY <1>12, <1>15, <2>10, <2>11, Zenon DEF IInv
<1>20. CASE Taken(r, s, e, arrived[c], buf, n)
  <2>1. n < Len(s) /\ r.ctx = NoContext /\ Pos(c)' = EndOf(e, n + 1)
    BY <1>18, <1>20, Zenon DEF Taken
  <2>2. n + 1 \in 0..Len(s) /\ n + 1 \in 1..Len(s) /\ n + 1 \in Nat
    BY <1>2, <1>5, <2>1, SMTT(10)
  <2>3. s[n + 1] \in Shapes
    BY <1>2, <2>2, SMTT(10)
  <2>4. handled' \in [Conns -> Seq(MessageType)] /\ HandledOK(handled'[c], s, n + 1, failed')
        /\ (reading' \/ failed')
    <3>1. CASE s[n + 1].type = "unreadable"
      <4>1. r.ret = "EPROTO"
        BY <1>20, <3>1, Zenon DEF Taken
      <4>2. handled' = handled /\ failed' = TRUE
        BY <1>9, <4>1, Zenon
      <4>3. HandledOK(handled[c], s, n + 1, TRUE)
        BY <1>2, <1>4, <1>5, <3>1, HandledSkip, Zenon
      <4> QED BY <1>1, <4>2, <4>3, Zenon DEF Types
    <3>2. CASE s[n + 1].type # "unreadable"
      <4> DEFINE x == Expected(s[n + 1], n + 1)
                 g == Append(handled[c], x)
      <4>1. r.ret = "OK" /\ r.msg = x
        BY <1>20, <3>2, Zenon DEF Taken
      <4>2. x \in MessageType
        BY <2>2, <2>3, <3>2, ExpectedType, Zenon
      <4>3. handled' = [handled EXCEPT ![c] = g] /\ reading'
        BY <1>9, <4>1, Zenon
      <4> HIDE DEF x
      <4>4. /\ g \in Seq(MessageType) /\ Len(g) = Len(handled[c]) + 1
            /\ \A i \in 1..Len(handled[c]) : g[i] = handled[c][i]
            /\ g[Len(handled[c]) + 1] = x
        BY <1>2, <4>2, AppendParts, Zenon
      <4> HIDE DEF g
      <4>5. handled' \in [Conns -> Seq(MessageType)] /\ handled'[c] = g
        BY <1>1, <4>3, <4>4, Zenon DEF Types
      <4>6. HandledOK(g, s, n + 1, failed)
        <5>1. g[Len(handled[c]) + 1] = Expected(s[n + 1], n + 1)
          BY <4>4, Zenon DEF x
        <5> QED BY <1>2, <1>4, <1>5, <4>4, <5>1, HandledOne, Zenon
      <4>7. HandledOK(g, s, n + 1, failed')
        BY <1>11, <4>6, HandledFail, Zenon
      <4> QED BY <4>3, <4>5, <4>7, Zenon
    <3> QED BY <3>1, <3>2, Zenon
  <2>5. Place(c, n + 1)'
    BY <1>9, <2>1, <2>4, Zenon DEF Place, AtPlace
  <2>6. PendingLast(n + 1)'
    BY <1>9, <2>1, <2>4, Zenon DEF PendingLast, Pending
  <2>7. Places'
    BY <1>9, <1>17, <2>2, <2>5, <2>6, Zenon DEF Places
  <2>8. Types'
    BY <1>1, <1>9, <1>10, <2>4, Zenon DEF Types
  <2> QED BY <1>12, <1>15, <2>7, <2>8, Zenon DEF IInv
<1> QED BY <1>8, <1>19, <1>20, Zenon

\* No step leaves the invariant.
LEMMA StepHolds ==
    ASSUME Apart, Skippable, Recognised, IInv, [Next]_vars
    PROVE  IInv'
<1>0. cut \subseteq Conns
  BY Zenon DEF IInv, Types
<1>1. ASSUME NEW c \in Conns, NEW m \in Shapes, Send(c, m) PROVE IInv'
  BY <1>1, SendHolds, Zenon
<1>2. ASSUME NEW c \in Conns, NEW k \in 1..MaxSegment, Segment(c, k) PROVE IInv'
  BY <1>2, SegmentHolds, Zenon
<1>3. ASSUME NextMessage PROVE IInv'
  BY <1>3, NextMessageHolds, Zenon
<1>4. ASSUME NEW c \in Conns, Close(c) PROVE IInv'
  <2>1. cut' \subseteq Conns
    BY <1>0, <1>4, Zenon DEF Close
  <2> QED BY <1>4, <2>1, OtherHolds, Zenon DEF Close
<1>5. ASSUME UNCHANGED vars PROVE IInv'
  <2>1. cut' \subseteq Conns
    BY <1>0, <1>5, Zenon DEF vars
  <2> QED BY <1>5, <2>1, OtherHolds, Zenon DEF vars
<1> QED BY <1>1, <1>2, <1>3, <1>4, <1>5, Zenon DEF Next, Done

\* The invariant always holds.
LEMMA Invariance == ASSUME Apart, Skippable, Recognised PROVE Spec => []IInv
<1>1. Init => IInv
  BY InitHolds, Zenon
<1>2. IInv /\ [Next]_vars => IInv'
  BY StepHolds, Zenon
<1> QED BY <1>1, <1>2, PTL DEF Spec

(***************************************************************************)
(* The theorems                                                            *)
(***************************************************************************)

\* Types, and in particular: while the body of a message is missing its header
\* is in the buffer, so that get_body() never counts bytes that are gone.
THEOREM TypeTheorem ==
    ASSUME Apart, Skippable, Recognised PROVE Spec => []TypeOK
<1>0. \A l \in Nat : l < 10 => l \in Digits
  BY SMTT(10) DEF Digits
<1>1. IInv => TypeOK
  <2> SUFFICES ASSUME IInv PROVE TypeOK
    OBVIOUS
  <2>1. Types /\ Streams /\ buf \in Seq(Byte) /\ last \in Conns
    BY Zenon DEF IInv, Types, Buffered
  <2>2. ASSUME ctx # NoContext PROVE ctx \in ContextType /\ Len(buf) >= 7
    <3>1. PICK n \in 0..Len(sent[last]) : PendingLast(n)
      BY <2>1, Zenon DEF IInv, Places
    <3> DEFINE m == sent[last][n + 1]
    <3>2. n < Len(sent[last]) /\ MayHave(ctx, buf, m.type, n + 1, Len(m.data))
      BY <2>2, <3>1, Zenon DEF PendingLast, Pending
    <3>3. /\ m.type \in {"request", "response"} /\ 7 <= Len(buf)
          /\ ctx = TextContext(m.type, n + 1, Len(m.data))
      BY <2>2, <3>2, Zenon DEF MayHave
    <3>4. sent[last] \in Seq(Shapes) /\ Len(sent[last]) \in Nat
      BY <2>1, TypesOf, Zenon
    <3>5. m \in Shapes
      BY <3>2, <3>4, SMTT(10)
    <3> HIDE DEF m
    <3>6. Len(m.data) \in Nat /\ Len(m.data) < 10
      BY <3>3, <3>5, ShapeLen, Zenon
    <3>7. Len(m.data) \in Digits
      BY <1>0, <3>6, Zenon
    <3>8. (n + 1) % 10 \in Digits
      BY <3>4, SMTT(10) DEF Digits
    <3>9. TextContext(m.type, n + 1, Len(m.data)) \in ContextType
      BY <3>3, <3>7, <3>8, SMTT(10) DEF TextContext, ContextType
    <3>10. Len(buf) >= 7
      BY <2>1, <3>3, LenProperties, SMTT(10)
    <3> QED BY <3>3, <3>9, <3>10, Zenon
  <2> QED BY <2>1, <2>2, Zenon DEF Types, Streams, TypeOK
<1> QED BY <1>1, Invariance, PTL

\* However the stream is cut into segments, the messages that are handled are
\* those that were sent, whole, in order, each for its connection, none left
\* out but those whose header cannot be read.
THEOREM HandledTheorem ==
    ASSUME Apart, Skippable, Recognised PROVE Spec => []HandledAsSent
<1>1. IInv => HandledAsSent
  <2> SUFFICES ASSUME IInv, NEW c \in Conns
               PROVE  \E which \in [DOMAIN handled[c] -> DOMAIN sent[c]] :
                        /\ \A i \in DOMAIN handled[c] :
                              handled[c][i] = Expected(sent[c][which[i]], which[i])
                        /\ \A i, j \in DOMAIN handled[c] : i < j => which[i] < which[j]
                        /\ \A i \in DOMAIN handled[c] : \A n \in 1..which[i] :
                              sent[c][n].type # "unreadable" =>
                                  \E j \in DOMAIN handled[c] : which[j] = n
    BY Zenon DEF HandledAsSent
  <2> DEFINE h == handled[c]
             s == sent[c]
  <2>1. /\ s \in Seq(Shapes) /\ h \in Seq(MessageType)
        /\ Len(s) \in Nat /\ Len(h) \in Nat
    BY TypesOf, Zenon DEF IInv
  <2>2. DOMAIN h = 1..Len(h) /\ DOMAIN s = 1..Len(s)
    BY <2>1, LenProperties, Zenon
  <2>3. PICK n \in 0..Len(s) : HandledOK(h, s, n, failed)
    BY Zenon DEF IInv, Places, Place, AtPlace
  <2>4. PICK which \in [1..Len(h) -> 1..n] :
          /\ \A i \in 1..Len(h) : h[i] = Expected(s[which[i]], which[i])
          /\ \A i, j \in 1..Len(h) : i < j => which[i] < which[j]
          /\ \A k \in 1..n : s[k].type # "unreadable" => \E j \in 1..Len(h) : which[j] = k
    BY <2>3, Zenon DEF HandledOK
  <2>5. \A k \in 1..n : k \in 1..Len(s)
    BY <2>1, SMTT(10)
  <2>6. which \in [1..Len(h) -> 1..Len(s)]
    BY <2>5, Zenon
  <2>7. \A l \in 1..n : \A k \in 1..l : k \in 1..n
    BY <2>1, SMTT(10)
  <2>8. \A i \in 1..Len(h) : \A k \in 1..which[i] :
          s[k].type # "unreadable" => \E j \in 1..Len(h) : which[j] = k
    BY <2>4, <2>7, Zenon
  <2> HIDE DEF h, s
  <2>9. \E w \in [DOMAIN h -> DOMAIN s] :
          /\ \A i \in DOMAIN h : h[i] = Expected(s[w[i]], w[i])
          /\ \A i, j \in DOMAIN h : i < j => w[i] < w[j]
          /\ \A i \in DOMAIN h : \A k \in 1..w[i] :
                s[k].type # "unreadable" => \E j \in DOMAIN h : w[j] = k
    BY <2>2, <2>4, <2>6, <2>8, Zenon
  <2> QED BY <2>9, Zenon DEF h, s
<1> QED BY <1>1, Invariance, PTL

\* A message is handled in the callback that adds its last byte to the buffer,
\* until a header cannot be read.
THEOREM WaitsTheorem ==
    ASSUME Apart, Skippable, Recognised PROVE Spec => []NothingWaits
<1>1. IInv => NothingWaits
  <2> SUFFICES ASSUME IInv, ~reading, ~failed, NEW c \in Conns,
                      NEW k \in DOMAIN sent[c], ends[c][k] <= arrived[c]
               PROVE  k <= Len(handled[c])
    BY Zenon DEF NothingWaits
  <2> DEFINE s == sent[c]
             e == ends[c]
  <2>1. /\ s \in Seq(Shapes) /\ e \in Seq(Nat) /\ arrived[c] \in Nat
        /\ Len(s) \in Nat /\ Len(handled[c]) \in Nat
    BY TypesOf, Zenon DEF IInv
  <2>2. k \in 1..Len(s) /\ k \in 0..Len(s) /\ k # 0
    BY <2>1, LenProperties, SMTT(10)
  <2>3. PICK n \in 0..Len(s) : Place(c, n) /\ (c = last => PendingLast(n))
    BY Zenon DEF IInv, Places
  <2>4. HandledOK(handled[c], s, n, failed) /\ EndOf(e, n) = Pos(c)
    BY <2>3, Zenon DEF Place, AtPlace
  <2>5. Len(handled[c]) = n
    BY <2>4, Zenon DEF HandledOK
  <2>6. StreamOK(s, stream[c], e)
    BY Zenon DEF IInv, Streams
  <2>7. SUFFICES ASSUME ~(k <= n) PROVE FALSE
    BY <2>5, Zenon
  <2>8. n < k /\ n < Len(s) /\ n + 1 \in 0..Len(s) /\ (k = n + 1 \/ n + 1 < k)
    BY <2>1, <2>2, <2>7, SMTT(10)
  <2>9. EndOf(e, k) <= arrived[c]
    BY <2>2, Zenon DEF EndOf
  <2>10. Len(e) = Len(s)
    BY <2>6, Zenon DEF StreamOK
  <2>11. EndOf(e, k) \in Nat /\ EndOf(e, n) \in Nat /\ EndOf(e, n + 1) \in Nat
    BY <2>1, <2>2, <2>8, <2>10, EndType, Zenon
  <2>12. EndOf(e, n) < EndOf(e, k) /\ (n + 1 < k => EndOf(e, n + 1) < EndOf(e, k))
    BY <2>2, <2>6, <2>8, Zenon DEF StreamOK
  <2>13. CASE c = last
    <3>1. arrived[c] < EndOf(e, n + 1)
      BY <2>3, <2>8, <2>13, Zenon DEF PendingLast, Pending
    <3>2. k = n + 1 => EndOf(e, k) = EndOf(e, n + 1)
      BY Zenon
    <3> HIDE DEF e, s
    <3> QED BY <2>1, <2>8, <2>9, <2>11, <2>12, <3>1, <3>2, SMTT(10)
  <2>14. CASE c # last
    <3>1. EndOf(e, n) = arrived[c] - 0
      BY <2>4, <2>14, Zenon DEF Pos
    <3> HIDE DEF e, s
    <3> QED BY <2>1, <2>9, <2>11, <2>12, <3>1, SMTT(10)
  <2> QED BY <2>13, <2>14, Zenon
<1> QED BY <1>1, Invariance, PTL
=============================================================================
