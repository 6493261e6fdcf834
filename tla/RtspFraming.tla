---------------------------- MODULE RtspFraming ----------------------------
(***************************************************************************)
(* How both ends cut a TCP byte stream into messages (src/rtsp.c,          *)
(* rtsp_get_next_message() and what it calls; tskt_client_data_cb() and    *)
(* rtsp_server_pomp_cb()): text messages, ended by an empty line and a     *)
(* body of Content-Length bytes, mixed with binary packets that start with *)
(* '$'.  A segment may hold part of a message or several of them.          *)
(*                                                                         *)
(* The server has one buffer and one parser context for all its            *)
(* connections; the client has one for all the connections it makes one    *)
(* after the other.  The modelled end is therefore one buffer fed by the   *)
(* connections in Conns.                                                   *)
(*                                                                         *)
(* Bytes have their real values.  The text of a header is cut down to      *)
(* three bytes before the empty line: what it is, a number that tells      *)
(* messages apart, and the digit of its Content-Length.                    *)
(***************************************************************************)
EXTENDS Integers, Sequences, FiniteSetsExt

CONSTANTS
    Conns,          \* connections that feed the buffer
    Shapes,         \* messages a peer may send, without their number
    Interrupt,      \* may a connection send while the buffer holds part of a
                    \* message of another, or close with one unfinished?
    MaxMessages,    \* bound: messages sent on a connection
    MaxSegment      \* bound: bytes in a segment

NUL == 0
LF == 10
CR == 13
Dollar == 36        \* 0x24
Digit0 == 48
RequestLine == 81   \* a method and an URL
StatusLine == 82    \* RTSP_VERSION
OtherLine == 66     \* a line that neither header reader accepts
Byte == 0..255
UINT16_MAX == 65535

\* A text message carries a body; a packet carries a channel and a payload.
TextTypes == {"request", "response", "unreadable"}
Shape == [type : TextTypes \cup {"interleaved"}, channel : Byte, data : Seq(Byte)]

ASSUME FramingAssumption ==
    /\ Shapes \subseteq Shape
    /\ \A m \in Shapes :
          IF m.type = "interleaved" THEN Len(m.data) + 1 <= UINT16_MAX - 4
          ELSE Len(m.data) < 10
    /\ Interrupt \in BOOLEAN
    /\ MaxMessages \in Nat \ {0} /\ MaxSegment \in Nat \ {0}

(***************************************************************************)
(* What a peer sends                                                       *)
(***************************************************************************)

\* rtsp_build_interleaved(): '$', channel, length in two bytes, payload; it
\* refuses one whose packet is longer than UINT16_MAX.
rtsp_build_interleaved(channel, data) ==
    <<Dollar, channel, Len(data) \div 256, Len(data) % 256>> \o data

Digits == 0..9
Digit(n) == Digit0 + (n % 10)

\* A header: its first line, its fields, an empty line.  Every line ends in
\* CR LF.
Header(line, n, content_length) ==
    <<line, Digit(n), Digit(content_length), CR, LF, CR, LF>>

rtsp_request_header_write(n, content_length) ==
    Header(RequestLine, n, content_length)

rtsp_response_header_write(n, content_length) ==
    Header(StatusLine, n, content_length)

\* The header and the body; an unreadable header is one of another peer.
WriteText(m, n) ==
    (CASE m.type = "request" -> rtsp_request_header_write(n, Len(m.data))
       [] m.type = "response" -> rtsp_response_header_write(n, Len(m.data))
       [] m.type = "unreadable" -> Header(OtherLine, n, Len(m.data))) \o m.data

\* The n-th message on a connection; a packet has its number in its payload.
Write(m, n) ==
    IF m.type = "interleaved"
    THEN rtsp_build_interleaved(m.channel, <<Digit(n)>> \o m.data)
    ELSE WriteText(m, n)

(***************************************************************************)
(* rtsp_get_next_message()                                                 *)
(***************************************************************************)

NoMessage == [type |-> "unknown", id |-> 0, channel |-> 0, data |-> << >>]
NoContext == [type |-> "unknown", header_len |-> 0, body_len |-> 0, id |-> 0]

\* Places where rtsp_strnstr() finds pattern p in s; it looks no further than
\* a NUL.
Occurrences(p, s) ==
    {i \in 1..(Len(s) + 1 - Len(p)) :
        /\ \A j \in 1..(i - 1) : s[j] # NUL
        /\ \A j \in 1..Len(p) : s[i + j - 1] = p[j]}

DoubleNewlines == <<<<CR, LF, CR, LF>>, <<LF, CR, LF, CR>>, <<LF, LF>>, <<CR, CR>>>>

\* find_double_newline(): length of s up to and including the empty line, 0
\* if there is none.  One kind of line end is looked for after the other.
find_double_newline(s) ==
    LET kinds == {k \in 1..4 : Occurrences(DoubleNewlines[k], s) # {}}
        found == DoubleNewlines[Min(kinds)]
    IN  IF kinds = {} THEN 0 ELSE Min(Occurrences(found, s)) + Len(found) - 1

Packet(b) == [type |-> "interleaved", id |-> b[5] - Digit0, channel |-> b[2],
              data |-> SubSeq(b, 6, 4 + b[3] * 256 + b[4])]

rtsp_parse_interleaved(b) ==
    IF Len(b) < 4 \/ b[1] # Dollar THEN "EINVAL"
    ELSE IF Len(b) < 4 + b[3] * 256 + b[4] THEN "EAGAIN"
    ELSE "OK"

\* The context that a header h leaves once it has been read.
Context(type, h) ==
    [type |-> type, header_len |-> Len(h), body_len |-> h[3] - Digit0,
     id |-> h[2] - Digit0]

\* The readers fail on a line that is not theirs, and on fields that are not
\* what the writers write.
Fields(h) == Len(h) = 7 /\ h[2] - Digit0 \in Digits /\ h[3] - Digit0 \in Digits

rtsp_request_header_read(h) ==
    IF h[1] = RequestLine /\ Fields(h) THEN Context("request", h) ELSE NoContext

rtsp_response_header_read(h) ==
    IF h[1] = StatusLine /\ Fields(h) THEN Context("response", h) ELSE NoContext

\* A header that starts with RTSP_VERSION is one of a response.
header_read(h) ==
    IF h[1] = StatusLine THEN rtsp_response_header_read(h)
    ELSE rtsp_request_header_read(h)

\* One call: what it returns, the message, the bytes the caller removes and
\* the context it keeps for the next call.
Result(ret, msg, total_len, x) ==
    [ret |-> ret, msg |-> msg, total_len |-> total_len, ctx |-> x]

\* Mutant: what has arrived of the body is taken for all of it.
get_body_Partial(b, x) ==
    LET total == Min({Len(b), x.header_len + x.body_len})
    IN  Result("OK",
               [type |-> x.type, id |-> x.id, channel |-> 0,
                data |-> SubSeq(b, x.header_len + 1, total)],
               total, NoContext)

\* Mutant: the header is removed at once, but counted again with the body.
get_body_HeaderRemoved(b, x) ==
    LET total == x.header_len + x.body_len
    IN  IF Len(b) < total THEN Result("EAGAIN", NoMessage, x.header_len, x)
        ELSE Result("OK",
                    [type |-> x.type, id |-> x.id, channel |-> 0,
                     data |-> SubSeq(b, x.header_len + 1, total)],
                    total, NoContext)

\* The part after the header has been read: the body must be complete.
get_body(b, x) ==
    LET total == x.header_len + x.body_len
    IN  IF Len(b) < total THEN Result("EAGAIN", NoMessage, 0, x)
        ELSE Result("OK",
                    [type |-> x.type, id |-> x.id, channel |-> 0,
                     data |-> SubSeq(b, x.header_len + 1, total)],
                    total, NoContext)

get_text(b, x) ==
    LET len == find_double_newline(b)
        read == header_read(SubSeq(b, 1, len))
    IN  IF x # NoContext THEN get_body(b, x)
        ELSE IF len = 0 THEN Result("EAGAIN", NoMessage, 0, x)
        ELSE IF read = NoContext THEN Result("EPROTO", NoMessage, len, NoContext)
        ELSE get_body(b, read)

rtsp_get_next_message(b, x) ==
    CASE rtsp_parse_interleaved(b) = "OK" ->
           Result("OK", Packet(b), 4 + b[3] * 256 + b[4], x)
      [] rtsp_parse_interleaved(b) = "EAGAIN" ->
           Result("EAGAIN", NoMessage, 0, x)
      [] rtsp_parse_interleaved(b) = "EINVAL" -> get_text(b, x)

(***************************************************************************)
(* The receiving end                                                       *)
(***************************************************************************)

VARIABLES
    sent,       \* history: the messages of each connection
    stream,     \* all their bytes
    ends,       \* history: where in the stream each message ends
    arrived,    \* how many bytes of each connection have arrived
    buf,        \* client->response.buf, server->request_buf
    ctx,        \* parser_ctx: the header that has been read, its body missing
    reading,    \* is the loop of the data callback running?
    last,       \* connection of the last segment
    handled,    \* history: messages handled, per connection they came from
    failed,     \* history: has a header been refused?
    cut         \* connections closed before all had arrived
peerVars == <<sent, stream, ends>>
vars == <<peerVars, arrived, buf, ctx, reading, last, handled, failed, cut>>

MessageType == [type : {"request", "response", "interleaved"}, id : Int,
                channel : Byte, data : Seq(Byte)]
ContextType == [type : {"request", "response"}, header_len : {7},
                body_len : Digits, id : Digits]

\* Types; while the body of a message is missing its header is in the buffer.
TypeOK ==
    /\ sent \in [Conns -> Seq(Shapes)]
    /\ stream \in [Conns -> Seq(Byte)]
    /\ ends \in [Conns -> Seq(Nat)]
    /\ arrived \in [Conns -> Nat]
    /\ \A c \in Conns : arrived[c] <= Len(stream[c])
    /\ buf \in Seq(Byte)
    /\ ctx # NoContext => ctx \in ContextType /\ Len(buf) >= 7
    /\ reading \in BOOLEAN /\ failed \in BOOLEAN
    /\ last \in Conns /\ cut \subseteq Conns
    /\ handled \in [Conns -> Seq(MessageType)]

Init ==
    /\ sent = [c \in Conns |-> << >>]
    /\ stream = [c \in Conns |-> << >>]
    /\ ends = [c \in Conns |-> << >>]
    /\ arrived = [c \in Conns |-> 0] /\ cut = {}
    /\ buf = << >> /\ ctx = NoContext
    /\ reading = FALSE /\ last \in Conns /\ failed = FALSE
    /\ handled = [c \in Conns |-> << >>]

\* The peer of connection c sends message m.
Send(c, m) ==
    /\ c \notin cut /\ Len(sent[c]) < MaxMessages
    /\ sent' = [sent EXCEPT ![c] = Append(@, m)]
    /\ stream' = [stream EXCEPT ![c] = @ \o Write(m, Len(sent[c]) + 1)]
    /\ ends' = [ends EXCEPT ![c] = Append(@, Len(stream'[c]))]
    /\ UNCHANGED <<arrived, buf, ctx, reading, last, handled, failed, cut>>

\* A segment of k bytes arrives: the callback adds it to the buffer.
Segment(c, k) ==
    /\ ~reading /\ c \notin cut /\ arrived[c] + k <= Len(stream[c])
    /\ Interrupt \/ c = last \/ buf = << >>
    /\ buf' = buf \o SubSeq(stream[c], arrived[c] + 1, arrived[c] + k)
    /\ arrived' = [arrived EXCEPT ![c] = @ + k]
    /\ last' = c
    /\ reading' = TRUE
    /\ UNCHANGED <<peerVars, ctx, handled, failed, cut>>

\* rtsp_buffer_remove_first_bytes(): no more than there is.
rtsp_buffer_remove_first_bytes(b, count) == SubSeq(b, count + 1, Len(b))

\* Mutant: one message per segment.
NextMessage_Once ==
    LET r == rtsp_get_next_message(buf, ctx)
    IN  /\ reading
        /\ buf' = rtsp_buffer_remove_first_bytes(buf, r.total_len)
        /\ ctx' = r.ctx
        /\ handled' = IF r.ret = "OK" THEN [handled EXCEPT ![last] = Append(@, r.msg)]
                      ELSE handled
        /\ reading' = FALSE
        /\ failed' = (failed \/ r.ret = "EPROTO")
        /\ UNCHANGED <<peerVars, arrived, last, cut>>

\* The loop of the callback calls rtsp_get_next_message() once more: a message
\* is handled, as one of the connection the segment came from, and removed
\* from the buffer; anything else ends the loop, a bad header is removed.
NextMessage ==
    LET r == rtsp_get_next_message(buf, ctx)
    IN  /\ reading
        /\ buf' = rtsp_buffer_remove_first_bytes(buf, r.total_len)
        /\ ctx' = r.ctx
        /\ handled' = IF r.ret = "OK" THEN [handled EXCEPT ![last] = Append(@, r.msg)]
                      ELSE handled
        /\ reading' = (r.ret = "OK")
        /\ failed' = (failed \/ r.ret = "EPROTO")
        /\ UNCHANGED <<peerVars, arrived, last, cut>>

\* The connection is closed: what is on its way is lost, buf and ctx stay.
Close(c) ==
    /\ ~reading /\ c \notin cut /\ arrived[c] < Len(stream[c])
    /\ Interrupt \/ (c # last \/ buf = << >>)
    /\ cut' = cut \cup {c}
    /\ UNCHANGED <<peerVars, arrived, buf, ctx, reading, last, handled, failed>>

Done ==
    /\ ~reading /\ \A c \in Conns \ cut : arrived[c] = Len(stream[c])
    /\ UNCHANGED vars

Next ==
    \/ \E c \in Conns, m \in Shapes : Send(c, m)
    \/ \E c \in Conns, k \in 1..MaxSegment : Segment(c, k)
    \/ NextMessage
    \/ \E c \in Conns : Close(c)
    \/ Done

Spec == Init /\ [][Next]_vars

(***************************************************************************)
(* Properties                                                              *)
(***************************************************************************)

\* What should be handled of message m, the n-th on its connection.
Expected(m, n) ==
    [type |-> m.type, id |-> n % 10,
     channel |-> IF m.type = "interleaved" THEN m.channel ELSE 0, data |-> m.data]

\* However the stream is cut into segments, the messages that are handled are
\* those that were sent, whole, in order, none left out, each for the
\* connection it came on; a header that cannot be read costs no other message
\* (rtsp_get_next_message(): "This can be used to skip a bad header").  Of
\* connections that do not interrupt each other's messages.  The i-th message
\* handled is the which[i]-th of those sent.
HandledAsSent ==
    \A c \in Conns :
        \E which \in [DOMAIN handled[c] -> DOMAIN sent[c]] :
            /\ \A i \in DOMAIN handled[c] :
                  handled[c][i] = Expected(sent[c][which[i]], which[i])
            /\ \A i, j \in DOMAIN handled[c] : i < j => which[i] < which[j]
            /\ \A i \in DOMAIN handled[c] : \A n \in 1..which[i] :
                  sent[c][n].type # "unreadable" =>
                      \E j \in DOMAIN handled[c] : which[j] = n

\* A message is handled in the callback that adds its last byte to the
\* buffer, and never waits for bytes of the message after it (with a peer that
\* waits for the answer before it sends more, it would wait for ever).  Until
\* a header cannot be read; see CompleteMessagesDrained.
NothingWaits ==
    (~reading /\ ~failed) =>
        \A c \in Conns : \A n \in DOMAIN sent[c] :
            ends[c][n] <= arrived[c] => n <= Len(handled[c])

\* "Iterate over complete messages" (rtsp_client.c, rtsp_server.c): when the
\* data callback returns, no complete message is left in the buffer.
CompleteMessagesDrained ==
    ~reading => rtsp_get_next_message(buf, ctx).ret # "OK"
=============================================================================
