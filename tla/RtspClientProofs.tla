-------------------------- MODULE RtspClientProofs --------------------------
(***************************************************************************)
(* Proofs about RtspClient, for any number of sessions, medias, send       *)
(* results, advertised methods and CSeq numbers, of a client that has at   *)
(* most one resolver lookup in flight (OneLookup).                         *)
(*                                                                         *)
(* The inductive invariant has three parts, each a predicate on a client:  *)
(* what is in the request slot (Slot), the flags of the sessions (Flags)   *)
(* and the connection (Connection).  Each C function has one lemma: it     *)
(* keeps Slot and Flags, and what it does to the connection.               *)
(***************************************************************************)
EXTENDS RtspClient, TLAPS

\* The request slot: the timer runs for a request, an answer to come has a
\* CSeq that was used and, if it is the one in the slot, is the answer to that
\* request; the callback that is owed is that of the request in the slot, of a
\* kind whose completion calls back.
Slot(c) ==
    /\ 0 < c.cseq
    /\ c.request.method = "SETUP" => c.request.media \in Medias
    /\ c.req_timer => c.is_pending
    /\ \A m \in c.wire :
          /\ 0 < m.cseq /\ m.cseq < c.cseq
          /\ m.cseq = c.request.cseq => c.is_pending /\ m = c.request
    /\ c.owed # {} =>
          /\ c.is_pending /\ c.owed = {c.request.cseq}
          /\ c.request.method \in Methods \ {"GET_PARAMETER"}
          /\ c.request.method = "TEARDOWN" =>
                /\ c.request.session \in SessionIds \ c.internal_teardown
                /\ ~c.is_internal

\* A session that is armed or waits for a keep-alive is in the list.
Flags(c) == c.timer \subseteq c.sessions /\ c.keep_alive \subseteq c.sessions

Good(c) == c \in Client /\ Slot(c) /\ Flags(c)

\* The connection: the state agrees with the transport, nothing is pending
\* unless connected, and a lookup in flight finds nothing to disturb.
Connection(c) ==
    /\ c.conn_state # "DISCONNECTING"
    /\ c.sock <=> c.tskt = "connected"
    /\ c.conn_state = "CONNECTED" <=> c.tskt = "connected"
    /\ c.is_pending => c.conn_state = "CONNECTED"
    /\ c.conn_state \in {"DISCONNECTED", "DESTROYED"} =>
          c.sessions = {} /\ c.tskt = "stopped"
    /\ c.lookups > 0 =>
          /\ c.tskt = "stopped" /\ c.sessions = {}
          /\ c.remote => c.conn_state = "CONNECTING"
    /\ c.lookups <= 1

IInv == Good(client) /\ Connection(client)

\* What a function leaves alone: the connection, and the request slot.
SameConn(c, d) ==
    /\ d.conn_state = c.conn_state /\ d.sock = c.sock /\ d.tskt = c.tskt
    /\ d.lookups = c.lookups /\ d.remote = c.remote

SameSlot(c, d) ==
    /\ d.request = c.request /\ d.is_pending = c.is_pending
    /\ d.is_internal = c.is_internal /\ d.req_timer = c.req_timer
    /\ d.cseq = c.cseq /\ d.wire = c.wire /\ d.owed = c.owed
    /\ d.forgotten = c.forgotten
    /\ d.internal_teardown \subseteq c.internal_teardown

\* Slot depends on nothing but the request slot.
LEMMA SlotFrame ==
    ASSUME NEW c, NEW d, Slot(c), SameSlot(c, d) PROVE Slot(d)
BY DEF Slot, SameSlot

\* Changing the counter or the medias of one session keeps their types.
LEMMA FunTypes ==
    ASSUME NEW c \in Client, NEW s \in SessionIds, NEW n \in Nat,
           NEW ms \in SUBSET Medias
    PROVE  /\ [c.failed_keep_alive EXCEPT ![s] = n] \in [SessionIds -> Nat]
           /\ [c.medias EXCEPT ![s] = ms] \in [SessionIds -> SUBSET Medias]
BY DEF Client

(***************************************************************************)
(* Sessions                                                                *)
(***************************************************************************)

\* set_connection_state() changes the state and nothing else.
LEMMA SetState ==
    ASSUME NEW c, Good(c), NEW st \in States
    PROVE  LET d == set_connection_state(c, st)
           IN  /\ Good(d) /\ SameSlot(c, d) /\ d.conn_state = st
               /\ d.sock = c.sock /\ d.tskt = c.tskt
               /\ d.lookups = c.lookups /\ d.remote = c.remote
               /\ d.sessions = c.sessions
<1> DEFINE d == set_connection_state(c, st)
<1>1. d \in Client
  BY DEF set_connection_state, Client, Good
<1>2. /\ SameSlot(c, d) /\ d.conn_state = st
      /\ d.sock = c.sock /\ d.tskt = c.tskt
      /\ d.lookups = c.lookups /\ d.remote = c.remote
      /\ d.sessions = c.sessions
      /\ d.timer = c.timer /\ d.keep_alive = c.keep_alive
  BY DEF set_connection_state, Client, Good, SameSlot
<1> QED BY <1>1, <1>2, SlotFrame DEF Good, Flags

\* rtsp_client_remove_session_internal() touches sessions only.
LEMMA RemoveSessionInternal ==
    ASSUME NEW c, Good(c), NEW s
    PROVE  LET d == remove_session_internal(c, s)
           IN  /\ Good(d) /\ SameSlot(c, d) /\ SameConn(c, d)
               /\ d.sessions \subseteq c.sessions
<1> DEFINE f == [c.failed_keep_alive EXCEPT ![s] = 0]
           m == [c.medias EXCEPT ![s] = {}]
           e == [c EXCEPT !.sessions = @ \ {s}, !.keep_alive = @ \ {s},
                          !.timer = @ \ {s}, !.internal_teardown = @ \ {s},
                          !.failed_keep_alive = f, !.medias = m]
<1>1. CASE s \notin c.sessions
  BY <1>1 DEF remove_session_internal, SameSlot, SameConn
<1>2. CASE s \in c.sessions
  <2>1. remove_session_internal(c, s) = e
    BY <1>2 DEF remove_session_internal
  <2>2. f \in [SessionIds -> Nat] /\ m \in [SessionIds -> SUBSET Medias]
    BY <1>2, FunTypes DEF Good, Client
  <2> HIDE DEF f, m
  <2>3. e \in Client
    BY <2>2 DEF Good, Client
  <2>4. SameSlot(c, e) /\ SameConn(c, e) /\ e.sessions \subseteq c.sessions
        /\ Flags(e)
    BY DEF Good, Client, SameSlot, SameConn, Flags
  <2> QED BY <2>1, <2>3, <2>4, SlotFrame DEF Good
<1> QED BY <1>1, <1>2

\* rtsp_client_remove_all_sessions() leaves no session.
LEMMA RemoveAllSessions ==
    ASSUME NEW c, Good(c)
    PROVE  LET d == remove_all_sessions(c)
           IN  /\ Good(d) /\ SameSlot(c, d) /\ SameConn(c, d)
               /\ d.sessions = {}
<1> DEFINE d == remove_all_sessions(c)
<1>1. d \in Client
  BY DEF remove_all_sessions, Client, Good
<1>2. SameSlot(c, d) /\ SameConn(c, d) /\ d.sessions = {} /\ Flags(d)
  BY DEF remove_all_sessions, Client, Good, SameSlot, SameConn, Flags
<1> QED BY <1>1, <1>2, SlotFrame DEF Good

(***************************************************************************)
(* Sending                                                                 *)
(***************************************************************************)

\* reset_keep_alive_timer() arms the timer of a live session.
LEMMA RetryLaterGood ==
    ASSUME NEW c, Good(c), NEW s \in c.sessions
    PROVE  LET d == RetryLater(c, s)
           IN  /\ Good(d) /\ SameSlot(c, d) /\ SameConn(c, d)
               /\ d.sessions = c.sessions
<1> DEFINE d == RetryLater(c, s)
<1>1. d \in Client
  BY DEF RetryLater, Client, Good
<1>2. SameSlot(c, d) /\ SameConn(c, d) /\ d.sessions = c.sessions /\ Flags(d)
  BY DEF RetryLater, Client, Good, SameSlot, SameConn, Flags
<1> QED BY <1>1, <1>2, SlotFrame DEF Good

\* The new header q is in the slot of d, and no callback is owed.
Header(c, d, q) ==
    /\ SameConn(c, d) /\ d.sessions = c.sessions
    /\ d.request = q /\ d.owed = {}
    /\ d.keep_alive = c.keep_alive /\ d.internal_teardown = c.internal_teardown

\* A new header in the slot, with a fresh CSeq: no answer on its way has
\* that CSeq, and the request it replaces is owed no callback any more.
LEMMA SetHeaderGood ==
    ASSUME NEW c, Good(c), NEW q \in Request, q.cseq = c.cseq,
           q.method = "SETUP" => q.media \in Medias
    PROVE  LET d == SetHeader(c, q)
           IN  /\ Good(d) /\ Header(c, d, q)
               /\ d.is_pending = c.is_pending /\ d.cseq = c.cseq
               /\ d.wire = c.wire
<1> DEFINE d == SetHeader(c, q)
<1>1. d \in Client
  <2> DEFINE x == IF c.is_pending THEN Forget(c, c.request.cseq) ELSE c
  <2>1. x \in Client
    BY DEF Forget, Client, Good
  <2>2. d = [x EXCEPT !.request = q]
    BY DEF SetHeader
  <2> HIDE DEF x, d
  <2> QED BY <2>1, <2>2 DEF Client
<1>2. /\ SameConn(c, d) /\ d.sessions = c.sessions /\ d.request = q
      /\ d.is_pending = c.is_pending /\ d.cseq = c.cseq
      /\ d.wire = c.wire /\ d.req_timer = c.req_timer
      /\ d.timer = c.timer /\ d.keep_alive = c.keep_alive
      /\ d.internal_teardown = c.internal_teardown
  BY DEF SetHeader, Forget, Client, Good, SameConn
<1>3. d.owed = {}
  BY DEF SetHeader, Forget, Client, Good, Slot
<1>4. Slot(d)
  <2>1. \A m \in d.wire : 0 < m.cseq /\ m.cseq < d.cseq /\ m.cseq # q.cseq
    BY <1>2 DEF Good, Slot, Client, Request
  <2> QED BY <1>2, <1>3, <2>1 DEF Good, Slot
<1> QED BY <1>1, <1>2, <1>3, <1>4 DEF Good, Flags, Header

\* Sending the request uses its CSeq up.
LEMMA TakeSlotGood ==
    ASSUME NEW c, Good(c), NEW q \in Request, q.cseq = c.cseq,
           q.method = "SETUP" => q.media \in Medias
    PROVE  LET d == TakeSlot(c, q)
           IN  /\ Good(d) /\ Header(c, d, q)
               /\ d.is_pending /\ d.cseq = c.cseq + 1
               /\ 0 < q.cseq /\ q.cseq < d.cseq
<1> DEFINE h == SetHeader(c, q)
           d == TakeSlot(c, q)
<1>1. /\ Good(h) /\ Header(c, h, q) /\ h.cseq = c.cseq /\ h.wire = c.wire
  BY SetHeaderGood
<1>2. d = [h EXCEPT !.is_pending = TRUE, !.cseq = @ + 1]
  BY DEF TakeSlot
<1> HIDE DEF h, d
<1>3. d \in Client
  <2>1. h \in Client /\ h.cseq + 1 \in Nat
    BY <1>1 DEF Good, Client
  <2> QED BY <1>2, <2>1 DEF Client
<1>4. /\ SameConn(h, d) /\ d.sessions = h.sessions /\ d.request = h.request
      /\ d.is_pending /\ d.cseq = h.cseq + 1 /\ d.wire = h.wire
      /\ d.req_timer = h.req_timer /\ d.timer = h.timer
      /\ d.keep_alive = h.keep_alive /\ d.owed = h.owed
      /\ d.internal_teardown = h.internal_teardown
  BY <1>1, <1>2 DEF Client, Good, SameConn
<1>5. \A m \in d.wire : 0 < m.cseq /\ m.cseq < d.cseq /\ m.cseq # q.cseq
  <2>1. \A m \in c.wire : m.cseq \in Nat /\ 0 < m.cseq /\ m.cseq < c.cseq
    BY DEF Good, Slot, Client, Request
  <2>2. c.cseq \in Nat
    BY DEF Good, Client
  <2> QED BY <1>1, <1>4, <2>1, <2>2
<1>6. 0 < d.cseq /\ 0 < q.cseq /\ q.cseq < d.cseq
  BY <1>1, <1>4 DEF Good, Slot, Client
<1>7. d.owed = {} /\ d.request = q
  BY <1>1, <1>4 DEF Header
<1>8. Slot(d)
  BY <1>4, <1>5, <1>6, <1>7 DEF Slot
<1> QED BY <1>1, <1>3, <1>4, <1>6, <1>8 DEF Good, Flags, Header, SameConn, d

\* clear_pending_keep_alive_timer() touches the response timer only.
LEMMA ClearTimerGood ==
    ASSUME NEW c, Good(c)
    PROVE  LET d == clear_pending_keep_alive_timer(c)
           IN  /\ Good(d) /\ SameConn(c, d) /\ d.sessions = c.sessions
               /\ d.is_pending = c.is_pending /\ d.cseq = c.cseq
               /\ d.internal_teardown = c.internal_teardown
               /\ d.owed = c.owed
<1> DEFINE d == clear_pending_keep_alive_timer(c)
<1>1. d \in Client
  BY DEF clear_pending_keep_alive_timer, Client, Good
<1>2. /\ SameConn(c, d) /\ d.sessions = c.sessions
      /\ d.is_pending = c.is_pending /\ d.cseq = c.cseq
      /\ d.internal_teardown = c.internal_teardown
      /\ d.request = c.request /\ d.wire = c.wire /\ d.owed = c.owed
      /\ d.is_internal = c.is_internal
      /\ d.timer = c.timer /\ d.keep_alive = c.keep_alive
      /\ d.req_timer => c.req_timer
  BY DEF clear_pending_keep_alive_timer, Client, Good, SameConn
<1>3. Slot(d)
  BY <1>2 DEF Slot, Good
<1> QED BY <1>1, <1>2, <1>3 DEF Good, Flags

\* send_keep_alive() takes the slot only while connected.
LEMMA SendKeepAliveGood ==
    ASSUME NEW c, Good(c), NEW s \in c.sessions, NEW res
    PROVE  LET d == send_keep_alive(c, s, res)
           IN  /\ Good(d) /\ SameConn(c, d) /\ d.sessions \subseteq c.sessions
               /\ d.is_pending => c.is_pending \/ c.conn_state = "CONNECTED"
<1> DEFINE d == send_keep_alive(c, s, res)
           q == [method |-> "GET_PARAMETER", cseq |-> c.cseq,
                 session |-> IF res = "EAUTH" THEN NoSession ELSE s,
                 media |-> NoMedia]
           failed == c.failed_keep_alive[s] + 1
           f == [c EXCEPT !.failed_keep_alive[s] = failed]
<1>0. s \in SessionIds /\ c.cseq \in Nat
  BY DEF Good, Client
<1>1. q \in Request /\ q.cseq = c.cseq /\ q.method # "SETUP"
  BY <1>0 DEF Request, Methods, SessionMethods, SessionOrNone, MediaOrNone
<1>2. CASE ~Allowed(c, "GET_PARAMETER")
  BY <1>2 DEF send_keep_alive, SameConn
<1>3. CASE Allowed(c, "GET_PARAMETER") /\ c.conn_state # "CONNECTED"
  <2>1. d = IF failed >= MaxFailedKeepAlive THEN remove_session_internal(c, s)
            ELSE RetryLater(f, s)
    BY <1>3 DEF send_keep_alive
  <2>2. Good(f) /\ SameSlot(c, f) /\ SameConn(c, f) /\ f.sessions = c.sessions
    <3> DEFINE g == [c.failed_keep_alive EXCEPT ![s] = failed]
    <3>1. g \in [SessionIds -> Nat]
      BY <1>0 DEF Good, Client
    <3>2. f = [c EXCEPT !.failed_keep_alive = g]
      OBVIOUS
    <3> HIDE DEF f, g
    <3>3. f \in Client
      BY <3>1, <3>2 DEF Good, Client
    <3>4. SameSlot(c, f) /\ SameConn(c, f) /\ f.sessions = c.sessions /\ Flags(f)
      BY <3>2 DEF Good, Client, SameSlot, SameConn, Flags
    <3> QED BY <3>3, <3>4, SlotFrame DEF Good
  <2>3. /\ Good(RetryLater(f, s)) /\ SameSlot(f, RetryLater(f, s))
        /\ SameConn(f, RetryLater(f, s)) /\ RetryLater(f, s).sessions = f.sessions
    BY <2>2, RetryLaterGood
  <2>4. LET r == remove_session_internal(c, s)
        IN  Good(r) /\ SameSlot(c, r) /\ SameConn(c, r) /\ r.sessions \subseteq c.sessions
    BY RemoveSessionInternal
  <2> HIDE DEF f, failed
  <2> QED BY <2>1, <2>2, <2>3, <2>4 DEF SameConn, SameSlot
<1>4. CASE Allowed(c, "GET_PARAMETER") /\ c.conn_state = "CONNECTED"
  <2> DEFINE w == TakeSlot(c, q)
             e == [w EXCEPT !.keep_alive = @ \cup {s}, !.req_timer = TRUE,
                            !.wire = IF res = "OK" THEN @ \cup {q} ELSE @]
  <2>1. d = IF s \in c.keep_alive THEN c
            ELSE IF c.is_pending THEN RetryLater(c, s)
            ELSE IF res \in {"ERR", "EAUTH"} THEN SetHeader(c, q)
            ELSE e
    BY <1>4 DEF send_keep_alive
  <2>2. Good(c) /\ SameConn(c, c)
    BY DEF SameConn
  <2>3. LET r == RetryLater(c, s)
        IN  Good(r) /\ SameConn(c, r) /\ r.sessions = c.sessions
    BY RetryLaterGood
  <2>4. LET r == SetHeader(c, q)
        IN  Good(r) /\ SameConn(c, r) /\ r.sessions = c.sessions
    BY <1>1, SetHeaderGood DEF Header
  <2>5. /\ Good(w) /\ Header(c, w, q) /\ w.is_pending
        /\ 0 < q.cseq /\ q.cseq < w.cseq
    BY <1>1, TakeSlotGood
  <2>6. Good(e) /\ SameConn(w, e) /\ e.sessions = w.sessions
    <3> HIDE DEF w, q
    <3>1. e \in Client
      BY <1>0, <1>1, <2>5 DEF Good, Client
    <3>2. /\ SameConn(w, e) /\ e.sessions = w.sessions /\ e.request = w.request
          /\ e.is_pending = w.is_pending /\ e.cseq = w.cseq
          /\ e.keep_alive = w.keep_alive \cup {s} /\ e.timer = w.timer
          /\ e.wire \subseteq w.wire \cup {q} /\ e.owed = w.owed
      BY <2>5 DEF Good, Client, SameConn
    <3>3. Flags(e)
      BY <2>5, <3>2 DEF Good, Flags, Header
    <3>4. Slot(e)
      BY <2>5, <3>2 DEF Good, Slot, Header
    <3> QED BY <3>1, <3>2, <3>3, <3>4 DEF Good
  <2> HIDE DEF e, w
  <2> QED BY <1>4, <2>1, <2>2, <2>3, <2>4, <2>5, <2>6 DEF SameConn, Header
<1> QED BY <1>2, <1>3, <1>4

\* d is c after a request for session s: if a CSeq was used, that request is
\* in the slot.
Sent(c, d, m, s) ==
    /\ Good(d) /\ SameConn(c, d) /\ d.sessions = c.sessions
    /\ d.internal_teardown = c.internal_teardown
    /\ d.cseq # c.cseq =>
          /\ d.is_pending /\ d.owed = {} /\ d.request.method = m
          /\ d.request.session = s /\ d.request.cseq = c.cseq

\* A request of the application, sent or not, replaces what is in the slot.
LEMMA SendRequestGood ==
    ASSUME NEW c, Good(c), NEW m \in Methods, NEW s \in SessionOrNone,
           NEW md \in MediaOrNone, NEW res, NEW timed \in BOOLEAN,
           m = "SETUP" => md \in Medias
    PROVE  LET d == SendRequest(c, m, s, md, res, timed)
           IN  Sent(c, d, m, s) /\ d.owed = {}
<1> DEFINE b == clear_pending_keep_alive_timer(c)
           q == [method |-> m, cseq |-> c.cseq,
                 session |-> IF res = "EAUTH" THEN NoSession ELSE s,
                 media |-> md]
           w == TakeSlot(b, q)
           e == [w EXCEPT !.req_timer = timed \/ @, !.wire = @ \cup {q}]
           d == SendRequest(c, m, s, md, res, timed)
<1>1. /\ Good(b) /\ SameConn(c, b) /\ b.sessions = c.sessions
      /\ b.cseq = c.cseq /\ b.internal_teardown = c.internal_teardown
  BY ClearTimerGood
<1>2. q \in Request /\ q.cseq = c.cseq /\ q.method = m /\ q.media = md
      /\ (res = "OK" => q.session = s)
  BY DEF Request, SessionOrNone, Good, Client
<1>3. d = IF res # "OK" THEN SetHeader(b, q) ELSE e
  BY DEF SendRequest
<1> HIDE DEF b, q
<1>4. /\ Good(SetHeader(b, q)) /\ Header(b, SetHeader(b, q), q)
      /\ SetHeader(b, q).cseq = b.cseq
  BY <1>1, <1>2, SetHeaderGood
<1>5. /\ Good(w) /\ Header(b, w, q) /\ w.is_pending /\ w.cseq = b.cseq + 1
      /\ 0 < q.cseq /\ q.cseq < w.cseq
  BY <1>1, <1>2, TakeSlotGood
<1> HIDE DEF w
<1>6. e \in Client
  <2>1. w \in Client /\ (timed \/ w.req_timer) \in BOOLEAN
        /\ w.wire \cup {q} \in SUBSET Request
    BY <1>2, <1>5 DEF Good, Client
  <2> QED BY <2>1 DEF Client
<1>7. /\ SameConn(w, e) /\ e.sessions = w.sessions /\ e.request = w.request
      /\ e.is_pending = w.is_pending /\ e.cseq = w.cseq /\ e.owed = w.owed
      /\ e.keep_alive = w.keep_alive /\ e.timer = w.timer
      /\ e.wire = w.wire \cup {q}
      /\ e.internal_teardown = w.internal_teardown
  BY <1>5 DEF Good, Client, SameConn
<1>8. Slot(e) /\ Flags(e)
  BY <1>5, <1>7 DEF Good, Slot, Flags, Header
<1> HIDE DEF e
<1>9. CASE res # "OK"
  BY <1>1, <1>3, <1>4, <1>9 DEF Sent, SameConn, Header
<1>10. CASE res = "OK"
  <2>1. d = e BY <1>3, <1>10
  <2>2. Good(e) BY <1>6, <1>8 DEF Good
  <2>3. /\ SameConn(c, e) /\ e.sessions = c.sessions /\ e.owed = {}
        /\ e.internal_teardown = c.internal_teardown
        /\ e.is_pending /\ e.request = q
    BY <1>1, <1>5, <1>7 DEF SameConn, Header
  <2> QED BY <1>2, <1>10, <2>1, <2>2, <2>3 DEF Sent
<1> QED BY <1>9, <1>10

\* send_teardown(), of the application or of the client itself.
LEMMA SendTeardownGood ==
    ASSUME NEW c, Good(c), NEW md \in MediaOrNone, NEW s \in SessionIds,
           NEW res, NEW timed \in BOOLEAN, NEW internal \in BOOLEAN
    PROVE  LET d == send_teardown(c, md, s, res, timed, internal)
           IN  /\ Good(d) /\ SameConn(c, d) /\ d.sessions = c.sessions
               /\ d.is_pending => c.is_pending \/ c.conn_state = "CONNECTED"
               /\ d.cseq # c.cseq =>
                     /\ d.is_pending /\ d.owed = {}
                     /\ d.request.method = "TEARDOWN" /\ d.request.session = s
                     /\ d.request.cseq = c.cseq /\ d.is_internal = internal
                     /\ ~internal => s \notin d.internal_teardown
<1> DEFINE b == clear_pending_keep_alive_timer(c)
           r == SendRequest(c, "TEARDOWN", s, md, res, timed)
           it == IF internal THEN r.internal_teardown \cup {s}
                 ELSE r.internal_teardown \ {s}
           e == [r EXCEPT !.is_internal = internal, !.internal_teardown = it]
           d == send_teardown(c, md, s, res, timed, internal)
<1>1. /\ Good(b) /\ SameConn(c, b) /\ b.sessions = c.sessions
      /\ b.cseq = c.cseq /\ b.is_pending = c.is_pending
  BY ClearTimerGood
<1>2. Sent(c, r, "TEARDOWN", s) /\ r.owed = {}
  <2>1. "TEARDOWN" \in Methods /\ s \in SessionOrNone
    BY DEF Methods, SessionMethods, SessionOrNone
  <2> QED BY <2>1, SendRequestGood
<1>3. d = IF ~CanRequest(c, "TEARDOWN") THEN c
          ELSE IF s \notin c.sessions THEN b
          ELSE IF res # "OK" THEN r ELSE e
  BY DEF send_teardown
<1>4. CanRequest(c, "TEARDOWN") => c.conn_state = "CONNECTED"
  BY DEF CanRequest, CanSend
<1>5. res # "OK" => r.cseq = c.cseq
  <2> DEFINE q == [method |-> "TEARDOWN", cseq |-> c.cseq,
                   session |-> IF res = "EAUTH" THEN NoSession ELSE s,
                   media |-> md]
  <2>1. ASSUME res # "OK" PROVE r = SetHeader(b, q)
    BY <2>1 DEF SendRequest
  <2>2. q \in Request /\ q.cseq = b.cseq /\ q.method # "SETUP"
    BY <1>1 DEF Request, Methods, SessionMethods, SessionOrNone, Good, Client
  <2> HIDE DEF b, q
  <2>3. SetHeader(b, q).cseq = b.cseq
    BY <1>1, <2>2, SetHeaderGood
  <2> QED BY <1>1, <2>1, <2>3
<1> HIDE DEF b, r
<1>6. it \in SUBSET SessionIds
  BY <1>2 DEF Sent, Good, Client
<1>7. /\ Good(e) /\ SameConn(r, e) /\ e.sessions = r.sessions
      /\ e.is_pending = r.is_pending /\ e.owed = r.owed
      /\ e.request = r.request /\ e.cseq = r.cseq
      /\ e.is_internal = internal /\ e.internal_teardown = it
  <2> HIDE DEF it
  <2>1. e \in Client
    BY <1>2, <1>6 DEF Sent, Good, Client
  <2>2. /\ SameConn(r, e) /\ e.sessions = r.sessions
        /\ e.is_pending = r.is_pending /\ e.owed = r.owed
        /\ e.request = r.request /\ e.cseq = r.cseq /\ e.wire = r.wire
        /\ e.req_timer = r.req_timer
        /\ e.timer = r.timer /\ e.keep_alive = r.keep_alive
        /\ e.is_internal = internal /\ e.internal_teardown = it
    BY <1>2, <1>6 DEF Sent, Good, Client, SameConn
  <2> HIDE DEF e
  <2>3. Slot(e) /\ Flags(e)
    BY <1>2, <2>2 DEF Sent, Good, Slot, Flags
  <2> QED BY <2>1, <2>2, <2>3 DEF Good
<1>8. ~internal => s \notin it
  OBVIOUS
<1> HIDE DEF it, e
<1> QED BY <1>1, <1>2, <1>3, <1>4, <1>5, <1>7, <1>8 DEF Sent, SameConn

(***************************************************************************)
(* Completion of the request in the slot                                   *)
(***************************************************************************)

\* d is c with its slot freed; the callback may still be owed.
Freed(c, d) ==
    /\ d \in Client /\ Flags(d) /\ SameConn(c, d)
    /\ ~d.is_pending /\ ~d.req_timer /\ d.request = NoRequest
    /\ d.cseq = c.cseq /\ d.wire = c.wire

\* With no callback owed, a freed slot is a good one.
LEMMA FreedGood ==
    ASSUME NEW c, Good(c), NEW d, Freed(c, d), d.owed = {}
    PROVE  Good(d)
<1>1. \A m \in d.wire : 0 < m.cseq /\ m.cseq < d.cseq /\ m.cseq # 0
  BY DEF Good, Slot, Freed, Client, Request
<1>2. d.request.cseq = 0 /\ d.request.method # "SETUP"
  BY DEF Freed, NoRequest
<1>3. Slot(d)
  BY <1>1, <1>2 DEF Good, Slot, Freed
<1> QED BY <1>3 DEF Good, Freed

\* The first half of request_complete(): the slot is freed, the callback is
\* still owed.
LEMMA SessionAliveFreed ==
    ASSUME NEW c, Good(c), NEW q, NEW sid \in SessionOrNone
    PROVE  LET d == SessionAlive(ClearSlot(c), q, sid)
           IN  /\ Freed(c, d) /\ d.owed = c.owed
               /\ d.is_internal = c.is_internal
               /\ d.internal_teardown = c.internal_teardown
               /\ d.medias = c.medias
<1> DEFINE x == ClearSlot(c)
           y == IF q.method = "SETUP" /\ sid # NoSession
                THEN get_session_add(x, sid) ELSE x
           z == RetryLater([y EXCEPT !.keep_alive = @ \ {sid}], sid)
           d == SessionAlive(x, q, sid)
<1>1. /\ Freed(c, x) /\ x.owed = c.owed /\ x.is_internal = c.is_internal
      /\ x.internal_teardown = c.internal_teardown /\ x.medias = c.medias
  <2>1. NoRequest \in Request
    BY DEF NoRequest, Request, SessionOrNone, MediaOrNone
  <2>2. x \in Client
    BY <2>1 DEF ClearSlot, Good, Client
  <2>3. /\ SameConn(c, x) /\ x.cseq = c.cseq /\ x.wire = c.wire
        /\ ~x.is_pending /\ ~x.req_timer /\ x.request = NoRequest
        /\ x.timer = c.timer /\ x.keep_alive = c.keep_alive
        /\ x.sessions = c.sessions
        /\ x.owed = c.owed /\ x.is_internal = c.is_internal
        /\ x.internal_teardown = c.internal_teardown /\ x.medias = c.medias
    BY DEF ClearSlot, Good, Client, SameConn
  <2> QED BY <2>2, <2>3 DEF Freed, Flags, Good
<1> HIDE DEF x
<1>2. /\ Freed(c, y) /\ y.owed = c.owed /\ y.is_internal = c.is_internal
      /\ y.internal_teardown = c.internal_teardown /\ y.medias = c.medias
  <2> DEFINE g == [x EXCEPT !.sessions = @ \cup {sid}]
  <2>1. CASE y = x
    BY <1>1, <2>1
  <2>2. CASE y = g /\ sid # NoSession
    <3>1. sid \in SessionIds
      BY <2>2 DEF SessionOrNone
    <3>2. g \in Client
      BY <1>1, <3>1 DEF Freed, Client
    <3>3. /\ SameConn(x, g) /\ g.cseq = x.cseq /\ g.wire = x.wire
          /\ g.is_pending = x.is_pending /\ g.req_timer = x.req_timer
          /\ g.request = x.request
          /\ g.timer = x.timer /\ g.keep_alive = x.keep_alive
          /\ g.sessions = x.sessions \cup {sid}
          /\ g.owed = x.owed /\ g.is_internal = x.is_internal
          /\ g.internal_teardown = x.internal_teardown /\ g.medias = x.medias
      BY <1>1 DEF Freed, Client, SameConn
    <3> HIDE DEF g, y
    <3> QED BY <1>1, <2>2, <3>2, <3>3 DEF Freed, Flags, SameConn
  <2> QED BY <2>1, <2>2 DEF get_session_add
<1>3. d = IF sid \notin y.sessions THEN y ELSE z
  BY DEF SessionAlive
<1> HIDE DEF y
<1>4. ASSUME sid \in y.sessions
      PROVE  /\ Freed(c, z) /\ z.owed = c.owed /\ z.is_internal = c.is_internal
             /\ z.internal_teardown = c.internal_teardown /\ z.medias = c.medias
  <2>1. z \in Client
    <3> DEFINE k == [y EXCEPT !.keep_alive = @ \ {sid}]
    <3>1. k \in Client /\ sid \in SessionIds
      BY <1>2, <1>4 DEF Freed, Client
    <3>2. z = [k EXCEPT !.timer = @ \cup {sid}]
      BY DEF RetryLater
    <3> HIDE DEF k, z
    <3> QED BY <3>1, <3>2 DEF Client
  <2>2. /\ SameConn(y, z) /\ z.cseq = y.cseq /\ z.wire = y.wire
        /\ z.is_pending = y.is_pending /\ z.req_timer = y.req_timer
        /\ z.request = y.request
        /\ z.timer = y.timer \cup {sid} /\ z.keep_alive = y.keep_alive \ {sid}
        /\ z.sessions = y.sessions
        /\ z.owed = y.owed /\ z.is_internal = y.is_internal
        /\ z.internal_teardown = y.internal_teardown /\ z.medias = y.medias
    BY <1>2 DEF RetryLater, Freed, Client, SameConn
  <2> HIDE DEF z
  <2> QED BY <1>2, <1>4, <2>1, <2>2 DEF Freed, Flags, SameConn
<1> HIDE DEF z
<1> QED BY <1>2, <1>3, <1>4 DEF x

\* The response callback pays what is owed.
LEMMA CallbackFreed ==
    ASSUME NEW c, NEW d, Freed(c, d), NEW n
    PROVE  LET e == Callback(d, n)
           IN  /\ Freed(c, e) /\ e.owed = d.owed \ {n}
               /\ e.sessions = d.sessions /\ e.medias = d.medias
               /\ e.internal_teardown = d.internal_teardown
<1> DEFINE e == Callback(d, n)
<1>1. e \in Client
  BY DEF Callback, Freed, Client
<1>2. /\ SameConn(d, e) /\ e.cseq = d.cseq /\ e.wire = d.wire
      /\ e.is_pending = d.is_pending /\ e.req_timer = d.req_timer
      /\ e.request = d.request /\ e.timer = d.timer
      /\ e.keep_alive = d.keep_alive /\ e.sessions = d.sessions
      /\ e.owed = d.owed \ {n} /\ e.medias = d.medias
      /\ e.internal_teardown = d.internal_teardown
  BY DEF Callback, Freed, Client, SameConn
<1> HIDE DEF e
<1>3. Freed(c, e)
  BY <1>1, <1>2 DEF Freed, Flags, SameConn
<1> QED BY <1>2, <1>3 DEF e

\* Changing the medias of a session does not touch the slot.
LEMMA MediasFreed ==
    ASSUME NEW c, NEW d, Freed(c, d), NEW s \in SessionIds,
           NEW ms \in SUBSET Medias
    PROVE  LET e == [d EXCEPT !.medias[s] = ms]
           IN  Freed(c, e) /\ e.owed = d.owed
<1> DEFINE f == [d.medias EXCEPT ![s] = ms]
           e == [d EXCEPT !.medias = f]
<1>1. f \in [SessionIds -> SUBSET Medias]
  BY FunTypes DEF Freed, Client
<1> HIDE DEF f
<1>2. e \in Client
  BY <1>1 DEF Freed, Client
<1>3. /\ SameConn(d, e) /\ e.cseq = d.cseq /\ e.wire = d.wire
      /\ e.is_pending = d.is_pending /\ e.req_timer = d.req_timer
      /\ e.request = d.request /\ e.timer = d.timer
      /\ e.keep_alive = d.keep_alive /\ e.sessions = d.sessions
      /\ e.owed = d.owed
  BY DEF Freed, Client, SameConn
<1> HIDE DEF e
<1>4. Freed(c, e) /\ e.owed = d.owed
  BY <1>2, <1>3 DEF Freed, Flags, SameConn
<1> QED BY <1>4 DEF e, f

\* Likewise for its counter of failed keep-alives.
LEMMA FailedKeepAliveFreed ==
    ASSUME NEW c, NEW d, Freed(c, d), NEW s \in SessionIds, NEW n \in Nat
    PROVE  LET e == [d EXCEPT !.failed_keep_alive[s] = n]
           IN  Freed(c, e) /\ e.owed = d.owed /\ e.sessions = d.sessions
<1> DEFINE f == [d.failed_keep_alive EXCEPT ![s] = n]
           e == [d EXCEPT !.failed_keep_alive = f]
<1>1. f \in [SessionIds -> Nat]
  BY FunTypes DEF Freed, Client
<1> HIDE DEF f
<1>2. e \in Client
  BY <1>1 DEF Freed, Client
<1>3. /\ SameConn(d, e) /\ e.cseq = d.cseq /\ e.wire = d.wire
      /\ e.is_pending = d.is_pending /\ e.req_timer = d.req_timer
      /\ e.request = d.request /\ e.timer = d.timer
      /\ e.keep_alive = d.keep_alive /\ e.sessions = d.sessions
      /\ e.owed = d.owed
  BY DEF Freed, Client, SameConn
<1> HIDE DEF e
<1>4. Freed(c, e) /\ e.owed = d.owed /\ e.sessions = d.sessions
  BY <1>2, <1>3 DEF Freed, Flags, SameConn
<1> QED BY <1>4 DEF e, f

\* The facts about a completed request that the inductive invariant gives:
\* q was in the slot of c, sid is the session the completion is about.
Completing(c, q, sid) ==
    /\ Good(c) /\ q = c.request /\ sid \in SessionOrNone
    /\ q.session # NoSession => sid = q.session

\* setup_request_complete() pays the callback.
LEMMA SetupCompleted ==
    ASSUME NEW c, NEW q, NEW sid, Completing(c, q, sid), q.method = "SETUP",
           NEW d, Freed(c, d), d.owed = c.owed, NEW status
    PROVE  LET e == setup_request_complete(d, q, sid, status)
           IN  Freed(c, e) /\ e.owed = {}
<1> DEFINE x == Callback(d, q.cseq)
           ms == x.medias[sid] \cup {q.media}
           y == [x EXCEPT !.medias[sid] = ms]
<1>1. c.owed \ {q.cseq} = {} /\ q.media \in Medias
  BY DEF Completing, Good, Slot
<1>2. Freed(c, x) /\ x.owed = {} /\ x.sessions = d.sessions
  BY <1>1, CallbackFreed
<1>3. setup_request_complete(d, q, sid, status) =
          IF status = "OK" /\ sid \in d.sessions THEN y ELSE x
  BY DEF setup_request_complete
<1>4. ASSUME sid \in d.sessions PROVE Freed(c, y) /\ y.owed = {}
  <2>1. sid \in SessionIds
    BY <1>4 DEF Freed, Client
  <2>2. ms \in SUBSET Medias
    BY <1>1, <1>2, <2>1 DEF Freed, Client
  <2> HIDE DEF x, ms
  <2> QED BY <1>2, <2>1, <2>2, MediasFreed
<1> HIDE DEF x, y
<1> QED BY <1>2, <1>3, <1>4

\* teardown_request_complete() pays the callback, or drops it; it skips it
\* only for a TEARDOWN of the client itself, which owes none.
LEMMA TeardownCompleted ==
    ASSUME NEW c, NEW q, NEW sid, Completing(c, q, sid), q.method = "TEARDOWN",
           NEW d, Freed(c, d), d.owed = c.owed, d.is_internal = c.is_internal,
           d.internal_teardown = c.internal_teardown
    PROVE  LET e == teardown_request_complete(d, q, sid)
           IN  Freed(c, e) /\ e.owed = {}
<1> DEFINE x == Callback(d, q.cseq)
           y == [x EXCEPT !.is_internal = FALSE]
           z == IF sid \in d.internal_teardown THEN d ELSE y
           ms == z.medias[sid] \ {q.media}
           w == [z EXCEPT !.medias[sid] = ms]
<1>1. c.owed \ {q.cseq} = {}
  BY DEF Completing, Good, Slot
<1>2. c.owed # {} => ~c.is_internal /\ sid \notin c.internal_teardown
  BY ClientAssumption DEF Completing, Good, Slot
<1>3. Freed(c, y) /\ y.owed = {}
  <2>1. Freed(c, x) /\ x.owed = {}
    BY <1>1, CallbackFreed
  <2> HIDE DEF x
  <2>2. y \in Client
    BY <2>1 DEF Freed, Client
  <2>3. /\ SameConn(x, y) /\ y.cseq = x.cseq /\ y.wire = x.wire
        /\ y.is_pending = x.is_pending /\ y.req_timer = x.req_timer
        /\ y.request = x.request /\ y.timer = x.timer
        /\ y.keep_alive = x.keep_alive /\ y.sessions = x.sessions
        /\ y.owed = x.owed
    BY <2>1 DEF Freed, Client, SameConn
  <2> HIDE DEF y
  <2> QED BY <2>1, <2>2, <2>3 DEF Freed, Flags, SameConn
<1>4. Freed(c, z) /\ z.owed = {}
  <2> HIDE DEF y
  <2> QED BY <1>2, <1>3
<1>5. Freed(c, Forget(d, q.cseq)) /\ Forget(d, q.cseq).owed = {}
  <2> DEFINE p == Forget(d, q.cseq)
  <2>1. p \in Client
    BY DEF Forget, Freed, Client
  <2>2. /\ SameConn(d, p) /\ p.cseq = d.cseq /\ p.wire = d.wire
        /\ p.is_pending = d.is_pending /\ p.req_timer = d.req_timer
        /\ p.request = d.request /\ p.timer = d.timer
        /\ p.keep_alive = d.keep_alive /\ p.sessions = d.sessions
        /\ p.owed = d.owed \ {q.cseq}
    BY DEF Forget, Freed, Client, SameConn
  <2> HIDE DEF p
  <2>3. Freed(c, p) /\ p.owed = {}
    BY <1>1, <2>1, <2>2 DEF Freed, Flags, SameConn
  <2> QED BY <2>3 DEF p
<1>6. teardown_request_complete(d, q, sid) =
          IF sid \notin d.sessions THEN IF d.is_internal THEN d ELSE y
          ELSE IF UnknownMedia(d, q, sid) THEN Forget(d, q.cseq) ELSE w
  BY DEF teardown_request_complete
<1>7. ASSUME sid \in d.sessions PROVE Freed(c, w) /\ w.owed = {}
  <2> HIDE DEF z
  <2>1. sid \in SessionIds
    BY <1>7 DEF Freed, Client
  <2>2. ms \in SUBSET Medias
    BY <1>4, <2>1 DEF Freed, Client
  <2> HIDE DEF ms
  <2> QED BY <1>4, <2>1, <2>2, MediasFreed
<1> HIDE DEF y, w
<1> QED BY <1>2, <1>3, <1>5, <1>6, <1>7

\* Whatever the method, request_complete() leaves a free slot and owes
\* nothing.
LEMMA CompletedFreed ==
    ASSUME NEW c, NEW resp \in Response,
           Completing(c, c.request, SessionOf(c.request, resp)), NEW status
    PROVE  LET e == Completed(c, resp, status)
           IN  Freed(c, e) /\ e.owed = {}
<1> DEFINE q == c.request
           sid == SessionOf(q, resp)
           d == SessionAlive(ClearSlot(c), q, sid)
           e == Completed(c, resp, status)
<1>1. Good(c) /\ sid \in SessionOrNone
  BY DEF Completing
<1>2. /\ Freed(c, d) /\ d.owed = c.owed /\ d.is_internal = c.is_internal
      /\ d.internal_teardown = c.internal_teardown
  BY <1>1, SessionAliveFreed
<1>3. c.owed \ {q.cseq} = {}
  BY <1>1 DEF Good, Slot
<1>4. c.owed # {} => q.method \in Methods \ {"GET_PARAMETER"}
  BY <1>1 DEF Good, Slot
<1>5. Freed(c, Callback(d, q.cseq)) /\ Callback(d, q.cseq).owed = {}
  BY <1>2, <1>3, CallbackFreed
<1>6. CASE q.method = "OPTIONS"
  <2> DEFINE o == [d EXCEPT !.methods_allowed = resp.public]
  <2>1. e = Callback(o, q.cseq)
    BY <1>6 DEF Completed, Methods, SessionlessMethods, SessionMethods
  <2> HIDE DEF d
  <2>2. o \in Client
    BY <1>2 DEF Freed, Client, Response
  <2>3. /\ SameConn(d, o) /\ o.cseq = d.cseq /\ o.wire = d.wire
        /\ o.is_pending = d.is_pending /\ o.req_timer = d.req_timer
        /\ o.request = d.request /\ o.timer = d.timer
        /\ o.keep_alive = d.keep_alive /\ o.sessions = d.sessions
        /\ o.owed = d.owed
    BY <1>2 DEF Freed, Client, SameConn
  <2> HIDE DEF o
  <2>4. Freed(c, o) /\ o.owed = c.owed
    BY <1>2, <2>2, <2>3 DEF Freed, Flags, SameConn
  <2> QED BY <1>3, <2>1, <2>4, CallbackFreed
<1>7. CASE q.method = "SETUP"
  <2>1. e = setup_request_complete(d, q, sid, status)
    BY <1>7 DEF Completed, Methods, SessionlessMethods, SessionMethods
  <2> HIDE DEF d
  <2> QED BY <1>2, <1>7, <2>1, SetupCompleted
<1>8. CASE q.method = "TEARDOWN"
  <2>1. e = teardown_request_complete(d, q, sid)
    BY <1>8 DEF Completed, Methods, SessionlessMethods, SessionMethods
  <2> HIDE DEF d
  <2> QED BY <1>2, <1>8, <2>1, TeardownCompleted
<1>9. CASE q.method = "GET_PARAMETER"
  <2> DEFINE k == [d EXCEPT !.failed_keep_alive[sid] = 0]
  <2>1. e = IF sid \in d.sessions /\ status # "TIMEOUT" THEN k ELSE d
    BY <1>9 DEF Completed, Methods, SessionlessMethods, SessionMethods
  <2> HIDE DEF d
  <2>2. c.owed = {}
    BY <1>4, <1>9
  <2>3. ASSUME sid \in d.sessions PROVE Freed(c, k) /\ k.owed = {}
    <3>1. sid \in SessionIds /\ 0 \in Nat
      BY <1>2, <2>3 DEF Freed, Client
    <3> QED BY <1>2, <2>2, <3>1, FailedKeepAliveFreed
  <2> HIDE DEF k
  <2> QED BY <1>2, <2>1, <2>2, <2>3
<1>10. CASE q.method \in {"DESCRIBE", "ANNOUNCE", "PLAY", "PAUSE", "RECORD"}
  <2>1. e = Callback(d, q.cseq)
    BY <1>10 DEF Completed, Methods, SessionlessMethods, SessionMethods
  <2> QED BY <1>5, <2>1
<1>11. CASE q.method \notin Methods
  <2>1. e = d
    BY <1>11 DEF Completed, Methods, SessionlessMethods, SessionMethods
  <2>2. c.owed = {}
    BY <1>4, <1>11
  <2> HIDE DEF d
  <2> QED BY <1>2, <2>1, <2>2
<1>12. \/ q.method \in {"OPTIONS", "SETUP", "TEARDOWN", "GET_PARAMETER"}
       \/ q.method \in {"DESCRIBE", "ANNOUNCE", "PLAY", "PAUSE", "RECORD"}
       \/ q.method \notin Methods
  BY DEF Methods, SessionlessMethods, SessionMethods
<1> QED BY <1>6, <1>7, <1>8, <1>9, <1>10, <1>11, <1>12

\* d differs from c in nothing the slot and the flags depend on.
Same(c, d) ==
    /\ d.request = c.request /\ d.is_pending = c.is_pending
    /\ d.is_internal = c.is_internal /\ d.cseq = c.cseq /\ d.owed = c.owed
    /\ d.forgotten = c.forgotten
    /\ d.internal_teardown = c.internal_teardown /\ d.sessions = c.sessions
    /\ d.timer \subseteq c.timer /\ d.keep_alive \subseteq c.keep_alive
    /\ d.wire \subseteq c.wire /\ (d.req_timer => c.req_timer)

\* An update of other fields keeps a client good.
LEMMA SameGood ==
    ASSUME NEW c, Good(c), NEW d \in Client, Same(c, d) PROVE Good(d)
BY DEF Good, Slot, Flags, Same

\* request_complete() with a status other than TIMEOUT.
LEMMA RequestCompleteGood ==
    ASSUME NEW c, Good(c), NEW resp \in Response, NEW status,
           c.request.session # NoSession =>
               resp.session \in {c.request.session, NoSession}
    PROVE  LET d == request_complete(c, resp, status)
           IN  /\ Good(d) /\ SameConn(c, d) /\ ~d.is_pending
               /\ d.wire = c.wire
               /\ ~c.is_pending => d = c
<1> DEFINE q == c.request
           sid == SessionOf(q, resp)
           final == IF status = "OK" /\ resp.code # "2xx" THEN "FAILED"
                    ELSE status
           d == Completed(c, resp, final)
           e == IF SessionRemoved(c, resp)
                THEN remove_session_internal(d, sid) ELSE d
           f == [e EXCEPT !.failed_requests = 0]
<1>1. CASE ~c.is_pending
  BY <1>1 DEF request_complete, SameConn
<1>2. CASE c.is_pending
  <2>1. request_complete(c, resp, status) = f
    BY <1>2 DEF request_complete
  <2>2. Completing(c, q, sid)
    BY DEF Completing, SessionOf, Good, Client, Request, Response
  <2>3. Freed(c, d) /\ d.owed = {}
    BY <2>2, CompletedFreed
  <2> HIDE DEF d, sid
  <2>4. Good(d)
    BY <2>3, FreedGood
  <2>5. LET r == remove_session_internal(d, sid)
        IN  Good(r) /\ SameSlot(d, r) /\ SameConn(d, r)
    BY <2>4, RemoveSessionInternal
  <2>6. Good(e) /\ SameConn(c, e) /\ ~e.is_pending /\ e.wire = c.wire
    BY <2>3, <2>4, <2>5 DEF SameConn, SameSlot, Freed
  <2> HIDE DEF e
  <2>7. f \in Client
    BY <2>6 DEF Good, Client
  <2>8. /\ Same(e, f) /\ SameConn(e, f) /\ f.wire = e.wire
        /\ f.is_pending = e.is_pending
    BY <2>6 DEF Good, Client, Same, SameConn
  <2> HIDE DEF f
  <2>9. Good(f)
    BY <2>6, <2>7, <2>8, SameGood
  <2> QED BY <1>2, <2>1, <2>6, <2>8, <2>9 DEF SameConn
<1> QED BY <1>1, <1>2

\* The made-up response is for the session of the request.
LEMMA DummyResponse ==
    ASSUME NEW c, Good(c)
    PROVE  Dummy(c) \in Response /\ Dummy(c).session = c.request.session
BY DEF Dummy, Response, Good, Client, Request

\* request_complete() with status ABORTED.
LEMMA AbortRequestGood ==
    ASSUME NEW c, Good(c)
    PROVE  LET d == abort_request(c)
           IN  /\ Good(d) /\ SameConn(c, d) /\ ~d.is_pending
               /\ d.wire = c.wire
               /\ ~c.is_pending => d = c
BY DummyResponse, RequestCompleteGood DEF abort_request

(***************************************************************************)
(* Connection                                                              *)
(***************************************************************************)

\* The DISCONNECTED event closes the socket; in CONNECTED and DISCONNECTING
\* it completes the pending request.
LEMMA EventDisconnectedGood ==
    ASSUME NEW c, Good(c)
    PROVE  LET d == event_disconnected(c)
           IN  /\ Good(d) /\ ~d.sock /\ d.tskt = c.tskt
               /\ d.lookups = c.lookups
               /\ c.conn_state = "DISCONNECTING" =>
                     /\ d.conn_state = "DISCONNECTED" /\ ~d.remote
                     /\ ~d.is_pending
               /\ c.conn_state = "CONNECTED" =>
                     /\ d.conn_state = "CONNECTING" /\ d.remote = c.remote
                     /\ ~d.is_pending
               /\ c.conn_state \notin {"CONNECTED", "DISCONNECTING"} =>
                     /\ d.conn_state = c.conn_state /\ d.remote = c.remote
                     /\ d.is_pending = c.is_pending
               /\ ~c.is_pending => d.sessions = c.sessions
<1> DEFINE x == [c EXCEPT !.sock = FALSE, !.wire = {}]
           y == [x EXCEPT !.remote = FALSE]
           d == event_disconnected(c)
<1>1. /\ Good(x) /\ ~x.sock /\ x.tskt = c.tskt /\ x.lookups = c.lookups
      /\ x.remote = c.remote /\ x.is_pending = c.is_pending
      /\ x.sessions = c.sessions /\ x.conn_state = c.conn_state
  <2>1. x \in Client
    BY DEF Good, Client
  <2>2. /\ Same(c, x) /\ ~x.sock /\ x.tskt = c.tskt /\ x.lookups = c.lookups
        /\ x.remote = c.remote /\ x.conn_state = c.conn_state
    BY DEF Good, Client, Same
  <2> HIDE DEF x
  <2> QED BY <2>1, <2>2, SameGood DEF Same
<1>2. /\ Good(y) /\ ~y.sock /\ y.tskt = c.tskt /\ y.lookups = c.lookups
      /\ ~y.remote /\ y.is_pending = c.is_pending /\ y.sessions = c.sessions
  <2> HIDE DEF x
  <2>1. y \in Client
    BY <1>1 DEF Good, Client
  <2>2. /\ Same(x, y) /\ y.sock = x.sock /\ y.tskt = x.tskt
        /\ y.lookups = x.lookups /\ ~y.remote
    BY <1>1 DEF Good, Client, Same
  <2> HIDE DEF y
  <2> QED BY <1>1, <2>1, <2>2, SameGood DEF Same
<1>3. "DISCONNECTED" \in States /\ "CONNECTING" \in States
  BY DEF States
<1>4. CASE c.conn_state = "DISCONNECTING"
  <2>1. d = set_connection_state(abort_request(y), "DISCONNECTED")
    BY <1>4 DEF event_disconnected
  <2> HIDE DEF y
  <2>2. LET a == abort_request(y)
        IN  Good(a) /\ SameConn(y, a) /\ ~a.is_pending /\ (~y.is_pending => a = y)
    BY <1>2, AbortRequestGood
  <2>3. /\ Good(d) /\ SameSlot(abort_request(y), d) /\ d.conn_state = "DISCONNECTED"
        /\ d.sock = y.sock /\ d.tskt = y.tskt /\ d.lookups = y.lookups
        /\ d.remote = y.remote /\ d.sessions = abort_request(y).sessions
    BY <1>3, <2>1, <2>2, SetState DEF SameConn
  <2> HIDE DEF d
  <2>4. ~d.is_pending /\ (~c.is_pending => d.sessions = c.sessions)
    BY <1>2, <2>2, <2>3 DEF SameSlot
  <2> QED BY <1>2, <1>4, <2>3, <2>4 DEF d
<1>5. CASE c.conn_state = "CONNECTED"
  <2>1. d = set_connection_state(abort_request(x), "CONNECTING")
    BY <1>5 DEF event_disconnected
  <2> HIDE DEF x
  <2>2. LET a == abort_request(x)
        IN  Good(a) /\ SameConn(x, a) /\ ~a.is_pending /\ (~x.is_pending => a = x)
    BY <1>1, AbortRequestGood
  <2>3. /\ Good(d) /\ SameSlot(abort_request(x), d) /\ d.conn_state = "CONNECTING"
        /\ d.sock = x.sock /\ d.tskt = x.tskt /\ d.lookups = x.lookups
        /\ d.remote = x.remote /\ d.sessions = abort_request(x).sessions
    BY <1>3, <2>1, <2>2, SetState DEF SameConn
  <2> HIDE DEF d
  <2>4. ~d.is_pending /\ (~c.is_pending => d.sessions = c.sessions)
    BY <1>1, <2>2, <2>3 DEF SameSlot
  <2> QED BY <1>1, <1>5, <2>3, <2>4 DEF d
<1>6. CASE c.conn_state \notin {"CONNECTED", "DISCONNECTING"}
  <2>1. d = x
    BY <1>6 DEF event_disconnected
  <2> HIDE DEF x
  <2> QED BY <1>1, <1>6, <2>1
<1> QED BY <1>4, <1>5, <1>6

\* tskt_client_stop(), with the event it delivers.
LEMMA TsktClientStopGood ==
    ASSUME NEW c, Good(c)
    PROVE  LET d == tskt_client_stop(c)
           IN  /\ Good(d) /\ d.tskt = "stopped" /\ d.lookups = c.lookups
               /\ c.tskt = "connected" =>
                     /\ ~d.sock
                     /\ c.conn_state = "DISCONNECTING" =>
                           /\ d.conn_state = "DISCONNECTED" /\ ~d.remote
                           /\ ~d.is_pending
                     /\ c.conn_state = "CONNECTED" =>
                           /\ d.conn_state = "CONNECTING" /\ ~d.is_pending
                           /\ d.remote = c.remote
               /\ c.tskt # "connected" =>
                     /\ d.sock = c.sock /\ d.conn_state = c.conn_state
                     /\ d.is_pending = c.is_pending /\ d.remote = c.remote
               /\ ~c.is_pending => d.sessions = c.sessions
<1> DEFINE x == [c EXCEPT !.tskt = "stopped"]
           d == tskt_client_stop(c)
<1>1. /\ Good(x) /\ x.tskt = "stopped" /\ x.sock = c.sock /\ x.lookups = c.lookups
      /\ x.remote = c.remote /\ x.is_pending = c.is_pending
      /\ x.sessions = c.sessions /\ x.conn_state = c.conn_state
  <2>1. x \in Client
    BY DEF Good, Client
  <2>2. /\ Same(c, x) /\ x.tskt = "stopped" /\ x.sock = c.sock
        /\ x.lookups = c.lookups /\ x.remote = c.remote
        /\ x.conn_state = c.conn_state
    BY DEF Good, Client, Same
  <2> HIDE DEF x
  <2> QED BY <2>1, <2>2, SameGood DEF Same
<1>2. d = IF c.tskt = "connected" THEN event_disconnected(x) ELSE x
  BY DEF tskt_client_stop
<1> HIDE DEF x
<1>3. CASE c.tskt # "connected"
  <2>1. d = x
    BY <1>2, <1>3
  <2> QED BY <1>1, <1>3, <2>1
<1>4. CASE c.tskt = "connected"
  <2>1. d = event_disconnected(x)
    BY <1>2, <1>4
  <2> HIDE DEF d
  <2>2. /\ Good(d) /\ ~d.sock /\ d.tskt = x.tskt /\ d.lookups = x.lookups
        /\ x.conn_state = "DISCONNECTING" =>
              /\ d.conn_state = "DISCONNECTED" /\ ~d.remote /\ ~d.is_pending
        /\ x.conn_state = "CONNECTED" =>
              /\ d.conn_state = "CONNECTING" /\ ~d.is_pending
              /\ d.remote = x.remote
        /\ ~x.is_pending => d.sessions = x.sessions
    BY <1>1, <2>1, EventDisconnectedGood
  <2> QED BY <1>1, <1>4, <2>2 DEF d
<1> QED BY <1>3, <1>4

\* d is c after a step that leaves the connection alone.
Local(c, d) ==
    /\ Good(d) /\ SameConn(c, d) /\ d.sessions \subseteq c.sessions
    /\ d.is_pending => c.is_pending \/ c.conn_state = "CONNECTED"

\* Such a step keeps the connection part of the invariant.
LEMMA LocalConnection ==
    ASSUME NEW c, NEW d, Local(c, d), Connection(c)
    PROVE  Connection(d)
BY DEF Local, Connection, SameConn

\* The TEARDOWN the client sends itself, or the removal in its stead.
LEMMA GiveUpGood ==
    ASSUME NEW c, Good(c), NEW s \in SessionIds, NEW res
    PROVE  Local(c, GiveUp(c, s, res))
<1> DEFINE d == send_teardown(c, NoMedia, s, res, TRUE, TRUE)
           r == remove_session_internal(d, s)
<1>1. NoMedia \in MediaOrNone /\ TRUE \in BOOLEAN
  BY DEF MediaOrNone
<1>2. /\ Good(d) /\ SameConn(c, d) /\ d.sessions = c.sessions
      /\ d.is_pending => c.is_pending \/ c.conn_state = "CONNECTED"
  <2> DEFINE Kept(x) ==
        /\ Good(x) /\ SameConn(c, x) /\ x.sessions = c.sessions
        /\ x.is_pending => c.is_pending \/ c.conn_state = "CONNECTED"
  <2>1. \A timed, internal \in BOOLEAN :
            Kept(send_teardown(c, NoMedia, s, res, timed, internal))
    BY <1>1, SendTeardownGood
  <2> HIDE DEF Kept
  <2>2. Kept(d)
    BY <1>1, <2>1, Zenon
  <2> QED BY <2>2 DEF Kept
<1>3. GiveUp(c, s, res) = IF send_teardown_ok(c, s, res) THEN d ELSE r
  BY DEF GiveUp
<1> HIDE DEF d
<1>4. /\ Good(r) /\ SameSlot(d, r) /\ SameConn(d, r)
      /\ r.sessions \subseteq d.sessions
  BY <1>2, RemoveSessionInternal
<1> HIDE DEF r
<1> QED BY <1>2, <1>3, <1>4 DEF Local, SameConn, SameSlot

\* The timeout of a keep-alive.
LEMMA KeepAliveTimeoutGood ==
    ASSUME NEW c, Good(c), NEW s \in c.sessions, NEW res
    PROVE  Local(c, keep_alive_timeout(c, s, res))
<1> DEFINE failed == c.failed_keep_alive[s] + 1
           d == [c EXCEPT !.failed_keep_alive[s] = failed]
           e == [d EXCEPT !.timer = @ \ {s}]
<1>1. s \in SessionIds /\ failed \in Nat
  BY DEF Good, Client
<1>2. keep_alive_timeout(c, s, res) =
          IF failed < MaxFailedKeepAlive THEN send_keep_alive(d, s, res)
          ELSE GiveUp(e, s, res)
  BY DEF keep_alive_timeout
<1> HIDE DEF failed
<1>3. /\ Good(d) /\ SameConn(c, d) /\ d.sessions = c.sessions
      /\ d.is_pending = c.is_pending
  <2> DEFINE g == [c.failed_keep_alive EXCEPT ![s] = failed]
             x == [c EXCEPT !.failed_keep_alive = g]
  <2>1. g \in [SessionIds -> Nat]
    BY <1>1, FunTypes DEF Good
  <2> HIDE DEF g
  <2>2. x \in Client
    BY <2>1 DEF Good, Client
  <2>3. Same(c, x) /\ SameConn(c, x)
    BY DEF Good, Client, Same, SameConn
  <2> HIDE DEF x
  <2>4. Good(x)
    BY <2>2, <2>3, SameGood
  <2> QED BY <2>3, <2>4 DEF x, g, Same
<1> HIDE DEF d
<1>4. /\ Good(e) /\ SameConn(d, e) /\ e.sessions = d.sessions
      /\ e.is_pending = d.is_pending
  <2>1. e \in Client
    BY <1>3 DEF Good, Client
  <2>2. Same(d, e) /\ SameConn(d, e)
    BY <1>3 DEF Good, Client, Same, SameConn
  <2> HIDE DEF e
  <2> QED BY <1>3, <2>1, <2>2, SameGood DEF Same
<1> HIDE DEF e
<1>5. CASE failed < MaxFailedKeepAlive
  <2> DEFINE k == send_keep_alive(d, s, res)
  <2>1. /\ Good(k) /\ SameConn(d, k) /\ k.sessions \subseteq d.sessions
        /\ k.is_pending => d.is_pending \/ d.conn_state = "CONNECTED"
    BY <1>3, SendKeepAliveGood
  <2> HIDE DEF k
  <2>2. Local(c, k)
    BY <1>3, <2>1 DEF Local, SameConn
  <2> QED BY <1>2, <1>5, <2>2 DEF k
<1>6. CASE ~(failed < MaxFailedKeepAlive)
  <2> DEFINE k == GiveUp(e, s, res)
  <2>1. Local(e, k)
    BY <1>1, <1>4, GiveUpGood
  <2> HIDE DEF k
  <2>2. Local(c, k)
    BY <1>3, <1>4, <2>1 DEF Local, SameConn
  <2> QED BY <1>2, <1>6, <2>2 DEF k
<1> QED BY <1>5, <1>6

\* request_complete() with status TIMEOUT, up to the reconnection.
LEMMA RequestTimeoutGood ==
    ASSUME NEW c, Good(c), NEW res, NEW connect_ok \in BOOLEAN
    PROVE  LET d == request_timeout(c, res, connect_ok)
           IN  Good(d) /\ (Connection(c) => Connection(d))
<1> DEFINE q == c.request
           resp == Dummy(c)
           sid == q.session
           d == Completed(c, resp, "TIMEOUT")
           r == remove_session_internal(d, sid)
           e == IF q.method = "GET_PARAMETER" /\ sid \in d.sessions
                THEN keep_alive_timeout(d, sid, res)
                ELSE IF SessionRemoved(c, resp) THEN r ELSE d
           f == [e EXCEPT !.failed_requests = @ + 1]
           g == tskt_client_stop(f)
           h == set_connection_state(g, "CONNECTING")
           i == [h EXCEPT !.tskt = IF connect_ok THEN "connecting" ELSE @]
<1>1. CASE ~c.is_pending
  BY <1>1 DEF request_timeout
<1>2. CASE c.is_pending
  <2>1. request_timeout(c, res, connect_ok) =
            IF f.failed_requests < MaxFailedRequests THEN f ELSE i
    BY <1>2 DEF request_timeout
  <2>2. Good(d) /\ SameConn(c, d) /\ ~d.is_pending
    <3>1. resp \in Response /\ SessionOf(q, resp) = sid /\ sid \in SessionOrNone
      BY DummyResponse DEF SessionOf, Good, Client, Request
    <3>2. Completing(c, q, SessionOf(q, resp))
      BY <3>1 DEF Completing
    <3>3. Freed(c, d) /\ d.owed = {}
      BY <3>1, <3>2, CompletedFreed
    <3> HIDE DEF d
    <3> QED BY <3>3, FreedGood DEF Freed
  <2> HIDE DEF d, sid
  <2>3. Good(e) /\ SameConn(c, e) /\ (e.is_pending => c.conn_state = "CONNECTED")
    <3>1. ASSUME sid \in d.sessions
          PROVE  Local(d, keep_alive_timeout(d, sid, res))
      BY <2>2, <3>1, KeepAliveTimeoutGood
    <3>2. Good(r) /\ SameSlot(d, r) /\ SameConn(d, r)
      BY <2>2, RemoveSessionInternal
    <3> HIDE DEF r
    <3> QED BY <2>2, <3>1, <3>2 DEF Local, SameConn, SameSlot
  <2> HIDE DEF e
  <2>4. Good(f) /\ SameConn(e, f) /\ f.is_pending = e.is_pending
    <3>1. e \in Client /\ e.failed_requests + 1 \in Nat
      BY <2>3 DEF Good, Client
    <3>2. f \in Client
      BY <3>1 DEF Client
    <3>3. Same(e, f) /\ SameConn(e, f)
      BY <2>3 DEF Good, Client, Same, SameConn
    <3> HIDE DEF f
    <3> QED BY <2>3, <3>2, <3>3, SameGood DEF Same
  <2> HIDE DEF f
  <2>5. /\ Good(g) /\ g.tskt = "stopped" /\ g.lookups = f.lookups
        /\ f.tskt = "connected" =>
              /\ ~g.sock
              /\ f.conn_state = "CONNECTED" =>
                    /\ g.conn_state = "CONNECTING" /\ ~g.is_pending
                    /\ g.remote = f.remote
    BY <2>4, TsktClientStopGood
  <2> HIDE DEF g
  <2>6. /\ Good(h) /\ SameSlot(g, h) /\ h.conn_state = "CONNECTING"
        /\ h.sock = g.sock /\ h.tskt = g.tskt /\ h.lookups = g.lookups
        /\ h.remote = g.remote
    <3>1. "CONNECTING" \in States
      BY DEF States
    <3> QED BY <2>5, <3>1, SetState
  <2> HIDE DEF h
  <2>7. /\ Good(i) /\ i.is_pending = h.is_pending
        /\ i.conn_state = h.conn_state /\ i.sock = h.sock
        /\ i.lookups = h.lookups /\ i.remote = h.remote
        /\ i.tskt \in {"connecting", h.tskt}
    <3>1. i \in Client
      BY <2>6 DEF Good, Client
    <3>2. /\ Same(h, i) /\ i.conn_state = h.conn_state /\ i.sock = h.sock
          /\ i.lookups = h.lookups /\ i.remote = h.remote
          /\ i.tskt \in {"connecting", h.tskt}
      BY <2>6 DEF Good, Client, Same
    <3> HIDE DEF i
    <3> QED BY <2>6, <3>1, <3>2, SameGood DEF Same
  <2> HIDE DEF i
  <2>8. ASSUME Connection(c) PROVE Connection(f)
    BY <1>2, <2>3, <2>4, <2>8 DEF Connection, SameConn
  <2>9. ASSUME Connection(c) PROVE Connection(i)
    <3>1. f.tskt = "connected" /\ f.conn_state = "CONNECTED" /\ ~(f.lookups > 0)
      BY <1>2, <2>3, <2>4, <2>9 DEF Connection, SameConn
    <3>2. f.lookups <= 1
      BY <2>8, <2>9 DEF Connection
    <3> QED BY <2>5, <2>6, <2>7, <3>1, <3>2 DEF Connection, SameSlot
  <2> QED BY <2>1, <2>4, <2>7, <2>8, <2>9
<1> QED BY <1>1, <1>2

\* rtsp_client_disconnect() from CONNECTING and from CONNECTED.
LEMMA DisconnectGood ==
    ASSUME NEW c, Good(c)
    PROVE  LET d == rtsp_client_disconnect(c)
           IN  Good(d) /\ (Connection(c) => Connection(d))
<1> DEFINE x == set_connection_state(c, "DISCONNECTING")
           d == tskt_client_stop(x)
           y == [d EXCEPT !.remote = FALSE]
           a == abort_request(y)
           z == set_connection_state(a, "DISCONNECTED")
           e == IF c.conn_state = "CONNECTING" THEN z ELSE d
           f == remove_all_sessions(e)
<1>1. CASE c.conn_state \in {"DISCONNECTED", "DISCONNECTING", "DESTROYED"}
  BY <1>1 DEF rtsp_client_disconnect
<1>2. CASE c.conn_state \notin {"DISCONNECTED", "DISCONNECTING", "DESTROYED"}
  <2>1. rtsp_client_disconnect(c) = f
    BY <1>2 DEF rtsp_client_disconnect
  <2>2. /\ Good(x) /\ SameSlot(c, x) /\ x.conn_state = "DISCONNECTING"
        /\ x.sock = c.sock /\ x.tskt = c.tskt /\ x.lookups = c.lookups
        /\ x.remote = c.remote
    <3>1. "DISCONNECTING" \in States
      BY DEF States
    <3> QED BY <3>1, SetState
  <2> HIDE DEF x
  <2>3. /\ Good(d) /\ d.tskt = "stopped" /\ d.lookups = x.lookups
        /\ x.tskt = "connected" =>
              /\ ~d.sock /\ d.conn_state = "DISCONNECTED" /\ ~d.remote
              /\ ~d.is_pending
        /\ x.tskt # "connected" =>
              /\ d.sock = x.sock /\ d.conn_state = x.conn_state
              /\ d.is_pending = x.is_pending /\ d.remote = x.remote
    BY <2>2, TsktClientStopGood
  <2> HIDE DEF d
  <2>4. /\ Good(y) /\ y.tskt = "stopped" /\ y.lookups = d.lookups
        /\ ~y.remote /\ y.sock = d.sock
    <3>1. y \in Client
      BY <2>3 DEF Good, Client
    <3>2. /\ Same(d, y) /\ y.tskt = d.tskt /\ y.lookups = d.lookups
          /\ ~y.remote /\ y.sock = d.sock
      BY <2>3 DEF Good, Client, Same
    <3> HIDE DEF y
    <3> QED BY <2>3, <3>1, <3>2, SameGood
  <2> HIDE DEF y
  <2>5. Good(a) /\ SameConn(y, a) /\ ~a.is_pending
    BY <2>4, AbortRequestGood
  <2> HIDE DEF a
  <2>6. /\ Good(z) /\ SameSlot(a, z) /\ z.conn_state = "DISCONNECTED"
        /\ z.sock = a.sock /\ z.tskt = a.tskt /\ z.lookups = a.lookups
        /\ z.remote = a.remote
    <3>1. "DISCONNECTED" \in States
      BY DEF States
    <3> QED BY <2>5, <3>1, SetState
  <2> HIDE DEF z
  <2>7. Good(e)
    BY <2>3, <2>6
  <2>8. ASSUME Connection(c)
        PROVE  /\ e.conn_state = "DISCONNECTED" /\ ~e.sock /\ ~e.is_pending
               /\ e.tskt = "stopped" /\ e.lookups <= 1 /\ ~e.remote
    <3>1. c.conn_state \in States /\ c.conn_state \in {"CONNECTING", "CONNECTED"}
      BY <1>2 DEF Good, Client, States
    <3>2. CASE c.conn_state = "CONNECTING"
      <4>1. ~c.sock /\ c.tskt # "connected" /\ c.lookups <= 1
        BY <2>8, <3>2 DEF Connection
      <4> QED BY <2>2, <2>3, <2>4, <2>5, <2>6, <3>2, <4>1 DEF SameConn, SameSlot
    <3>3. CASE c.conn_state = "CONNECTED"
      <4>1. c.tskt = "connected" /\ c.lookups <= 1
        BY <2>8, <3>3 DEF Connection
      <4> QED BY <2>2, <2>3, <3>3, <4>1
    <3> QED BY <3>1, <3>2, <3>3
  <2> HIDE DEF e
  <2>9. Good(f) /\ SameSlot(e, f) /\ SameConn(e, f) /\ f.sessions = {}
    BY <2>7, RemoveAllSessions
  <2> HIDE DEF f
  <2>10. ASSUME Connection(c) PROVE Connection(f)
    BY <2>8, <2>9, <2>10 DEF Connection, SameSlot, SameConn
  <2> QED BY <2>1, <2>9, <2>10
<1> QED BY <1>1, <1>2

(***************************************************************************)
(* The actions                                                             *)
(***************************************************************************)

\* At most one host name lookup is in flight: the application does not call
\* rtsp_client_connect() again while a lookup it gave up is still running.
OneLookup == MaxLookups <= 1

\* rtsp_client_new() establishes the invariant.
LEMMA InitIInv == Init => IInv
<1> SUFFICES ASSUME Init PROVE IInv
  OBVIOUS
<1> DEFINE f == [s \in SessionIds |-> 0]
           m == [s \in SessionIds |-> {}]
<1>1. f \in [SessionIds -> Nat] /\ m \in [SessionIds -> SUBSET Medias]
  OBVIOUS
<1>2. NoRequest \in Request
  BY DEF NoRequest, Request, SessionOrNone, MediaOrNone
<1>3. /\ client.cseq = 1 /\ client.request = NoRequest /\ ~client.req_timer
      /\ client.wire = {} /\ client.owed = {} /\ client.timer = {}
      /\ client.keep_alive = {} /\ client.sessions = {}
      /\ client.conn_state = "DISCONNECTED" /\ ~client.sock
      /\ client.tskt = "stopped" /\ ~client.is_pending /\ client.lookups = 0
  BY DEF Init, NewClient
<1>4. client \in Client
  <2> HIDE DEF f, m
  <2> QED BY <1>1, <1>2 DEF Init, NewClient, Client, States, f, m
<1>5. Slot(client) /\ Flags(client)
  BY <1>3 DEF Slot, Flags, NoRequest
<1>6. Connection(client)
  BY <1>3 DEF Connection
<1> QED BY <1>4, <1>5, <1>6 DEF IInv, Good

\* rtsp_client_connect(): this is where OneLookup is needed.
LEMMA ConnectStep ==
    ASSUME OneLookup, IInv, NEW res, Connect(res)
    PROVE  IInv'
<1> DEFINE c == client
           x == set_connection_state(c, "CONNECTING")
           y == [x EXCEPT !.remote = TRUE, !.resolv_timer = TRUE,
                          !.lookups = @ + 1]
           z == [c EXCEPT !.remote = FALSE,
                          !.resolv_timer = @ \/ res = "ERESOLV"]
<1>1. client' = IF res = "OK" THEN y ELSE z
  BY DEF Connect, Becomes
<1>2. Good(c) /\ Connection(c) /\ c.conn_state = "DISCONNECTED" /\ c.lookups = 0
  BY ClientAssumption DEF IInv, Connect, OneLookup, Good, Client
<1>3. /\ Good(x) /\ SameSlot(c, x) /\ x.conn_state = "CONNECTING"
      /\ x.sock = c.sock /\ x.tskt = c.tskt /\ x.lookups = c.lookups
      /\ x.sessions = c.sessions
  <2>1. "CONNECTING" \in States
    BY DEF States
  <2> QED BY <1>2, <2>1, SetState
<1> HIDE DEF x
<1>4. Good(y) /\ Connection(y)
  <2>1. y \in Client
    <3>1. x \in Client /\ x.lookups + 1 \in Nat
      BY <1>3 DEF Good, Client
    <3> QED BY <3>1 DEF Client
  <2>2. /\ Same(x, y) /\ y.conn_state = x.conn_state /\ y.sock = x.sock
        /\ y.tskt = x.tskt /\ y.lookups = x.lookups + 1 /\ y.remote
    BY <1>3 DEF Good, Client, Same
  <2> HIDE DEF y
  <2>3. Good(y)
    BY <1>3, <2>1, <2>2, SameGood
  <2>4. Connection(y)
    BY <1>2, <1>3, <2>2 DEF Connection, Same, SameSlot
  <2> QED BY <2>3, <2>4
<1>5. Good(z) /\ Connection(z)
  <2>1. (c.resolv_timer \/ res = "ERESOLV") \in BOOLEAN /\ c \in Client
    BY <1>2 DEF Good, Client
  <2>2. z \in Client
    BY <2>1 DEF Client
  <2>3. /\ Same(c, z) /\ z.conn_state = c.conn_state /\ z.sock = c.sock
        /\ z.tskt = c.tskt /\ z.lookups = c.lookups
    BY <1>2 DEF Good, Client, Same
  <2> HIDE DEF z
  <2>4. Good(z)
    BY <1>2, <2>2, <2>3, SameGood
  <2>5. Connection(z)
    BY <1>2, <2>3 DEF Connection, Same
  <2> QED BY <2>4, <2>5
<1> HIDE DEF y, z
<1> QED BY <1>1, <1>4, <1>5 DEF IInv

\* tskt_resolv_cb()
LEMMA ResolvDoneStep ==
    ASSUME IInv, NEW ok \in BOOLEAN, ResolvDone(ok)
    PROVE  IInv'
<1> DEFINE c == client
           x == [c EXCEPT !.lookups = @ - 1, !.resolv_timer = FALSE]
           y == [x EXCEPT !.tskt = "connecting"]
           z == set_connection_state(x, "DISCONNECTED")
<1>1. client' = IF ok THEN y ELSE z
  BY DEF ResolvDone, Becomes
<1>2. Good(c) /\ Connection(c) /\ c.lookups > 0 /\ (ok => c.remote)
  BY DEF IInv, ResolvDone
<1>3. c.lookups = 1 /\ ~c.is_pending /\ ~c.sock
  BY <1>2 DEF Connection, Good, Client
<1>4. /\ Good(x) /\ x.lookups = 0 /\ x.conn_state = c.conn_state
      /\ x.sock = c.sock /\ x.tskt = c.tskt /\ x.is_pending = c.is_pending
      /\ x.sessions = c.sessions /\ x.remote = c.remote
  <2>1. c \in Client /\ c.lookups - 1 = 0 /\ c.lookups - 1 \in Nat
    BY <1>2, <1>3 DEF Good
  <2>2. x \in Client
    BY <2>1 DEF Client
  <2>3. /\ Same(c, x) /\ x.lookups = 0 /\ x.conn_state = c.conn_state
        /\ x.sock = c.sock /\ x.tskt = c.tskt /\ x.remote = c.remote
    BY <2>1 DEF Client, Same
  <2> HIDE DEF x
  <2> QED BY <1>2, <2>2, <2>3, SameGood DEF Same
<1> HIDE DEF x
<1>5. ASSUME ok PROVE Good(y) /\ Connection(y)
  <2>1. y \in Client
    BY <1>4 DEF Good, Client
  <2>2. /\ Same(x, y) /\ y.tskt = "connecting" /\ y.conn_state = x.conn_state
        /\ y.sock = x.sock /\ y.lookups = x.lookups
    BY <1>4 DEF Good, Client, Same
  <2> HIDE DEF y
  <2>3. Good(y)
    BY <1>4, <2>1, <2>2, SameGood
  <2>4. c.conn_state = "CONNECTING"
    BY <1>2, <1>5 DEF Connection
  <2>5. Connection(y)
    BY <1>3, <1>4, <2>2, <2>4 DEF Connection, Same
  <2> QED BY <2>3, <2>5
<1>6. Good(z) /\ Connection(z)
  <2>1. "DISCONNECTED" \in States
    BY DEF States
  <2>2. /\ Good(z) /\ SameSlot(x, z) /\ z.conn_state = "DISCONNECTED"
        /\ z.sock = x.sock /\ z.tskt = x.tskt /\ z.lookups = x.lookups
        /\ z.sessions = x.sessions
    BY <1>4, <2>1, SetState
  <2> HIDE DEF z
  <2>3. Connection(z)
    BY <1>2, <1>3, <1>4, <2>2 DEF Connection, SameSlot
  <2> QED BY <2>2, <2>3
<1> HIDE DEF y, z
<1> QED BY <1>1, <1>5, <1>6 DEF IInv

\* resolv_timer_cb()
LEMMA ResolvTimeoutStep ==
    ASSUME IInv, ResolvTimeout
    PROVE  IInv'
<1> DEFINE c == client
           n == IF c.lookups > 0 THEN c.lookups - 1 ELSE c.lookups
           x == [c EXCEPT !.resolv_timer = FALSE, !.lookups = n]
<1>1. client' = rtsp_client_disconnect(x)
  BY DEF ResolvTimeout, Becomes
<1>2. Good(c) /\ Connection(c)
  BY DEF IInv
<1>3. c \in Client /\ n \in Nat /\ (n > 0 => c.lookups > 0) /\ n <= 1
  BY <1>2 DEF Good, Client, Connection
<1> HIDE DEF n
<1>4. x \in Client
  BY <1>3 DEF Client
<1>5. /\ Same(c, x) /\ x.conn_state = c.conn_state /\ x.sock = c.sock
      /\ x.tskt = c.tskt /\ x.lookups = n /\ x.remote = c.remote
  BY <1>3 DEF Client, Same
<1> HIDE DEF x
<1>6. Good(x)
  BY <1>2, <1>4, <1>5, SameGood
<1>7. Connection(x)
  BY <1>2, <1>3, <1>5 DEF Connection, Same
<1> QED BY <1>1, <1>6, <1>7, DisconnectGood DEF IInv

\* rtsp_client_disconnect()
LEMMA DisconnectStep ==
    ASSUME IInv, Disconnect
    PROVE  IInv'
BY DisconnectGood DEF IInv, Disconnect, Becomes

\* The keep-alives of the CONNECTED event.
LEMMA KeepAliveAllGood ==
    ASSUME NEW c, Good(c), NEW failed \in SUBSET c.sessions, NEW first, NEW res,
           first # NoSession => first \in c.sessions,
           first = NoSession => failed = c.sessions \ c.keep_alive
    PROVE  Local(c, keep_alive_all(c, failed, first, res))
<1> DEFINE ready == IF Allowed(c, "GET_PARAMETER")
                    THEN c.sessions \ c.keep_alive ELSE {}
           later == IF c.is_pending THEN ready
                    ELSE ready \ (failed \cup {first})
           d == [c EXCEPT !.timer = @ \cup later]
           any == CHOOSE s \in failed : TRUE
<1>1. keep_alive_all(c, failed, first, res) =
          IF c.is_pending \/ ready = {} THEN d
          ELSE IF first # NoSession THEN send_keep_alive(d, first, res)
          ELSE send_keep_alive(d, any, "ERR")
  BY DEF keep_alive_all
<1>2. later \subseteq c.sessions
  OBVIOUS
<1>3. first = NoSession /\ ready # {} => any \in c.sessions
  <2> SUFFICES ASSUME first = NoSession, ready # {} PROVE any \in c.sessions
    OBVIOUS
  <2>1. \E s \in failed : TRUE
    OBVIOUS
  <2> QED BY <2>1
<1> HIDE DEF later, any
<1>4. /\ Good(d) /\ SameConn(c, d) /\ d.sessions = c.sessions
      /\ d.is_pending = c.is_pending
  <2>1. d \in Client
    BY <1>2 DEF Good, Client
  <2>2. /\ SameSlot(c, d) /\ SameConn(c, d) /\ d.sessions = c.sessions
        /\ Flags(d)
    BY <1>2 DEF Good, Client, SameSlot, SameConn, Flags
  <2> HIDE DEF d
  <2> QED BY <2>1, <2>2, SlotFrame DEF Good, SameSlot
<1> HIDE DEF d
<1>5. \A s \in d.sessions : \A r : Local(c, send_keep_alive(d, s, r))
  <2> TAKE s \in d.sessions
  <2> TAKE r
  <2> DEFINE k == send_keep_alive(d, s, r)
  <2>1. /\ Good(k) /\ SameConn(d, k) /\ k.sessions \subseteq d.sessions
        /\ k.is_pending => d.is_pending \/ d.conn_state = "CONNECTED"
    BY <1>4, SendKeepAliveGood
  <2> HIDE DEF k
  <2>2. Local(c, k)
    BY <1>4, <2>1 DEF Local, SameConn
  <2> QED BY <2>2 DEF k
<1>6. Local(c, d)
  BY <1>4 DEF Local
<1> HIDE DEF ready
<1>7. CASE c.is_pending \/ ready = {}
  BY <1>1, <1>6, <1>7
<1>8. CASE ~(c.is_pending \/ ready = {}) /\ first # NoSession
  BY <1>1, <1>4, <1>5, <1>8
<1>9. CASE ~(c.is_pending \/ ready = {}) /\ first = NoSession
  BY <1>1, <1>3, <1>4, <1>5, <1>9
<1> QED BY <1>7, <1>8, <1>9

\* TSKT_CLIENT_EVENT_CONNECTED
LEMMA SocketConnectedStep ==
    ASSUME IInv, NEW failed, NEW first \in SessionOrNone, NEW res,
           SocketConnected(failed, first, res)
    PROVE  IInv'
<1> DEFINE c == client
           x == [c EXCEPT !.sock = TRUE, !.tskt = "connected"]
           y == set_connection_state(x, "CONNECTED")
           z == keep_alive_all(y, failed, first, res)
<1>1. client' = z
  BY DEF SocketConnected, Becomes
<1>2. Good(c) /\ Connection(c) /\ c.tskt = "connecting"
  BY DEF IInv, SocketConnected
<1>3. /\ failed \subseteq c.sessions \ c.keep_alive
      /\ first # NoSession => first \in c.sessions
      /\ first = NoSession => failed = c.sessions \ c.keep_alive
  BY DEF SocketConnected
<1>4. /\ Good(x) /\ x.sock /\ x.tskt = "connected" /\ x.lookups = c.lookups
      /\ x.is_pending = c.is_pending /\ x.sessions = c.sessions
      /\ x.keep_alive = c.keep_alive
  <2>1. x \in Client
    BY <1>2 DEF Good, Client
  <2>2. /\ Same(c, x) /\ x.sock /\ x.tskt = "connected"
        /\ x.lookups = c.lookups /\ x.keep_alive = c.keep_alive
    BY <1>2 DEF Good, Client, Same
  <2> HIDE DEF x
  <2> QED BY <1>2, <2>1, <2>2, SameGood DEF Same
<1> HIDE DEF x
<1>5. /\ Good(y) /\ SameSlot(x, y) /\ y.conn_state = "CONNECTED"
      /\ y.sock = x.sock /\ y.tskt = x.tskt /\ y.lookups = x.lookups
      /\ y.sessions = x.sessions
  <2>1. "CONNECTED" \in States
    BY DEF States
  <2> QED BY <1>4, <2>1, SetState
<1>6. y.keep_alive = x.keep_alive
  BY <1>4 DEF set_connection_state, Good, Client
<1> HIDE DEF y
<1>7. Connection(y)
  BY <1>2, <1>4, <1>5 DEF Connection
<1>8. Local(y, z)
  BY <1>3, <1>4, <1>5, <1>6, KeepAliveAllGood
<1> HIDE DEF z
<1>9. Good(z) /\ Connection(z)
  BY <1>7, <1>8, LocalConnection DEF Local
<1> QED BY <1>1, <1>9 DEF IInv

\* TSKT_CLIENT_EVENT_DISCONNECTED, by the network.
LEMMA SocketDisconnectedStep ==
    ASSUME IInv, SocketDisconnected
    PROVE  IInv'
<1> DEFINE c == client
           x == [c EXCEPT !.tskt = "connecting"]
           y == event_disconnected(x)
<1>1. client' = y
  BY DEF SocketDisconnected, Becomes
<1>2. Good(c) /\ Connection(c) /\ c.tskt = "connected"
  BY DEF IInv, SocketDisconnected
<1>3. c.conn_state = "CONNECTED" /\ ~(c.lookups > 0) /\ c.lookups <= 1
  BY <1>2 DEF Connection
<1>4. /\ Good(x) /\ x.tskt = "connecting" /\ x.lookups = c.lookups
      /\ x.conn_state = c.conn_state
  <2>1. x \in Client
    BY <1>2 DEF Good, Client
  <2>2. /\ Same(c, x) /\ x.tskt = "connecting" /\ x.lookups = c.lookups
        /\ x.conn_state = c.conn_state
    BY <1>2 DEF Good, Client, Same
  <2> HIDE DEF x
  <2> QED BY <1>2, <2>1, <2>2, SameGood
<1> HIDE DEF x
<1>5. /\ Good(y) /\ ~y.sock /\ y.tskt = x.tskt /\ y.lookups = x.lookups
      /\ y.conn_state = "CONNECTING" /\ ~y.is_pending
  BY <1>3, <1>4, EventDisconnectedGood
<1> HIDE DEF y
<1>6. Connection(y)
  BY <1>3, <1>4, <1>5 DEF Connection
<1> QED BY <1>1, <1>5, <1>6 DEF IInv

\* rtsp_client_destroy()
LEMMA DestroyStep ==
    ASSUME IInv, Destroy
    PROVE  IInv'
<1> DEFINE x == [client EXCEPT !.req_timer = FALSE]
           y == tskt_client_stop(x)
           c == remove_all_sessions(y)
           d == [c EXCEPT !.conn_state = "DESTROYED", !.lookups = 0,
                          !.resolv_timer = FALSE, !.remote = FALSE,
                          !.request = NoRequest]
<1>1. client' = d
  BY DEF Destroy, Becomes
<1>2. Good(client) /\ Connection(client)
  BY DEF IInv
<1>3. /\ Good(x) /\ x.tskt = client.tskt /\ x.conn_state = client.conn_state
      /\ x.sock = client.sock /\ x.is_pending = client.is_pending
  <2>1. x \in Client
    BY <1>2 DEF Good, Client
  <2>2. /\ Same(client, x) /\ x.tskt = client.tskt /\ x.sock = client.sock
        /\ x.conn_state = client.conn_state
    BY <1>2 DEF Good, Client, Same
  <2> HIDE DEF x
  <2> QED BY <1>2, <2>1, <2>2, SameGood DEF Same
<1> HIDE DEF x
<1>4. Good(y) /\ y.tskt = "stopped" /\ ~y.sock /\ ~y.is_pending
  <2>1. x.tskt = "connected" => x.conn_state = "CONNECTED"
    BY <1>2, <1>3 DEF Connection
  <2>2. x.tskt # "connected" => ~x.sock /\ ~x.is_pending
    BY <1>2, <1>3 DEF Connection
  <2> QED BY <1>3, <2>1, <2>2, TsktClientStopGood
<1> HIDE DEF y
<1>5. Good(c) /\ SameSlot(y, c) /\ SameConn(y, c) /\ c.sessions = {}
  BY <1>4, RemoveAllSessions
<1>6. c.tskt = "stopped" /\ ~c.sock /\ ~c.is_pending
  BY <1>4, <1>5 DEF SameSlot, SameConn
<1> HIDE DEF c
<1>7. NoRequest \in Request /\ NoRequest.cseq = 0 /\ NoRequest.method # "SETUP"
  BY DEF NoRequest, Request, SessionOrNone, MediaOrNone
<1>8. d \in Client
  BY <1>5, <1>7 DEF Good, Client, States
<1>9. /\ d.conn_state = "DESTROYED" /\ d.lookups = 0 /\ ~d.remote
      /\ d.request = NoRequest /\ d.tskt = c.tskt /\ d.sock = c.sock
      /\ d.is_pending = c.is_pending /\ d.sessions = c.sessions
      /\ d.timer = c.timer /\ d.keep_alive = c.keep_alive
      /\ d.owed = c.owed /\ d.wire = c.wire /\ d.cseq = c.cseq
      /\ d.req_timer = c.req_timer
  BY <1>5 DEF Good, Client
<1> HIDE DEF d
<1>10. Slot(d)
  <2>1. \A m \in d.wire : 0 < m.cseq /\ m.cseq < d.cseq /\ m.cseq # 0
    BY <1>5, <1>9 DEF Good, Slot, Client, Request
  <2> QED BY <1>5, <1>6, <1>7, <1>9, <2>1 DEF Good, Slot
<1>11. Flags(d)
  BY <1>5, <1>9 DEF Good, Flags
<1>12. Connection(d)
  BY <1>5, <1>6, <1>9 DEF Connection
<1> QED BY <1>1, <1>8, <1>10, <1>11, <1>12 DEF IInv, Good

\* d is c after the application called for a request that may be accepted.
Requested(c, d) ==
    /\ Good(d) /\ SameConn(c, d) /\ d.sessions = c.sessions
    /\ d.cseq # c.cseq =>
          /\ d.is_pending /\ d.owed = {} /\ d.request.cseq = c.cseq
          /\ d.request.method \in Methods \ {"GET_PARAMETER"}
          /\ d.request.method = "TEARDOWN" =>
                /\ d.request.session \in SessionIds \ d.internal_teardown
                /\ ~d.is_internal

\* An accepted request is owed its callback.
LEMMA AcceptedGood ==
    ASSUME NEW c, Good(c), Connection(c), c.conn_state = "CONNECTED",
           NEW d, Requested(c, d)
    PROVE  Good(Accepted(c, d)) /\ Connection(Accepted(c, d))
<1> DEFINE a == [d EXCEPT !.owed = @ \cup {c.cseq}]
<1>1. CASE d.cseq = c.cseq
  <2>1. Local(c, d)
    BY DEF Local, Requested
  <2> QED BY <1>1, <2>1, LocalConnection DEF Accepted, Requested
<1>2. CASE d.cseq # c.cseq
  <2>1. Accepted(c, d) = a
    BY <1>2 DEF Accepted
  <2>2. a \in Client
    BY DEF Requested, Good, Client
  <2>3. /\ SameConn(d, a) /\ a.sessions = d.sessions /\ a.cseq = d.cseq
        /\ a.request = d.request /\ a.is_pending = d.is_pending
        /\ a.is_internal = d.is_internal /\ a.req_timer = d.req_timer
        /\ a.wire = d.wire /\ a.internal_teardown = d.internal_teardown
        /\ a.timer = d.timer /\ a.keep_alive = d.keep_alive
        /\ a.owed = d.owed \cup {c.cseq}
    BY DEF Requested, Good, Client, SameConn
  <2> HIDE DEF a
  <2>4. a.owed = {a.request.cseq}
    BY <1>2, <2>3 DEF Requested
  <2>5. Slot(a)
    BY <1>2, <2>3, <2>4 DEF Requested, Good, Slot
  <2>6. Flags(a)
    BY <2>3 DEF Requested, Good, Flags
  <2>7. Good(a)
    BY <2>2, <2>5, <2>6 DEF Good
  <2>8. Local(c, a)
    BY <2>3, <2>7 DEF Local, Requested, SameConn
  <2> QED BY <2>1, <2>7, <2>8, LocalConnection
<1> QED BY <1>1, <1>2

\* Requests without a session.
LEMMA SendRequestRequested ==
    ASSUME NEW c, Good(c), NEW m \in Methods \ {"GET_PARAMETER", "TEARDOWN"},
           NEW s \in SessionOrNone, NEW md \in MediaOrNone, NEW res,
           NEW timed \in BOOLEAN, m = "SETUP" => md \in Medias
    PROVE  Requested(c, SendRequest(c, m, s, md, res, timed))
<1> DEFINE d == SendRequest(c, m, s, md, res, timed)
<1>1. Sent(c, d, m, s) /\ d.owed = {}
  BY SendRequestGood
<1> HIDE DEF d
<1>2. Requested(c, d)
  BY <1>1 DEF Sent, Requested
<1> QED BY <1>2 DEF d

\* Requests for a session: PLAY, PAUSE, RECORD, SETUP of a further media.
LEMMA ForSessionRequested ==
    ASSUME NEW c, Good(c), NEW m \in Methods \ {"GET_PARAMETER", "TEARDOWN"},
           NEW s \in SessionIds, NEW md \in MediaOrNone, NEW res,
           NEW timed \in BOOLEAN, m = "SETUP" => md \in Medias
    PROVE  Requested(c, ForSession(c, m, s, md, res, timed))
<1> DEFINE b == clear_pending_keep_alive_timer(c)
<1>1. Requested(c, b)
  <2>1. Good(b) /\ SameConn(c, b) /\ b.sessions = c.sessions /\ b.cseq = c.cseq
    BY ClearTimerGood
  <2> HIDE DEF b
  <2> QED BY <2>1 DEF Requested
<1>2. Requested(c, SendRequest(c, m, s, md, res, timed))
  BY SendRequestRequested DEF SessionOrNone
<1> HIDE DEF b
<1> QED BY <1>1, <1>2 DEF ForSession, b

\* TEARDOWN of the application.
LEMMA TeardownRequested ==
    ASSUME NEW c, Good(c), NEW s \in SessionIds, NEW md \in MediaOrNone,
           NEW res, NEW timed \in BOOLEAN
    PROVE  Requested(c, send_teardown(c, md, s, res, timed, FALSE))
<1>1. \A internal \in BOOLEAN :
          ~internal => Requested(c, send_teardown(c, md, s, res, timed, internal))
  <2> SUFFICES ASSUME NEW internal \in BOOLEAN, ~internal
               PROVE  Requested(c, send_teardown(c, md, s, res, timed, internal))
    OBVIOUS
  <2> DEFINE d == send_teardown(c, md, s, res, timed, internal)
  <2>1. /\ Good(d) /\ SameConn(c, d) /\ d.sessions = c.sessions
        /\ d.cseq # c.cseq =>
              /\ d.is_pending /\ d.owed = {}
              /\ d.request.method = "TEARDOWN" /\ d.request.session = s
              /\ d.request.cseq = c.cseq /\ d.is_internal = internal
              /\ ~internal => s \notin d.internal_teardown
    BY SendTeardownGood
  <2> HIDE DEF d
  <2>2. Requested(c, d)
    BY <2>1 DEF Requested, Methods, SessionMethods
  <2> QED BY <2>2 DEF d
<1>2. FALSE \in BOOLEAN /\ ~FALSE
  OBVIOUS
<1> QED BY <1>1, <1>2, Zenon

\* Every request function of the API.
LEMMA RequestStep ==
    ASSUME IInv, RequestNext
    PROVE  IInv'
<1>0. Good(client) /\ Connection(client)
  BY DEF IInv
<1> PICK res \in SendResults, timed \in BOOLEAN :
        \/ Options(res, timed) \/ Describe(res, timed) \/ Announce(res, timed)
        \/ \E s \in SessionOrNone, md \in Medias : Setup(s, md, res, timed)
        \/ \E s \in SessionIds : Play(s, res, timed)
        \/ \E s \in SessionIds : Pause(s, res, timed)
        \/ \E s \in SessionIds : Record(s, res, timed)
        \/ \E s \in SessionIds, md \in MediaOrNone : Teardown(s, md, res, timed)
  BY DEF RequestNext
<1> SUFFICES \E d : /\ client.conn_state = "CONNECTED" /\ Requested(client, d)
                    /\ client' = Accepted(client, d)
  BY <1>0, AcceptedGood DEF IInv
<1>1. /\ {"OPTIONS", "DESCRIBE", "ANNOUNCE", "SETUP", "PLAY", "PAUSE", "RECORD"}
             \subseteq Methods \ {"GET_PARAMETER", "TEARDOWN"}
      /\ NoSession \in SessionOrNone /\ NoMedia \in MediaOrNone
      /\ Medias \subseteq MediaOrNone
  BY DEF Methods, SessionlessMethods, SessionMethods, SessionOrNone, MediaOrNone
<1>2. \A m : CanRequest(client, m) => client.conn_state = "CONNECTED"
  BY DEF CanRequest, CanSend
<1>3. CanSend(client) => client.conn_state = "CONNECTED"
  BY DEF CanSend
<1>4. CASE Options(res, timed)
  <2> DEFINE d == rtsp_client_options(client, res, timed)
  <2>1. Requested(client, d)
    BY <1>0, <1>1, SendRequestRequested DEF rtsp_client_options
  <2> HIDE DEF d
  <2> QED BY <1>3, <1>4, <2>1 DEF Options, Becomes, d
<1>5. CASE Describe(res, timed)
  <2> DEFINE d == rtsp_client_describe(client, res, timed)
  <2>1. Requested(client, d)
    BY <1>0, <1>1, SendRequestRequested DEF rtsp_client_describe
  <2> HIDE DEF d
  <2> QED BY <1>2, <1>5, <2>1 DEF Describe, Becomes, d
<1>6. CASE Announce(res, timed)
  <2> DEFINE d == rtsp_client_announce(client, res, timed)
  <2>1. Requested(client, d)
    BY <1>0, <1>1, SendRequestRequested DEF rtsp_client_announce
  <2> HIDE DEF d
  <2> QED BY <1>2, <1>6, <2>1 DEF Announce, Becomes, d
<1>7. CASE \E s \in SessionOrNone, md \in Medias : Setup(s, md, res, timed)
  <2> PICK s \in SessionOrNone, md \in Medias : Setup(s, md, res, timed)
    BY <1>7
  <2> DEFINE d == rtsp_client_setup(client, s, md, res, timed)
  <2>1. CASE s = NoSession
    <3>1. Requested(client, SendRequest(client, "SETUP", s, md, res, timed))
      BY <1>0, <1>1, SendRequestRequested
    <3>2. Requested(client, d)
      BY <2>1, <3>1 DEF rtsp_client_setup
    <3> HIDE DEF d
    <3> QED BY <1>2, <3>2 DEF Setup, Becomes, d
  <2>2. CASE s # NoSession
    <3>1. s \in SessionIds
      BY <2>2 DEF SessionOrNone
    <3>2. Requested(client, ForSession(client, "SETUP", s, md, res, timed))
      BY <1>0, <1>1, <3>1, ForSessionRequested
    <3>3. Requested(client, d)
      BY <2>2, <3>2 DEF rtsp_client_setup
    <3> HIDE DEF d
    <3> QED BY <1>2, <3>3 DEF Setup, Becomes, d
  <2> QED BY <2>1, <2>2
<1>8. CASE \E s \in SessionIds : Play(s, res, timed)
  <2> PICK s \in SessionIds : Play(s, res, timed)
    BY <1>8
  <2> DEFINE d == rtsp_client_play(client, s, res, timed)
  <2>1. Requested(client, d)
    BY <1>0, <1>1, ForSessionRequested DEF rtsp_client_play
  <2> HIDE DEF d
  <2> QED BY <1>2, <2>1 DEF Play, Becomes, d
<1>9. CASE \E s \in SessionIds : Pause(s, res, timed)
  <2> PICK s \in SessionIds : Pause(s, res, timed)
    BY <1>9
  <2> DEFINE d == rtsp_client_pause(client, s, res, timed)
  <2>1. Requested(client, d)
    BY <1>0, <1>1, ForSessionRequested DEF rtsp_client_pause
  <2> HIDE DEF d
  <2> QED BY <1>2, <2>1 DEF Pause, Becomes, d
<1>10. CASE \E s \in SessionIds : Record(s, res, timed)
  <2> PICK s \in SessionIds : Record(s, res, timed)
    BY <1>10
  <2> DEFINE d == rtsp_client_record(client, s, res, timed)
  <2>1. Requested(client, d)
    BY <1>0, <1>1, ForSessionRequested DEF rtsp_client_record
  <2> HIDE DEF d
  <2> QED BY <1>2, <2>1 DEF Record, Becomes, d
<1>11. CASE \E s \in SessionIds, md \in MediaOrNone : Teardown(s, md, res, timed)
  <2> PICK s \in SessionIds, md \in MediaOrNone : Teardown(s, md, res, timed)
    BY <1>11
  <2> DEFINE d == send_teardown(client, md, s, res, timed, FALSE)
  <2>1. Requested(client, d)
    BY <1>0, TeardownRequested
  <2>2. client' = Accepted(client, d) /\ CanRequest(client, "TEARDOWN")
    BY DEF Teardown, Becomes
  <2> HIDE DEF d
  <2> QED BY <1>2, <2>1, <2>2
<1> QED BY <1>4, <1>5, <1>6, <1>7, <1>8, <1>9, <1>10, <1>11

\* While connected no lookup is in flight, so sessions may come and go.
LEMMA ConnectedConnection ==
    ASSUME NEW c, Connection(c), c.conn_state = "CONNECTED",
           NEW d, SameConn(c, d)
    PROVE  Connection(d)
BY DEF Connection, SameConn

\* request_complete() keeps both parts of the invariant.
LEMMA CompleteKeeps ==
    ASSUME NEW c, Good(c), Connection(c), NEW resp \in Response, NEW status,
           c.request.session # NoSession =>
               resp.session \in {c.request.session, NoSession}
    PROVE  LET d == request_complete(c, resp, status)
           IN  Good(d) /\ Connection(d)
<1> DEFINE d == request_complete(c, resp, status)
<1>1. Good(d) /\ SameConn(c, d) /\ (~c.is_pending => d = c)
  BY RequestCompleteGood
<1> HIDE DEF d
<1>2. c.is_pending => c.conn_state = "CONNECTED"
  BY DEF Connection
<1>3. Connection(d)
  BY <1>1, <1>2, ConnectedConnection
<1> QED BY <1>1, <1>3 DEF d

\* rtsp_client_response_process(), for the request in the slot or a
\* keep-alive.
LEMMA ResponseProcessGood ==
    ASSUME NEW c, Good(c), Connection(c), NEW cseq, NEW resp \in Response,
           NEW s, s # NoSession => s \in c.keep_alive,
           cseq = c.request.cseq /\ c.request.session # NoSession =>
               resp.session \in {c.request.session, NoSession}
    PROVE  LET d == response_process(c, cseq, resp, s)
           IN  Good(d) /\ Connection(d)
<1> DEFINE d == response_process(c, cseq, resp, s)
           x == [c EXCEPT !.keep_alive = @ \ {s}]
           y == RetryLater(x, s)
<1>1. d = IF cseq = c.request.cseq THEN request_complete(c, resp, "OK")
          ELSE IF s = NoSession THEN c ELSE y
  BY DEF response_process
<1>2. CASE cseq = c.request.cseq
  BY <1>1, <1>2, CompleteKeeps
<1>3. CASE cseq # c.request.cseq /\ s = NoSession
  BY <1>1, <1>3
<1>4. CASE cseq # c.request.cseq /\ s # NoSession
  <2>1. Good(x) /\ Same(c, x) /\ SameConn(c, x)
    <3>1. x \in Client
      BY DEF Good, Client
    <3>2. Same(c, x) /\ SameConn(c, x)
      BY DEF Good, Client, Same, SameConn
    <3> HIDE DEF x
    <3> QED BY <3>1, <3>2, SameGood
  <2> HIDE DEF x
  <2>2. s \in x.sessions
    BY <1>4, <2>1 DEF Good, Flags, Same
  <2>3. Good(y) /\ SameSlot(x, y) /\ SameConn(x, y) /\ y.sessions = x.sessions
    BY <2>1, <2>2, RetryLaterGood
  <2> HIDE DEF y
  <2>4. Local(c, y)
    BY <2>1, <2>3 DEF Local, SameConn, SameSlot, Same
  <2> QED BY <1>1, <1>4, <2>3, <2>4, LocalConnection
<1> QED BY <1>2, <1>3, <1>4

\* An answer that has been received is no longer to come.
LEMMA WireGood ==
    ASSUME NEW c, Good(c), Connection(c), NEW m
    PROVE  LET d == [c EXCEPT !.wire = @ \ {m}] IN Good(d) /\ Connection(d)
<1> DEFINE d == [c EXCEPT !.wire = @ \ {m}]
<1>1. d \in Client
  BY DEF Good, Client
<1>2. Same(c, d) /\ SameConn(c, d)
  BY DEF Good, Client, Same, SameConn
<1> HIDE DEF d
<1>3. Good(d)
  BY <1>1, <1>2, SameGood
<1>4. Local(c, d)
  BY <1>2, <1>3 DEF Local, Same
<1> QED BY <1>3, <1>4, LocalConnection DEF d

\* An answer with a CSeq.
LEMMA ReceiveResponseStep ==
    ASSUME IInv, NEW m, NEW resp \in Response, NEW s \in SessionOrNone,
           ReceiveResponse(m, resp, s)
    PROVE  IInv'
<1> DEFINE d == response_process(client, m.cseq, resp, s)
<1>0. Good(client) /\ Connection(client)
  BY DEF IInv
<1>1. client' = [d EXCEPT !.wire = @ \ {m}]
  BY DEF ReceiveResponse, Becomes
<1>2. /\ m \in client.wire /\ (s # NoSession => s \in client.keep_alive)
      /\ m.session # NoSession => resp.session \in {m.session, NoSession}
  BY DEF ReceiveResponse
<1>3. m.cseq = client.request.cseq => m = client.request
  BY <1>0, <1>2 DEF Good, Slot
<1>4. Good(d) /\ Connection(d)
  BY <1>0, <1>2, <1>3, ResponseProcessGood
<1> HIDE DEF d
<1> QED BY <1>1, <1>4, WireGood DEF IInv

\* An answer without one.
LEMMA ReceiveNoCseqStep ==
    ASSUME IInv, NEW m, NEW s \in SessionOrNone, ReceiveNoCseq(m, s)
    PROVE  IInv'
<1> DEFINE resp == [code |-> "other", session |-> NoSession, public |-> {}]
           d == response_process(client, 0, resp, s)
<1>0. Good(client) /\ Connection(client)
  BY DEF IInv
<1>1. client' = [d EXCEPT !.wire = @ \ {m}]
  BY DEF ReceiveNoCseq, Becomes
<1>2. s # NoSession => s \in client.keep_alive
  BY DEF ReceiveNoCseq
<1>3. resp \in Response /\ resp.session = NoSession
  BY DEF Response, SessionOrNone
<1> HIDE DEF resp
<1>4. Good(d) /\ Connection(d)
  BY <1>0, <1>2, <1>3, ResponseProcessGood
<1> HIDE DEF d
<1> QED BY <1>1, <1>4, WireGood DEF IInv

\* teardown_request_process()
LEMMA ServerTeardownStep ==
    ASSUME IInv, NEW s \in SessionIds, NEW md, ServerTeardown(s, md)
    PROVE  IInv'
<1> DEFINE ms == client.medias[s] \ {md}
           f == [client.medias EXCEPT ![s] = ms]
           x == [client EXCEPT !.medias = f]
           y == remove_session_internal(client, s)
<1>0. Good(client) /\ Connection(client)
  BY DEF IInv
<1>1. client' = x \/ client' = y
  BY DEF ServerTeardown, Becomes
<1>2. Local(client, y)
  BY <1>0, RemoveSessionInternal DEF Local, SameSlot
<1>3. Local(client, x)
  <2>1. f \in [SessionIds -> SUBSET Medias]
    BY <1>0, FunTypes DEF Good, Client
  <2> HIDE DEF f
  <2>2. x \in Client
    BY <1>0, <2>1 DEF Good, Client
  <2>3. Same(client, x) /\ SameConn(client, x)
    BY <1>0 DEF Good, Client, Same, SameConn
  <2> HIDE DEF x
  <2> QED BY <1>0, <2>2, <2>3, SameGood DEF Local, Same
<1> HIDE DEF x, y
<1>4. Local(client, client')
  BY <1>1, <1>2, <1>3
<1> QED BY <1>0, <1>4, LocalConnection DEF IInv, Local

\* rtsp_client_resp_timeout_cb()
LEMMA ResponseTimeoutStep ==
    ASSUME IInv, NEW res, NEW connect_ok \in BOOLEAN,
           ResponseTimeout(res, connect_ok)
    PROVE  IInv'
<1> DEFINE x == [client EXCEPT !.req_timer = FALSE]
<1>0. Good(client) /\ Connection(client)
  BY DEF IInv
<1>1. client' = request_timeout(x, res, connect_ok)
  BY DEF ResponseTimeout, Becomes
<1>2. x \in Client
  BY <1>0 DEF Good, Client
<1>3. Same(client, x) /\ SameConn(client, x)
  BY <1>0 DEF Good, Client, Same, SameConn
<1> HIDE DEF x
<1>4. Good(x)
  BY <1>0, <1>2, <1>3, SameGood
<1>5. Connection(x)
  BY <1>0, <1>3, <1>4, LocalConnection DEF Local, Same
<1> QED BY <1>1, <1>4, <1>5, RequestTimeoutGood DEF IInv

\* rtsp_client_pomp_timer_cb()
LEMMA KeepAliveTimerStep ==
    ASSUME IInv, NEW s \in SessionIds, NEW res, KeepAliveTimer(s, res)
    PROVE  IInv'
<1> DEFINE x == [client EXCEPT !.timer = @ \ {s}]
           y == send_keep_alive(x, s, res)
<1>0. Good(client) /\ Connection(client) /\ s \in client.sessions
  BY DEF IInv, KeepAliveTimer, Good, Flags
<1>1. client' = y
  BY DEF KeepAliveTimer, Becomes
<1>2. x \in Client
  BY <1>0 DEF Good, Client
<1>3. Same(client, x) /\ SameConn(client, x)
  BY <1>0 DEF Good, Client, Same, SameConn
<1> HIDE DEF x
<1>4. Good(x) /\ s \in x.sessions
  BY <1>0, <1>2, <1>3, SameGood DEF Same
<1>5. /\ Good(y) /\ SameConn(x, y) /\ y.sessions \subseteq x.sessions
      /\ y.is_pending => x.is_pending \/ x.conn_state = "CONNECTED"
  BY <1>4, SendKeepAliveGood
<1> HIDE DEF y
<1>6. Local(client, y)
  BY <1>3, <1>5 DEF Local, Same, SameConn
<1> QED BY <1>0, <1>1, <1>5, <1>6, LocalConnection DEF IInv

\* Messages of the server, timers, and the remaining calls.
LEMMA EventStep ==
    ASSUME IInv, EventNext
    PROVE  IInv'
<1>0. Good(client) /\ Connection(client)
  BY DEF IInv
<1>1. CASE \E s \in SessionIds : RemoveSession(s)
  <2> PICK s \in SessionIds : RemoveSession(s)
    BY <1>1
  <2> DEFINE y == remove_session_internal(client, s)
  <2>1. client' = y
    BY DEF RemoveSession, Becomes
  <2>2. Local(client, y)
    BY <1>0, RemoveSessionInternal DEF Local, SameSlot
  <2> HIDE DEF y
  <2> QED BY <1>0, <2>1, <2>2, LocalConnection DEF IInv, Local
<1>2. CASE Cancel
  <2>1. client' = request_complete(client, Dummy(client), "CANCELED")
    BY <1>2 DEF Cancel, Becomes
  <2> QED BY <1>0, <2>1, DummyResponse, CompleteKeeps DEF IInv
<1>3. CASE \E m \in client.wire, code \in {"2xx", "454", "other"},
              sid \in SessionOrNone, pub \in PublicMethods \cup {{}},
              s \in SessionOrNone :
              ReceiveResponse(m, [code |-> code, session |-> sid,
                                  public |-> pub], s)
  <2> PICK m \in client.wire, code \in {"2xx", "454", "other"},
           sid \in SessionOrNone, pub \in PublicMethods \cup {{}},
           s \in SessionOrNone :
           ReceiveResponse(m, [code |-> code, session |-> sid,
                               public |-> pub], s)
    BY <1>3
  <2>1. [code |-> code, session |-> sid, public |-> pub] \in Response
    BY ClientAssumption DEF Response
  <2> QED BY <2>1, ReceiveResponseStep
<1>4. CASE \E m \in client.wire, s \in SessionOrNone : ReceiveNoCseq(m, s)
  BY <1>4, ReceiveNoCseqStep
<1>5. CASE \E s \in SessionIds, md \in MediaOrNone : ServerTeardown(s, md)
  BY <1>5, ServerTeardownStep
<1>6. CASE \E res \in SendResults, connect_ok \in BOOLEAN :
              ResponseTimeout(res, connect_ok)
  BY <1>6, ResponseTimeoutStep
<1>7. CASE \E s \in SessionIds, res \in SendResults : KeepAliveTimer(s, res)
  BY <1>7, KeepAliveTimerStep
<1>8. CASE Destroyed
  BY <1>8 DEF Destroyed, IInv
<1> QED BY <1>1, <1>2, <1>3, <1>4, <1>5, <1>6, <1>7, <1>8 DEF EventNext

\* Calls and events of the connection.
LEMMA ConnectionStep ==
    ASSUME OneLookup, IInv, ConnectionNext
    PROVE  IInv'
<1>1. CASE \E res \in {"OK", "EINVAL", "ERESOLV"} : Connect(res)
  BY <1>1, ConnectStep
<1>2. CASE \E ok \in BOOLEAN : ResolvDone(ok)
  BY <1>2, ResolvDoneStep
<1>3. CASE ResolvTimeout
  BY <1>3, ResolvTimeoutStep
<1>4. CASE \E failed \in SUBSET client.sessions, first \in SessionOrNone,
              res \in SendResults : SocketConnected(failed, first, res)
  BY <1>4, SocketConnectedStep
<1>5. CASE SocketDisconnected
  BY <1>5, SocketDisconnectedStep
<1>6. CASE Disconnect
  BY <1>6, DisconnectStep
<1>7. CASE Destroy
  BY <1>7, DestroyStep
<1> QED BY <1>1, <1>2, <1>3, <1>4, <1>5, <1>6, <1>7 DEF ConnectionNext

(***************************************************************************)
(* Theorems                                                                *)
(***************************************************************************)

\* IInv is an inductive invariant of the client: every call, socket event,
\* message and timer of rtsp_client.c keeps it.
THEOREM Inductive == OneLookup => (Spec => []IInv)
<1> SUFFICES ASSUME OneLookup PROVE Spec => []IInv
  OBVIOUS
<1>1. Init => IInv
  BY InitIInv
<1>2. IInv /\ [Next]_client => IInv'
  <2> SUFFICES ASSUME IInv, [Next]_client PROVE IInv'
    OBVIOUS
  <2>1. CASE UNCHANGED client
    BY <2>1 DEF IInv
  <2>2. CASE Next
    BY <2>2, ConnectionStep, RequestStep, EventStep DEF Next
  <2> QED BY <2>1, <2>2
<1> QED BY <1>1, <1>2, PTL DEF Spec

\* Every field of the client keeps its type, whatever the order of calls,
\* answers, timers and socket events.
THEOREM TypeCorrect == OneLookup => (Spec => []TypeOK)
<1>1. IInv => TypeOK
  BY DEF IInv, Good, TypeOK
<1> QED BY <1>1, Inductive, PTL

\* No answer still to come is taken for the answer to another request: what
\* rtsp_client_response_process() matches by CSeq is the request it answers.
THEOREM AnswersMatchTheirRequest == OneLookup => (Spec => []AnswersMatch)
<1>1. IInv => AnswersMatch
  BY DEF IInv, Good, Slot, AnswersMatch
<1> QED BY <1>1, Inductive, PTL

\* The response timer runs only for a request in the slot.
THEOREM TimerBelongsToRequest == OneLookup => (Spec => []TimerHasRequest)
<1>1. IInv => TimerHasRequest
  BY DEF IInv, Good, Slot, TimerHasRequest
<1> QED BY <1>1, Inductive, PTL

\* Every way out of CONNECTED completes the pending request.
THEOREM NothingPendingOffline == OneLookup => (Spec => []PendingOnlyConnected)
<1>1. IInv => PendingOnlyConnected
  BY DEF IInv, Connection, PendingOnlyConnected
<1> QED BY <1>1, Inductive, PTL

\* A disconnected or destroyed client has no session, no armed timer but the
\* resolver's, and no open socket.
THEOREM DisconnectedLeavesNothing == OneLookup => (Spec => []DisconnectedIsClean)
<1>1. IInv => DisconnectedIsClean
  BY DEF IInv, Good, Slot, Flags, Connection, DisconnectedIsClean
<1> QED BY <1>1, Inductive, PTL
=============================================================================
