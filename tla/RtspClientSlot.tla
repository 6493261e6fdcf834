--------------------------- MODULE RtspClientSlot ---------------------------
(***************************************************************************)
(* What each step of RtspClient does to the CSeq numbers, the request slot *)
(* and the wire: the facts about a client that the other end of its        *)
(* connection may rely on, whatever the results of sending.                *)
(*                                                                         *)
(* A CSeq that has been used is never in the slot again with another       *)
(* header, and nothing is sent but the header in the slot, once.  Each C   *)
(* function has one lemma: it keeps the wire (Keeps), or may send (Sends). *)
(*                                                                         *)
(* The second half does the same for the sessions and their medias: a step *)
(* leaves the slot alone (Stays), sends a new request (Asks), ends the one *)
(* in the slot with what its answer brings or takes (Ends), or drops all   *)
(* (Drops).  The last part is about the response callbacks: which steps    *)
(* lose one (Loses).                                                       *)
(***************************************************************************)
EXTENDS RtspClientProofs

\* From c to d the CSeq grows, and the slot is as it was, is cleared, or has
\* a header whose CSeq c had not used.
Moves(c, d) ==
    /\ c.cseq <= d.cseq
    /\ \/ d.request = c.request /\ d.is_pending = c.is_pending
       \/ d.request = NoRequest
       \/ c.cseq <= d.request.cseq

Keeps(c, d) == Moves(c, d) /\ d.wire \subseteq c.wire
Sends(c, d) == Moves(c, d) /\ d.wire \subseteq c.wire \cup {d.request}

\* The types of the CSeq numbers.
LEMMA CseqTypes ==
    ASSUME NEW c, Good(c) PROVE c.cseq \in Nat /\ c.request.cseq \in Nat
BY DEF Good, Client, Request

\* Moving on twice is moving on.
LEMMA MovesTrans ==
    ASSUME NEW c, NEW d, NEW e, Good(c), Good(d), Good(e),
           Moves(c, d), Moves(d, e)
    PROVE  Moves(c, e)
BY CseqTypes DEF Moves

\* Nothing is sent, then nothing; or nothing, then a header.
LEMMA KeepsTrans ==
    ASSUME NEW c, NEW d, NEW e, Good(c), Good(d), Good(e), Keeps(c, d)
    PROVE  /\ Keeps(d, e) => Keeps(c, e)
           /\ Sends(d, e) => Sends(c, e)
BY MovesTrans DEF Keeps, Sends

\* A header is sent, then the slot is left alone.
LEMMA SendsTrans ==
    ASSUME NEW c, NEW d, NEW e, Good(c), Good(d), Good(e), Sends(c, d),
           Keeps(d, e), e.request = d.request
    PROVE  Sends(c, e)
BY MovesTrans DEF Keeps, Sends

\* Sending nothing is a case of sending at most the slot.
LEMMA KeepsSends == ASSUME NEW c, NEW d, Keeps(c, d) PROVE Sends(c, d)
BY DEF Keeps, Sends

\* Functions that leave the slot alone, and those that free it.
LEMMA SameKeeps ==
    ASSUME NEW c, Good(c), NEW d
    PROVE  /\ SameSlot(c, d) => Keeps(c, d)
           /\ Same(c, d) => Keeps(c, d)
           /\ Freed(c, d) => Keeps(c, d)
BY CseqTypes DEF SameSlot, Same, Freed, Keeps, Moves

(***************************************************************************)
(* Sending                                                                 *)
(***************************************************************************)

\* A new header is not sent.
LEMMA SetHeaderKeeps ==
    ASSUME NEW c, Good(c), NEW q \in Request, q.cseq = c.cseq,
           q.method = "SETUP" => q.media \in Medias
    PROVE  Keeps(c, SetHeader(c, q))
<1> DEFINE d == SetHeader(c, q)
<1>1. Good(d) /\ Header(c, d, q) /\ d.cseq = c.cseq /\ d.wire = c.wire
  BY SetHeaderGood
<1> HIDE DEF d
<1>2. Keeps(c, d)
  BY <1>1, CseqTypes DEF Keeps, Moves, Header
<1> QED BY <1>2 DEF d

\* Nor is it by taking the slot.
LEMMA TakeSlotKeeps ==
    ASSUME NEW c, Good(c), NEW q \in Request, q.cseq = c.cseq,
           q.method = "SETUP" => q.media \in Medias
    PROVE  LET d == TakeSlot(c, q)
           IN  Keeps(c, d) /\ Good(d) /\ d.request = q
<1> DEFINE h == SetHeader(c, q)
           d == TakeSlot(c, q)
<1>1. Good(h) /\ h.wire = c.wire
  BY SetHeaderGood
<1>2. d = [h EXCEPT !.is_pending = TRUE, !.cseq = @ + 1]
  BY DEF TakeSlot
<1>3. Good(d) /\ Header(c, d, q) /\ d.cseq = c.cseq + 1
  BY TakeSlotGood
<1> HIDE DEF h, d
<1>4. d.wire = h.wire
  BY <1>1, <1>2 DEF Good, Client
<1>5. Keeps(c, d)
  BY <1>1, <1>3, <1>4, CseqTypes DEF Keeps, Moves, Header
<1> QED BY <1>3, <1>5 DEF d, Header

\* send_keep_alive() sends at most its own header, with a new CSeq.
LEMMA SendKeepAliveSends ==
    ASSUME NEW c, Good(c), NEW s \in c.sessions, NEW res
    PROVE  Sends(c, send_keep_alive(c, s, res))
<1> DEFINE d == send_keep_alive(c, s, res)
           q == [method |-> "GET_PARAMETER", cseq |-> c.cseq,
                 session |-> IF res = "EAUTH" THEN NoSession ELSE s,
                 media |-> NoMedia]
           failed == c.failed_keep_alive[s] + 1
           f == [c EXCEPT !.failed_keep_alive[s] = failed]
<1>0. s \in SessionIds /\ c.cseq \in Nat
  BY DEF Good, Client
<1>1. q \in Request /\ q.cseq = c.cseq /\ q.method # "SETUP"
  BY <1>0 DEF Request, Methods, SessionMethods, SessionOrNone, MediaOrNone
<1>2. Keeps(c, c)
  BY CseqTypes DEF Keeps, Moves
<1>3. CASE ~Allowed(c, "GET_PARAMETER")
  BY <1>2, <1>3, KeepsSends DEF send_keep_alive
<1>4. CASE Allowed(c, "GET_PARAMETER") /\ c.conn_state # "CONNECTED"
  <2>1. d = IF failed >= MaxFailedKeepAlive THEN remove_session_internal(c, s)
            ELSE RetryLater(f, s)
    BY <1>4 DEF send_keep_alive
  <2>2. SameSlot(c, remove_session_internal(c, s))
    BY RemoveSessionInternal
  <2>3. SameSlot(c, RetryLater(f, s))
    <3> DEFINE g == [c.failed_keep_alive EXCEPT ![s] = failed]
    <3>1. f = [c EXCEPT !.failed_keep_alive = g]
      OBVIOUS
    <3> HIDE DEF g, f
    <3> QED BY <3>1 DEF Good, Client, SameSlot, RetryLater
  <2> HIDE DEF d, f, failed
  <2>4. SameSlot(c, d)
    BY <2>1, <2>2, <2>3
  <2> QED BY <2>4, SameKeeps, KeepsSends DEF d
<1>5. CASE Allowed(c, "GET_PARAMETER") /\ c.conn_state = "CONNECTED"
  <2> DEFINE w == TakeSlot(c, q)
             e == [w EXCEPT !.keep_alive = @ \cup {s}, !.req_timer = TRUE,
                            !.wire = IF res = "OK" THEN @ \cup {q} ELSE @]
  <2>1. d = IF s \in c.keep_alive THEN c
            ELSE IF c.is_pending THEN RetryLater(c, s)
            ELSE IF res \in {"ERR", "EAUTH"} THEN SetHeader(c, q)
            ELSE e
    BY <1>5 DEF send_keep_alive
  <2>2. Keeps(c, RetryLater(c, s))
    BY RetryLaterGood, SameKeeps
  <2>3. Keeps(c, SetHeader(c, q))
    BY <1>1, SetHeaderKeeps
  <2>4. Keeps(c, w) /\ Good(w) /\ w.request = q
    BY <1>1, TakeSlotKeeps
  <2>5. Sends(c, e)
    <3> HIDE DEF w, q
    <3>1. /\ e.cseq = w.cseq /\ e.request = w.request
          /\ e.is_pending = w.is_pending /\ e.wire \subseteq w.wire \cup {q}
      BY <2>4 DEF Good, Client
    <3> QED BY <2>4, <3>1 DEF Keeps, Sends, Moves
  <2> HIDE DEF d, e, q
  <2>6. Sends(c, d)
    BY <1>2, <2>1, <2>2, <2>3, <2>5, KeepsSends
  <2> QED BY <2>6 DEF d
<1> QED BY <1>3, <1>4, <1>5

\* The timer of a keep-alive is not part of the slot.
LEMMA ClearTimerKeeps ==
    ASSUME NEW c, Good(c)
    PROVE  LET b == clear_pending_keep_alive_timer(c)
           IN  Good(b) /\ Keeps(c, b) /\ b.cseq = c.cseq
<1> DEFINE b == clear_pending_keep_alive_timer(c)
<1>1. Good(b)
  BY ClearTimerGood
<1>2. /\ b.request = c.request /\ b.is_pending = c.is_pending
      /\ b.cseq = c.cseq /\ b.wire = c.wire
  BY DEF clear_pending_keep_alive_timer, Client, Good
<1> HIDE DEF b
<1> QED BY <1>1, <1>2, CseqTypes DEF Keeps, Moves, b

\* The same for the requests of the application.
LEMMA SendRequestSends ==
    ASSUME NEW c, Good(c), NEW m \in Methods, NEW s \in SessionOrNone,
           NEW md \in MediaOrNone, NEW res, NEW timed \in BOOLEAN,
           m = "SETUP" => md \in Medias
    PROVE  Sends(c, SendRequest(c, m, s, md, res, timed))
<1> DEFINE b == clear_pending_keep_alive_timer(c)
           q == [method |-> m, cseq |-> c.cseq,
                 session |-> IF res = "EAUTH" THEN NoSession ELSE s,
                 media |-> md]
           w == TakeSlot(b, q)
           e == [w EXCEPT !.req_timer = timed \/ @, !.wire = @ \cup {q}]
           d == SendRequest(c, m, s, md, res, timed)
<1>1. Good(b) /\ Keeps(c, b) /\ b.cseq = c.cseq
  BY ClearTimerKeeps
<1>2. q \in Request /\ q.cseq = c.cseq /\ q.method = m /\ q.media = md
  BY DEF Request, SessionOrNone, Good, Client
<1>3. d = IF res # "OK" THEN SetHeader(b, q) ELSE e
  BY DEF SendRequest
<1> HIDE DEF b, q
<1>4. Keeps(b, SetHeader(b, q)) /\ Good(SetHeader(b, q))
  BY <1>1, <1>2, SetHeaderKeeps, SetHeaderGood
<1>5. Keeps(b, w) /\ Good(w) /\ w.request = q
  BY <1>1, <1>2, TakeSlotKeeps
<1> HIDE DEF w
<1>6. Sends(b, e)
  <2>1. /\ e.cseq = w.cseq /\ e.request = w.request
        /\ e.is_pending = w.is_pending /\ e.wire = w.wire \cup {q}
    BY <1>5 DEF Good, Client
  <2> QED BY <1>5, <2>1 DEF Keeps, Sends, Moves
<1>7. Good(d)
  BY SendRequestGood DEF Sent
<1> HIDE DEF d, e
<1>8. Sends(b, d)
  BY <1>3, <1>4, <1>6, KeepsSends
<1>9. Sends(c, d)
  BY <1>1, <1>7, <1>8, KeepsTrans
<1> QED BY <1>9 DEF d

\* The same for TEARDOWN, internal or not.
LEMMA SendTeardownSends ==
    ASSUME NEW c, Good(c), NEW md \in MediaOrNone, NEW s \in SessionIds,
           NEW res, NEW timed \in BOOLEAN, NEW internal \in BOOLEAN
    PROVE  Sends(c, send_teardown(c, md, s, res, timed, internal))
<1> DEFINE b == clear_pending_keep_alive_timer(c)
           r == SendRequest(c, "TEARDOWN", s, md, res, timed)
           it == IF internal THEN r.internal_teardown \cup {s}
                 ELSE r.internal_teardown \ {s}
           e == [r EXCEPT !.is_internal = internal, !.internal_teardown = it]
           d == send_teardown(c, md, s, res, timed, internal)
<1>1. Keeps(c, b) /\ Keeps(c, c)
  BY ClearTimerKeeps, CseqTypes DEF Keeps, Moves
<1>2. Good(r) /\ Sends(c, r)
  <2>1. "TEARDOWN" \in Methods /\ s \in SessionOrNone
    BY DEF Methods, SessionMethods, SessionOrNone
  <2> QED BY <2>1, SendRequestGood, SendRequestSends DEF Sent
<1>3. d = IF ~CanRequest(c, "TEARDOWN") THEN c
          ELSE IF s \notin c.sessions THEN b
          ELSE IF res # "OK" THEN r ELSE e
  BY DEF send_teardown
<1> HIDE DEF b, r, it
<1>4. /\ e.cseq = r.cseq /\ e.request = r.request
      /\ e.is_pending = r.is_pending /\ e.wire = r.wire
  BY <1>2 DEF Good, Client
<1>5. Sends(c, e)
  BY <1>2, <1>4 DEF Sends, Moves
<1> HIDE DEF e, d
<1>6. Sends(c, d)
  BY <1>1, <1>2, <1>3, <1>5, KeepsSends
<1> QED BY <1>6 DEF d

(***************************************************************************)
(* Completion of the request in the slot                                   *)
(***************************************************************************)

\* request_complete() frees the slot, if it was taken.
LEMMA RequestCompleteKeeps ==
    ASSUME NEW c, Good(c), NEW resp \in Response, NEW status,
           c.request.session # NoSession =>
               resp.session \in {c.request.session, NoSession}
    PROVE  Keeps(c, request_complete(c, resp, status))
<1> DEFINE q == c.request
           sid == SessionOf(q, resp)
           final == IF status = "OK" /\ resp.code # "2xx" THEN "FAILED"
                    ELSE status
           d == Completed(c, resp, final)
           e == IF SessionRemoved(c, resp)
                THEN remove_session_internal(d, sid) ELSE d
           f == [e EXCEPT !.failed_requests = 0]
<1>1. CASE ~c.is_pending
  BY <1>1, CseqTypes DEF request_complete, Keeps, Moves
<1>2. CASE c.is_pending
  <2>1. request_complete(c, resp, status) = f
    BY <1>2 DEF request_complete
  <2>2. Completing(c, q, sid)
    BY DEF Completing, SessionOf, Good, Client, Request, Response
  <2>3. Freed(c, d) /\ d.owed = {}
    BY <2>2, CompletedFreed
  <2> HIDE DEF d, sid
  <2>4. Good(d)
    BY <2>3, FreedGood
  <2>5. LET r == remove_session_internal(d, sid)
        IN  Good(r) /\ SameSlot(d, r)
    BY <2>4, RemoveSessionInternal
  <2>6. /\ Good(e) /\ e.request = d.request /\ e.cseq = d.cseq
        /\ e.wire = d.wire
    BY <2>4, <2>5 DEF SameSlot
  <2> HIDE DEF e
  <2>7. f.request = e.request /\ f.cseq = e.cseq /\ f.wire = e.wire
    BY <2>6 DEF Good, Client
  <2> HIDE DEF f
  <2> QED BY <2>1, <2>3, <2>6, <2>7, CseqTypes DEF Freed, Keeps, Moves
<1> QED BY <1>1, <1>2

\* Aborting a request sends nothing.
LEMMA AbortRequestKeeps ==
    ASSUME NEW c, Good(c) PROVE Keeps(c, abort_request(c))
BY DummyResponse, RequestCompleteKeeps DEF abort_request

(***************************************************************************)
(* Connection                                                              *)
(***************************************************************************)

\* The DISCONNECTED event: what was sent is lost.
LEMMA EventDisconnectedKeeps ==
    ASSUME NEW c, Good(c)
    PROVE  LET d == event_disconnected(c) IN Keeps(c, d) /\ d.wire = {}
<1> DEFINE x == [c EXCEPT !.sock = FALSE, !.wire = {}]
           y == [x EXCEPT !.remote = FALSE]
           d == event_disconnected(c)
<1>1. Good(x) /\ Keeps(c, x) /\ x.wire = {}
  <2>1. x \in Client
    BY DEF Good, Client
  <2>2. Same(c, x) /\ x.wire = {}
    BY DEF Good, Client, Same
  <2> HIDE DEF x
  <2> QED BY <2>1, <2>2, SameGood, SameKeeps
<1> HIDE DEF x
<1>2. Good(y) /\ Keeps(c, y) /\ y.wire = {}
  <2>1. y \in Client
    BY <1>1 DEF Good, Client
  <2>2. Same(x, y)
    BY <1>1 DEF Good, Client, Same
  <2> HIDE DEF y
  <2> QED BY <1>1, <2>1, <2>2, SameGood, SameKeeps, KeepsTrans DEF Same
<1> HIDE DEF y
<1>3. ASSUME NEW z, Good(z), Keeps(c, z), z.wire = {}, NEW st \in States
      PROVE  LET e == set_connection_state(abort_request(z), st)
             IN  Keeps(c, e) /\ e.wire = {}
  <2> DEFINE a == abort_request(z)
             e == set_connection_state(a, st)
  <2>1. Good(a) /\ Keeps(z, a)
    BY <1>3, AbortRequestGood, AbortRequestKeeps
  <2> HIDE DEF a
  <2>2. Good(e) /\ SameSlot(a, e)
    BY <2>1, SetState
  <2> HIDE DEF e
  <2>3. Keeps(c, a)
    BY <1>3, <2>1, KeepsTrans
  <2>4. Keeps(c, e)
    BY <2>1, <2>2, <2>3, SameKeeps, KeepsTrans
  <2> QED BY <1>3, <2>1, <2>2, <2>4 DEF e, a, Keeps, SameSlot
<1>4. "DISCONNECTED" \in States /\ "CONNECTING" \in States
  BY DEF States
<1>5. CASE c.conn_state = "DISCONNECTING"
  <2>1. d = set_connection_state(abort_request(y), "DISCONNECTED")
    BY <1>5 DEF event_disconnected, x, y
  <2> QED BY <1>2, <1>3, <1>4, <2>1
<1>6. CASE c.conn_state = "CONNECTED"
  <2>1. d = set_connection_state(abort_request(x), "CONNECTING")
    BY <1>6 DEF event_disconnected, x
  <2> QED BY <1>1, <1>3, <1>4, <2>1
<1>7. CASE c.conn_state \notin {"CONNECTED", "DISCONNECTING"}
  <2>1. d = x
    BY <1>7 DEF event_disconnected, x
  <2> QED BY <1>1, <2>1
<1> QED BY <1>5, <1>6, <1>7

\* tskt_client_stop() loses what was sent, or leaves the slot alone.
LEMMA TsktClientStopKeeps ==
    ASSUME NEW c, Good(c)
    PROVE  LET d == tskt_client_stop(c)
           IN  /\ Good(d) /\ Keeps(c, d)
               /\ d.wire = {} \/ d.request = c.request
<1> DEFINE x == [c EXCEPT !.tskt = "stopped"]
           d == tskt_client_stop(c)
<1>1. Good(x) /\ Keeps(c, x) /\ x.request = c.request
  <2>1. x \in Client
    BY DEF Good, Client
  <2>2. Same(c, x)
    BY DEF Good, Client, Same
  <2> HIDE DEF x
  <2> QED BY <2>1, <2>2, SameGood, SameKeeps DEF Same
<1>2. d = IF c.tskt = "connected" THEN event_disconnected(x) ELSE x
  BY DEF tskt_client_stop
<1>3. Good(d)
  BY TsktClientStopGood
<1> HIDE DEF x, d
<1>4. CASE c.tskt = "connected"
  <2>1. d = event_disconnected(x)
    BY <1>2, <1>4
  <2>2. Keeps(x, d) /\ d.wire = {}
    BY <1>1, <2>1, EventDisconnectedKeeps
  <2> QED BY <1>1, <1>3, <2>2, KeepsTrans DEF d
<1>5. CASE c.tskt # "connected"
  BY <1>1, <1>2, <1>5 DEF d
<1> QED BY <1>4, <1>5

\* A client that gives up on its server may retry with one header.
LEMMA GiveUpSends ==
    ASSUME NEW c, Good(c), NEW s \in SessionIds, NEW res
    PROVE  Sends(c, GiveUp(c, s, res))
<1> DEFINE d == send_teardown(c, NoMedia, s, res, TRUE, TRUE)
           r == remove_session_internal(d, s)
<1>1. Good(d) /\ Sends(c, d)
  <2> DEFINE Fine(x) == Good(x) /\ Sends(c, x)
  <2>1. NoMedia \in MediaOrNone /\ TRUE \in BOOLEAN
    BY DEF MediaOrNone
  <2>2. \A timed, internal \in BOOLEAN :
            Fine(send_teardown(c, NoMedia, s, res, timed, internal))
    BY <2>1, SendTeardownGood, SendTeardownSends
  <2> HIDE DEF Fine
  <2>3. Fine(d)
    BY <2>1, <2>2, Zenon
  <2> QED BY <2>3 DEF Fine
<1>2. GiveUp(c, s, res) = IF send_teardown_ok(c, s, res) THEN d ELSE r
  BY DEF GiveUp
<1> HIDE DEF d
<1>3. Good(r) /\ SameSlot(d, r)
  BY <1>1, RemoveSessionInternal
<1> HIDE DEF r
<1>4. Sends(c, r)
  BY <1>1, <1>3, SameKeeps, SendsTrans DEF SameSlot
<1> QED BY <1>1, <1>2, <1>4

\* A keep-alive that has timed out: the next one may be sent.
LEMMA KeepAliveTimeoutSends ==
    ASSUME NEW c, Good(c), NEW s \in c.sessions, NEW res
    PROVE  Sends(c, keep_alive_timeout(c, s, res))
<1> DEFINE failed == c.failed_keep_alive[s] + 1
           d == [c EXCEPT !.failed_keep_alive[s] = failed]
           e == [d EXCEPT !.timer = @ \ {s}]
<1>1. s \in SessionIds /\ failed \in Nat
  BY DEF Good, Client
<1>2. keep_alive_timeout(c, s, res) =
          IF failed < MaxFailedKeepAlive THEN send_keep_alive(d, s, res)
          ELSE GiveUp(e, s, res)
  BY DEF keep_alive_timeout
<1> HIDE DEF failed
<1>3. Good(d) /\ Same(c, d)
  <2> DEFINE g == [c.failed_keep_alive EXCEPT ![s] = failed]
             x == [c EXCEPT !.failed_keep_alive = g]
  <2>1. g \in [SessionIds -> Nat]
    BY <1>1, FunTypes DEF Good
  <2> HIDE DEF g
  <2>2. x \in Client
    BY <2>1 DEF Good, Client
  <2>3. Same(c, x)
    BY DEF Good, Client, Same
  <2> HIDE DEF x
  <2>4. Good(x)
    BY <2>2, <2>3, SameGood
  <2> QED BY <2>3, <2>4 DEF x, g
<1> HIDE DEF d
<1>4. Good(e) /\ Same(d, e)
  <2>1. e \in Client
    BY <1>3 DEF Good, Client
  <2>2. Same(d, e)
    BY <1>3 DEF Good, Client, Same
  <2> HIDE DEF e
  <2> QED BY <1>3, <2>1, <2>2, SameGood
<1> HIDE DEF e
<1>5. Keeps(c, d) /\ Keeps(c, e)
  BY <1>3, <1>4, SameKeeps, KeepsTrans
<1>6. CASE failed < MaxFailedKeepAlive
  <2> DEFINE k == send_keep_alive(d, s, res)
  <2>1. s \in d.sessions
    BY <1>3 DEF Same
  <2>2. Good(k) /\ Sends(d, k)
    BY <1>3, <2>1, SendKeepAliveGood, SendKeepAliveSends
  <2> HIDE DEF k
  <2>3. Sends(c, k)
    BY <1>3, <1>5, <2>2, KeepsTrans
  <2> QED BY <1>2, <1>6, <2>3 DEF k
<1>7. CASE ~(failed < MaxFailedKeepAlive)
  <2> DEFINE k == GiveUp(e, s, res)
  <2>1. Good(k) /\ Sends(e, k)
    BY <1>1, <1>4, GiveUpGood, GiveUpSends DEF Local
  <2> HIDE DEF k
  <2>2. Sends(c, k)
    BY <1>4, <1>5, <2>1, KeepsTrans
  <2> QED BY <1>2, <1>7, <2>2 DEF k
<1> QED BY <1>6, <1>7

\* rtsp_client_resp_timeout_cb(), whatever timed out.
LEMMA RequestTimeoutSends ==
    ASSUME NEW c, Good(c), NEW res, NEW connect_ok \in BOOLEAN
    PROVE  Sends(c, request_timeout(c, res, connect_ok))
<1> DEFINE q == c.request
           resp == Dummy(c)
           sid == q.session
           d == Completed(c, resp, "TIMEOUT")
           r == remove_session_internal(d, sid)
           e == IF q.method = "GET_PARAMETER" /\ sid \in d.sessions
                THEN keep_alive_timeout(d, sid, res)
                ELSE IF SessionRemoved(c, resp) THEN r ELSE d
           f == [e EXCEPT !.failed_requests = @ + 1]
           g == tskt_client_stop(f)
           h == set_connection_state(g, "CONNECTING")
           i == [h EXCEPT !.tskt = IF connect_ok THEN "connecting" ELSE @]
<1>1. CASE ~c.is_pending
  BY <1>1, CseqTypes DEF request_timeout, Sends, Moves
<1>2. CASE c.is_pending
  <2>1. request_timeout(c, res, connect_ok) =
            IF f.failed_requests < MaxFailedRequests THEN f ELSE i
    BY <1>2 DEF request_timeout
  <2>2. Good(d) /\ Keeps(c, d)
    <3>1. resp \in Response /\ SessionOf(q, resp) = sid /\ sid \in SessionOrNone
      BY DummyResponse DEF SessionOf, Good, Client, Request
    <3>2. Completing(c, q, SessionOf(q, resp))
      BY <3>1 DEF Completing
    <3>3. Freed(c, d) /\ d.owed = {}
      BY <3>1, <3>2, CompletedFreed
    <3> HIDE DEF d
    <3> QED BY <3>3, FreedGood, SameKeeps
  <2> HIDE DEF d, sid
  <2>3. Good(e) /\ Sends(c, e)
    <3>1. ASSUME sid \in d.sessions
          PROVE  LET k == keep_alive_timeout(d, sid, res)
                 IN  Good(k) /\ Sends(d, k)
      BY <2>2, <3>1, KeepAliveTimeoutGood, KeepAliveTimeoutSends DEF Local
    <3>2. Good(r) /\ Sends(d, r)
      BY <2>2, RemoveSessionInternal, SameKeeps, KeepsSends
    <3>3. Sends(d, d)
      BY <2>2, CseqTypes DEF Sends, Moves
    <3> HIDE DEF r
    <3>4. Good(e) /\ Sends(d, e)
      BY <2>2, <3>1, <3>2, <3>3
    <3> QED BY <2>2, <3>4, KeepsTrans
  <2> HIDE DEF e
  <2>4. Good(f) /\ Sends(c, f)
    <3>1. e \in Client /\ e.failed_requests + 1 \in Nat
      BY <2>3 DEF Good, Client
    <3>2. f \in Client
      BY <3>1 DEF Client
    <3>3. Same(e, f)
      BY <2>3 DEF Good, Client, Same
    <3> HIDE DEF f
    <3> QED BY <2>3, <3>2, <3>3, SameGood, SameKeeps, SendsTrans DEF Same
  <2> HIDE DEF f
  <2>5. Good(g) /\ Keeps(f, g) /\ (g.wire = {} \/ g.request = f.request)
    BY <2>4, TsktClientStopKeeps
  <2> HIDE DEF g
  <2>6. Good(h) /\ SameSlot(g, h)
    <3>1. "CONNECTING" \in States
      BY DEF States
    <3> QED BY <2>5, <3>1, SetState
  <2> HIDE DEF h
  <2>7. Good(i) /\ Same(h, i)
    <3>1. i \in Client
      BY <2>6 DEF Good, Client
    <3>2. Same(h, i)
      BY <2>6 DEF Good, Client, Same
    <3> HIDE DEF i
    <3> QED BY <2>6, <3>1, <3>2, SameGood
  <2> HIDE DEF i
  <2>8. Keeps(f, i) /\ (i.wire = {} \/ i.request = f.request)
    <3>1. Keeps(f, h)
      BY <2>4, <2>5, <2>6, SameKeeps, KeepsTrans
    <3>2. Keeps(f, i)
      BY <2>4, <2>6, <2>7, <3>1, SameKeeps, KeepsTrans
    <3> QED BY <2>5, <2>6, <2>7, <3>2 DEF SameSlot, Same
  <2>9. Sends(c, i)
    <3>1. Moves(c, i)
      BY <2>4, <2>7, <2>8, MovesTrans DEF Keeps, Sends
    <3>2. i.wire = {} => Sends(c, i)
      BY <3>1 DEF Sends
    <3> QED BY <2>4, <2>7, <2>8, <3>2, SendsTrans
  <2> QED BY <2>1, <2>4, <2>9
<1> QED BY <1>1, <1>2

\* rtsp_client_disconnect() sends nothing.
LEMMA DisconnectKeeps ==
    ASSUME NEW c, Good(c)
    PROVE  Keeps(c, rtsp_client_disconnect(c))
<1> DEFINE x == set_connection_state(c, "DISCONNECTING")
           d == tskt_client_stop(x)
           y == [d EXCEPT !.remote = FALSE]
           a == abort_request(y)
           z == set_connection_state(a, "DISCONNECTED")
           e == IF c.conn_state = "CONNECTING" THEN z ELSE d
           f == remove_all_sessions(e)
<1>1. CASE c.conn_state \in {"DISCONNECTED", "DISCONNECTING", "DESTROYED"}
  BY <1>1, CseqTypes DEF rtsp_client_disconnect, Keeps, Moves
<1>2. CASE c.conn_state \notin {"DISCONNECTED", "DISCONNECTING", "DESTROYED"}
  <2>1. rtsp_client_disconnect(c) = f
    BY <1>2 DEF rtsp_client_disconnect
  <2>2. "DISCONNECTING" \in States /\ "DISCONNECTED" \in States
    BY DEF States
  <2>3. Good(x) /\ Keeps(c, x)
    BY <2>2, SetState, SameKeeps
  <2> HIDE DEF x
  <2>4. Good(d) /\ Keeps(c, d)
    BY <2>3, TsktClientStopKeeps, KeepsTrans
  <2> HIDE DEF d
  <2>5. Good(y) /\ Keeps(c, y)
    <3>1. y \in Client
      BY <2>4 DEF Good, Client
    <3>2. Same(d, y)
      BY <2>4 DEF Good, Client, Same
    <3> HIDE DEF y
    <3> QED BY <2>4, <3>1, <3>2, SameGood, SameKeeps, KeepsTrans
  <2> HIDE DEF y
  <2>6. Good(a) /\ Keeps(c, a)
    BY <2>5, AbortRequestGood, AbortRequestKeeps, KeepsTrans
  <2> HIDE DEF a
  <2>7. Good(z) /\ SameSlot(a, z)
    BY <2>2, <2>6, SetState
  <2> HIDE DEF z
  <2>8. Good(e) /\ Keeps(c, e)
    BY <2>4, <2>6, <2>7, SameKeeps, KeepsTrans
  <2> HIDE DEF e
  <2>9. Good(f) /\ SameSlot(e, f)
    BY <2>8, RemoveAllSessions
  <2> HIDE DEF f
  <2> QED BY <2>1, <2>8, <2>9, SameKeeps, KeepsTrans
<1> QED BY <1>1, <1>2

\* The keep-alives of the CONNECTED event: one is sent at most.
LEMMA KeepAliveAllSends ==
    ASSUME NEW c, Good(c), NEW failed \in SUBSET c.sessions, NEW first, NEW res,
           first # NoSession => first \in c.sessions,
           first = NoSession => failed = c.sessions \ c.keep_alive
    PROVE  Sends(c, keep_alive_all(c, failed, first, res))
<1> DEFINE ready == IF Allowed(c, "GET_PARAMETER")
                    THEN c.sessions \ c.keep_alive ELSE {}
           later == IF c.is_pending THEN ready
                    ELSE ready \ (failed \cup {first})
           d == [c EXCEPT !.timer = @ \cup later]
           any == CHOOSE s \in failed : TRUE
<1>1. keep_alive_all(c, failed, first, res) =
          IF c.is_pending \/ ready = {} THEN d
          ELSE IF first # NoSession THEN send_keep_alive(d, first, res)
          ELSE send_keep_alive(d, any, "ERR")
  BY DEF keep_alive_all
<1>2. later \subseteq c.sessions
  OBVIOUS
<1>3. first = NoSession /\ ready # {} => any \in c.sessions
  <2> SUFFICES ASSUME first = NoSession, ready # {} PROVE any \in c.sessions
    OBVIOUS
  <2>1. \E s \in failed : TRUE
    OBVIOUS
  <2> QED BY <2>1
<1> HIDE DEF later, any
<1>4. Good(d) /\ Keeps(c, d) /\ d.sessions = c.sessions
  <2>1. d \in Client
    BY <1>2 DEF Good, Client
  <2>2. SameSlot(c, d) /\ d.sessions = c.sessions /\ Flags(d)
    BY <1>2 DEF Good, Client, SameSlot, Flags
  <2> HIDE DEF d
  <2> QED BY <2>1, <2>2, SlotFrame, SameKeeps DEF Good
<1> HIDE DEF d
<1>5. \A s \in d.sessions : \A r : Sends(c, send_keep_alive(d, s, r))
  <2> TAKE s \in d.sessions
  <2> TAKE r
  <2> DEFINE k == send_keep_alive(d, s, r)
  <2>1. Good(k) /\ Sends(d, k)
    BY <1>4, SendKeepAliveGood, SendKeepAliveSends
  <2> HIDE DEF k
  <2>2. Sends(c, k)
    BY <1>4, <2>1, KeepsTrans
  <2> QED BY <2>2 DEF k
<1>6. Sends(c, d)
  BY <1>4, KeepsSends
<1> HIDE DEF ready
<1>7. CASE c.is_pending \/ ready = {}
  BY <1>1, <1>6, <1>7
<1>8. CASE ~(c.is_pending \/ ready = {}) /\ first # NoSession
  BY <1>1, <1>4, <1>5, <1>8
<1>9. CASE ~(c.is_pending \/ ready = {}) /\ first = NoSession
  BY <1>1, <1>3, <1>4, <1>5, <1>9
<1> QED BY <1>7, <1>8, <1>9

(***************************************************************************)
(* The actions                                                             *)
(***************************************************************************)

\* rtsp_client_connect() sends nothing yet.
LEMMA ConnectSends ==
    ASSUME IInv, NEW res, Connect(res)
    PROVE  Sends(client, client')
<1> DEFINE x == set_connection_state(client, "CONNECTING")
           y == [x EXCEPT !.remote = TRUE, !.resolv_timer = TRUE,
                          !.lookups = @ + 1]
           z == [client EXCEPT !.remote = FALSE,
                               !.resolv_timer = @ \/ res = "ERESOLV"]
<1>1. client' = IF res = "OK" THEN y ELSE z
  BY DEF Connect, Becomes
<1>2. Good(client) /\ "CONNECTING" \in States
  BY DEF IInv, States
<1>3. Good(x) /\ Keeps(client, x)
  BY <1>2, SetState, SameKeeps
<1> HIDE DEF x
<1>4. Same(x, y)
  BY <1>3 DEF Good, Client, Same
<1>5. Same(client, z)
  BY <1>2 DEF Good, Client, Same
<1> HIDE DEF y, z
<1>6. Sends(client, y)
  BY <1>3, <1>4 DEF Same, Keeps, Sends, Moves
<1> QED BY <1>1, <1>2, <1>5, <1>6, SameKeeps, KeepsSends

\* Nor does the end of the lookup,
LEMMA ResolvDoneSends ==
    ASSUME IInv, NEW ok \in BOOLEAN, ResolvDone(ok)
    PROVE  Sends(client, client')
<1> DEFINE x == [client EXCEPT !.lookups = @ - 1, !.resolv_timer = FALSE]
           y == [x EXCEPT !.tskt = "connecting"]
           z == set_connection_state(x, "DISCONNECTED")
<1>1. client' = IF ok THEN y ELSE z
  BY DEF ResolvDone, Becomes
<1>2. Good(client)
  BY DEF IInv
<1>3. Same(client, y)
  BY <1>2 DEF Good, Client, Same
<1>4. Same(client, z)
  BY <1>2 DEF Good, Client, Same, set_connection_state
<1> HIDE DEF y, z
<1> QED BY <1>1, <1>2, <1>3, <1>4, SameKeeps, KeepsSends

\* its timeout,
LEMMA ResolvTimeoutSends ==
    ASSUME IInv, ResolvTimeout
    PROVE  Sends(client, client')
<1> DEFINE n == IF client.lookups > 0 THEN client.lookups - 1 ELSE client.lookups
           x == [client EXCEPT !.resolv_timer = FALSE, !.lookups = n]
<1>1. client' = rtsp_client_disconnect(x)
  BY DEF ResolvTimeout, Becomes
<1>2. Good(client) /\ Good(client')
  BY ResolvTimeoutStep DEF IInv
<1>3. n \in Nat
  BY <1>2 DEF Good, Client
<1> HIDE DEF n
<1>4. x \in Client
  BY <1>2, <1>3 DEF Good, Client
<1>5. Same(client, x)
  BY <1>2 DEF Good, Client, Same
<1> HIDE DEF x
<1>6. Good(x) /\ Keeps(client, x)
  BY <1>2, <1>4, <1>5, SameGood, SameKeeps
<1> QED BY <1>1, <1>2, <1>6, DisconnectKeeps, KeepsTrans, KeepsSends

\* or a disconnection by the application.
LEMMA DisconnectSends ==
    ASSUME IInv, Disconnect
    PROVE  Sends(client, client')
BY DisconnectKeeps, KeepsSends DEF IInv, Disconnect, Becomes

\* A new connection may carry the first keep-alive.
LEMMA SocketConnectedSends ==
    ASSUME IInv, NEW failed, NEW first \in SessionOrNone, NEW res,
           SocketConnected(failed, first, res)
    PROVE  Sends(client, client')
<1> DEFINE x == [client EXCEPT !.sock = TRUE, !.tskt = "connected"]
           y == set_connection_state(x, "CONNECTED")
           z == keep_alive_all(y, failed, first, res)
<1>1. client' = z
  BY DEF SocketConnected, Becomes
<1>2. Good(client) /\ Good(client') /\ "CONNECTED" \in States
  BY SocketConnectedStep DEF IInv, States
<1>3. /\ failed \subseteq client.sessions \ client.keep_alive
      /\ first # NoSession => first \in client.sessions
      /\ first = NoSession => failed = client.sessions \ client.keep_alive
  BY DEF SocketConnected
<1>4. x \in Client
  BY <1>2 DEF Good, Client
<1>5. Same(client, x) /\ x.keep_alive = client.keep_alive
  BY <1>2 DEF Good, Client, Same
<1>6. y.keep_alive = x.keep_alive
  BY <1>4 DEF set_connection_state, Client
<1> HIDE DEF x
<1>7. Good(x) /\ Keeps(client, x)
  BY <1>2, <1>4, <1>5, SameGood, SameKeeps
<1>8. Good(y) /\ SameSlot(x, y) /\ y.sessions = x.sessions
  BY <1>2, <1>7, SetState
<1> HIDE DEF y
<1>9. Keeps(client, y)
  BY <1>2, <1>7, <1>8, SameKeeps, KeepsTrans
<1>10. Sends(y, z)
  BY <1>3, <1>5, <1>6, <1>8, KeepAliveAllSends DEF Same
<1> HIDE DEF z
<1> QED BY <1>1, <1>2, <1>8, <1>9, <1>10, KeepsTrans

\* A lost connection sends nothing.
LEMMA SocketDisconnectedSends ==
    ASSUME IInv, SocketDisconnected
    PROVE  Sends(client, client')
<1> DEFINE x == [client EXCEPT !.tskt = "connecting"]
<1>1. client' = event_disconnected(x)
  BY DEF SocketDisconnected, Becomes
<1>2. Good(client) /\ Good(client')
  BY SocketDisconnectedStep DEF IInv
<1>3. x \in Client
  BY <1>2 DEF Good, Client
<1>4. Same(client, x)
  BY <1>2 DEF Good, Client, Same
<1> HIDE DEF x
<1>5. Good(x) /\ Keeps(client, x)
  BY <1>2, <1>3, <1>4, SameGood, SameKeeps
<1> QED BY <1>1, <1>2, <1>5, EventDisconnectedKeeps, KeepsTrans, KeepsSends

\* Nor does the end of the client.
LEMMA DestroySends ==
    ASSUME IInv, Destroy
    PROVE  Sends(client, client')
<1> DEFINE x == [client EXCEPT !.req_timer = FALSE]
           y == tskt_client_stop(x)
           c == remove_all_sessions(y)
           d == [c EXCEPT !.conn_state = "DESTROYED", !.lookups = 0,
                          !.resolv_timer = FALSE, !.remote = FALSE,
                          !.request = NoRequest]
<1>1. client' = d
  BY DEF Destroy, Becomes
<1>2. Good(client)
  BY DEF IInv
<1>3. x \in Client
  BY <1>2 DEF Good, Client
<1>4. Same(client, x)
  BY <1>2 DEF Good, Client, Same
<1> HIDE DEF x
<1>5. Good(x) /\ Keeps(client, x)
  BY <1>2, <1>3, <1>4, SameGood, SameKeeps
<1>6. Good(y) /\ Keeps(client, y)
  BY <1>2, <1>5, TsktClientStopKeeps, KeepsTrans
<1> HIDE DEF y
<1>7. Good(c) /\ SameSlot(y, c)
  BY <1>6, RemoveAllSessions
<1> HIDE DEF c
<1>8. Keeps(client, c)
  BY <1>2, <1>6, <1>7, SameKeeps, KeepsTrans
<1>9. d.cseq = c.cseq /\ d.wire = c.wire /\ d.request = NoRequest
  BY <1>7 DEF Good, Client
<1> HIDE DEF d
<1> QED BY <1>1, <1>8, <1>9 DEF Keeps, Sends, Moves


\* A call that fails has sent no more than one that is accepted.
LEMMA AcceptedSends ==
    ASSUME NEW c, Good(c), NEW d, Good(d), Sends(c, d)
    PROVE  Sends(c, Accepted(c, d))
<1> DEFINE a == [d EXCEPT !.owed = @ \cup {c.cseq}]
<1>1. Accepted(c, d) = IF d.cseq = c.cseq THEN d ELSE a
  BY DEF Accepted
<1>2. /\ a.cseq = d.cseq /\ a.request = d.request /\ a.wire = d.wire
      /\ a.is_pending = d.is_pending
  BY DEF Good, Client
<1> HIDE DEF a
<1>3. Sends(c, a)
  BY <1>2 DEF Sends, Moves
<1> QED BY <1>1, <1>3

\* A request for a session that the client may not have.
LEMMA ForSessionSends ==
    ASSUME NEW c, Good(c), NEW m \in Methods \ {"GET_PARAMETER", "TEARDOWN"},
           NEW s \in SessionIds, NEW md \in MediaOrNone, NEW res,
           NEW timed \in BOOLEAN, m = "SETUP" => md \in Medias
    PROVE  LET d == ForSession(c, m, s, md, res, timed)
           IN  Good(d) /\ Sends(c, d)
<1> DEFINE b == clear_pending_keep_alive_timer(c)
           d == SendRequest(c, m, s, md, res, timed)
<1>1. Good(b) /\ Sends(c, b)
  BY ClearTimerKeeps, KeepsSends
<1>2. Good(d) /\ Sends(c, d)
  BY SendRequestRequested, SendRequestSends DEF SessionOrNone, Requested
<1> HIDE DEF b, d
<1> QED BY <1>1, <1>2 DEF ForSession, b, d

\* SETUP, in a new session or in a known one.
LEMMA SetupSends ==
    ASSUME IInv, NEW s \in SessionOrNone, NEW md \in Medias, NEW res,
           NEW timed \in BOOLEAN, Setup(s, md, res, timed)
    PROVE  Sends(client, client')
<1> DEFINE d == rtsp_client_setup(client, s, md, res, timed)
<1>1. Good(client)
  BY DEF IInv
<1>2. /\ "SETUP" \in Methods \ {"GET_PARAMETER", "TEARDOWN"}
      /\ md \in MediaOrNone
  BY DEF Methods, SessionMethods, MediaOrNone
<1>3. CASE s = NoSession
  <2>1. d = SendRequest(client, "SETUP", s, md, res, timed)
    BY <1>3 DEF rtsp_client_setup
  <2> HIDE DEF d
  <2>2. Good(d) /\ Sends(client, d)
    BY <1>1, <1>2, <2>1, SendRequestRequested, SendRequestSends DEF Requested
  <2> QED BY <1>1, <2>2, AcceptedSends DEF Setup, Becomes, d
<1>4. CASE s # NoSession
  <2>1. s \in SessionIds
    BY <1>4 DEF SessionOrNone
  <2>2. d = ForSession(client, "SETUP", s, md, res, timed)
    BY <1>4 DEF rtsp_client_setup
  <2> HIDE DEF d
  <2>3. Good(d) /\ Sends(client, d)
    BY <1>1, <1>2, <2>1, <2>2, ForSessionSends
  <2> QED BY <1>1, <2>3, AcceptedSends DEF Setup, Becomes, d
<1> QED BY <1>3, <1>4

\* PLAY.
LEMMA PlaySends ==
    ASSUME IInv, NEW s \in SessionIds, NEW res, NEW timed \in BOOLEAN,
           Play(s, res, timed)
    PROVE  Sends(client, client')
<1> DEFINE d == rtsp_client_play(client, s, res, timed)
<1>1. Good(client)
  BY DEF IInv
<1>2. /\ "PLAY" \in Methods \ {"GET_PARAMETER", "TEARDOWN"}
      /\ NoMedia \in MediaOrNone
  BY DEF Methods, SessionMethods, MediaOrNone
<1>3. Good(d) /\ Sends(client, d)
  BY <1>1, <1>2, ForSessionSends DEF rtsp_client_play
<1> HIDE DEF d
<1> QED BY <1>1, <1>3, AcceptedSends DEF Play, Becomes, d

\* TEARDOWN.
LEMMA TeardownSends ==
    ASSUME IInv, NEW s \in SessionIds, NEW md \in MediaOrNone, NEW res,
           NEW timed \in BOOLEAN, Teardown(s, md, res, timed)
    PROVE  Sends(client, client')
<1> DEFINE d == send_teardown(client, md, s, res, timed, FALSE)
<1>1. Good(client)
  BY DEF IInv
<1>2. Good(d) /\ Sends(client, d)
  <2> DEFINE Fine(x) == Good(x) /\ Sends(client, x)
  <2>1. \A internal \in BOOLEAN :
            Fine(send_teardown(client, md, s, res, timed, internal))
    BY <1>1, SendTeardownGood, SendTeardownSends
  <2> HIDE DEF Fine
  <2>2. Fine(d)
    BY <2>1, Zenon
  <2> QED BY <2>2 DEF Fine
<1>3. client' = Accepted(client, d)
  BY DEF Teardown, Becomes
<1> HIDE DEF d
<1> QED BY <1>1, <1>2, <1>3, AcceptedSends

\* Every call of the application that sends a request.
LEMMA RequestNextSends ==
    ASSUME IInv, RequestNext
    PROVE  Sends(client, client')
<1>0. Good(client)
  BY DEF IInv
<1> PICK res \in SendResults, timed \in BOOLEAN :
        \/ Options(res, timed) \/ Describe(res, timed) \/ Announce(res, timed)
        \/ \E s \in SessionOrNone, md \in Medias : Setup(s, md, res, timed)
        \/ \E s \in SessionIds : Play(s, res, timed)
        \/ \E s \in SessionIds : Pause(s, res, timed)
        \/ \E s \in SessionIds : Record(s, res, timed)
        \/ \E s \in SessionIds, md \in MediaOrNone : Teardown(s, md, res, timed)
  BY DEF RequestNext
<1>1. /\ {"OPTIONS", "DESCRIBE", "ANNOUNCE", "PAUSE", "RECORD"}
             \subseteq Methods \ {"GET_PARAMETER", "TEARDOWN"}
      /\ NoSession \in SessionOrNone /\ NoMedia \in MediaOrNone
  BY DEF Methods, SessionlessMethods, SessionMethods, SessionOrNone, MediaOrNone
<1>2. ASSUME NEW m \in {"OPTIONS", "DESCRIBE", "ANNOUNCE"}
      PROVE  LET d == SendRequest(client, m, NoSession, NoMedia, res, timed)
             IN  Sends(client, Accepted(client, d))
  <2> DEFINE d == SendRequest(client, m, NoSession, NoMedia, res, timed)
  <2>1. Good(d) /\ Sends(client, d)
    BY <1>0, <1>1, SendRequestRequested, SendRequestSends DEF Requested
  <2> HIDE DEF d
  <2>2. Sends(client, Accepted(client, d))
    BY <1>0, <2>1, AcceptedSends
  <2> QED BY <2>2 DEF d
<1>3. ASSUME NEW m \in {"PAUSE", "RECORD"}, NEW s \in SessionIds
      PROVE  LET d == ForSession(client, m, s, NoMedia, res, timed)
             IN  Sends(client, Accepted(client, d))
  <2> DEFINE d == ForSession(client, m, s, NoMedia, res, timed)
  <2>1. Good(d) /\ Sends(client, d)
    BY <1>0, <1>1, ForSessionSends
  <2> HIDE DEF d
  <2>2. Sends(client, Accepted(client, d))
    BY <1>0, <2>1, AcceptedSends
  <2> QED BY <2>2 DEF d
<1>4. CASE Options(res, timed)
  BY <1>2, <1>4 DEF Options, Becomes, rtsp_client_options
<1>5. CASE Describe(res, timed)
  BY <1>2, <1>5 DEF Describe, Becomes, rtsp_client_describe
<1>6. CASE Announce(res, timed)
  BY <1>2, <1>6 DEF Announce, Becomes, rtsp_client_announce
<1>7. CASE \E s \in SessionOrNone, md \in Medias : Setup(s, md, res, timed)
  BY <1>7, SetupSends
<1>8. CASE \E s \in SessionIds : Play(s, res, timed)
  BY <1>8, PlaySends
<1>9. CASE \E s \in SessionIds : Pause(s, res, timed)
  BY <1>3, <1>9 DEF Pause, Becomes, rtsp_client_pause
<1>10. CASE \E s \in SessionIds : Record(s, res, timed)
  BY <1>3, <1>10 DEF Record, Becomes, rtsp_client_record
<1>11. CASE \E s \in SessionIds, md \in MediaOrNone : Teardown(s, md, res, timed)
  BY <1>11, TeardownSends
<1> QED BY <1>4, <1>5, <1>6, <1>7, <1>8, <1>9, <1>10, <1>11

\* rtsp_client_cancel() sends nothing.
LEMMA CancelSends ==
    ASSUME IInv, Cancel
    PROVE  Sends(client, client')
<1>1. Good(client)
  BY DEF IInv
<1>2. client' = request_complete(client, Dummy(client), "CANCELED")
  BY DEF Cancel, Becomes
<1> QED BY <1>1, <1>2, DummyResponse, RequestCompleteKeeps, KeepsSends

\* A response, whoever it is for: it is taken from the wire.
LEMMA ResponseProcessSends ==
    ASSUME NEW c, Good(c), Connection(c), NEW cseq, NEW resp \in Response,
           NEW s, s # NoSession => s \in c.keep_alive,
           cseq = c.request.cseq /\ c.request.session # NoSession =>
               resp.session \in {c.request.session, NoSession},
           NEW m
    PROVE  LET d == [response_process(c, cseq, resp, s) EXCEPT !.wire = @ \ {m}]
           IN  Good(d) /\ Connection(d) /\ Sends(c, d)
<1> DEFINE p == response_process(c, cseq, resp, s)
           x == [c EXCEPT !.keep_alive = @ \ {s}]
           y == RetryLater(x, s)
           d == [p EXCEPT !.wire = @ \ {m}]
<1>1. Good(p) /\ Connection(p)
  BY ResponseProcessGood
<1>2. p = IF cseq = c.request.cseq THEN request_complete(c, resp, "OK")
          ELSE IF s = NoSession THEN c ELSE y
  BY DEF response_process
<1>3. SameSlot(c, c)
  BY DEF SameSlot
<1>4. SameSlot(c, y)
  BY DEF Good, Client, SameSlot, RetryLater
<1> HIDE DEF p, y
<1>5. Keeps(c, p)
  <2>1. CASE cseq = c.request.cseq
    BY <1>2, <2>1, RequestCompleteKeeps
  <2>2. CASE cseq # c.request.cseq
    BY <1>2, <1>3, <1>4, <2>2, SameKeeps
  <2> QED BY <2>1, <2>2
<1>6. Good(d) /\ Connection(d)
  BY <1>1, WireGood
<1>7. /\ d.cseq = p.cseq /\ d.request = p.request /\ d.is_pending = p.is_pending
      /\ d.wire \subseteq p.wire
  BY <1>1 DEF Good, Client
<1> HIDE DEF d
<1>8. Sends(c, d)
  BY <1>5, <1>7 DEF Keeps, Sends, Moves
<1> QED BY <1>6, <1>8 DEF d, p

\* Nor does a TEARDOWN of the server.
LEMMA ServerTeardownSends ==
    ASSUME IInv, NEW s \in SessionIds, NEW md, ServerTeardown(s, md)
    PROVE  Sends(client, client')
<1> DEFINE f == [client.medias EXCEPT ![s] = @ \ {md}]
           x == [client EXCEPT !.medias = f]
           y == remove_session_internal(client, s)
<1>1. Good(client)
  BY DEF IInv
<1>2. client' = x \/ client' = y
  BY DEF ServerTeardown, Becomes
<1>3. SameSlot(client, y)
  BY <1>1, RemoveSessionInternal
<1> HIDE DEF f
<1>4. SameSlot(client, x)
  BY <1>1 DEF Good, Client, SameSlot
<1> HIDE DEF x, y
<1> QED BY <1>1, <1>2, <1>3, <1>4, SameKeeps, KeepsSends

\* The timeout of a request may send a keep-alive or a retry.
LEMMA ResponseTimeoutSends ==
    ASSUME IInv, NEW res, NEW connect_ok \in BOOLEAN,
           ResponseTimeout(res, connect_ok)
    PROVE  Sends(client, client')
<1> DEFINE x == [client EXCEPT !.req_timer = FALSE]
<1>1. client' = request_timeout(x, res, connect_ok)
  BY DEF ResponseTimeout, Becomes
<1>2. Good(client) /\ Good(client')
  BY ResponseTimeoutStep DEF IInv
<1>3. x \in Client
  BY <1>2 DEF Good, Client
<1>4. Same(client, x)
  BY <1>2 DEF Good, Client, Same
<1> HIDE DEF x
<1>5. Good(x) /\ Keeps(client, x)
  BY <1>2, <1>3, <1>4, SameGood, SameKeeps
<1> QED BY <1>1, <1>2, <1>5, RequestTimeoutSends, KeepsTrans

\* The keep-alive timer may send a keep-alive.
LEMMA KeepAliveTimerSends ==
    ASSUME IInv, NEW s \in SessionIds, NEW res, KeepAliveTimer(s, res)
    PROVE  Sends(client, client')
<1> DEFINE x == [client EXCEPT !.timer = @ \ {s}]
<1>1. client' = send_keep_alive(x, s, res)
  BY DEF KeepAliveTimer, Becomes
<1>2. Good(client) /\ Good(client') /\ s \in client.sessions
  BY KeepAliveTimerStep DEF IInv, KeepAliveTimer, Good, Flags
<1>3. x \in Client
  BY <1>2 DEF Good, Client
<1>4. Same(client, x)
  BY <1>2 DEF Good, Client, Same
<1> HIDE DEF x
<1>5. Good(x) /\ Keeps(client, x) /\ s \in x.sessions
  BY <1>2, <1>3, <1>4, SameGood, SameKeeps DEF Same
<1> QED BY <1>1, <1>2, <1>5, SendKeepAliveSends, KeepsTrans

\* Messages of the server, timers, and the remaining calls.
LEMMA EventNextSends ==
    ASSUME IInv, EventNext
    PROVE  Sends(client, client')
<1>0. Good(client) /\ Connection(client)
  BY DEF IInv
<1>1. CASE \E s \in SessionIds : RemoveSession(s)
  BY <1>0, <1>1, RemoveSessionInternal, SameKeeps, KeepsSends
     DEF RemoveSession, Becomes
<1>2. CASE Cancel
  BY <1>2, CancelSends
<1>3. CASE \E m \in client.wire, code \in {"2xx", "454", "other"},
              sid \in SessionOrNone, pub \in PublicMethods \cup {{}},
              s \in SessionOrNone :
              ReceiveResponse(m, [code |-> code, session |-> sid,
                                  public |-> pub], s)
  <2> PICK m \in client.wire, code \in {"2xx", "454", "other"},
           sid \in SessionOrNone, pub \in PublicMethods \cup {{}},
           s \in SessionOrNone :
           ReceiveResponse(m, [code |-> code, session |-> sid,
                               public |-> pub], s)
    BY <1>3
  <2> DEFINE resp == [code |-> code, session |-> sid, public |-> pub]
  <2>1. resp \in Response /\ resp.session = sid
    BY ClientAssumption DEF Response
  <2> HIDE DEF resp
  <2>2. /\ client' = [response_process(client, m.cseq, resp, s)
                         EXCEPT !.wire = @ \ {m}]
        /\ s # NoSession => s \in client.keep_alive
        /\ m.session # NoSession => resp.session \in {m.session, NoSession}
    BY <2>1 DEF ReceiveResponse, Becomes, resp
  <2>3. m.cseq = client.request.cseq => m = client.request
    BY <1>0 DEF Good, Slot
  <2> QED BY <1>0, <2>1, <2>2, <2>3, ResponseProcessSends
<1>4. CASE \E m \in client.wire, s \in SessionOrNone : ReceiveNoCseq(m, s)
  <2> PICK m \in client.wire, s \in SessionOrNone : ReceiveNoCseq(m, s)
    BY <1>4
  <2> DEFINE resp == [code |-> "other", session |-> NoSession, public |-> {}]
  <2>1. resp \in Response /\ resp.session = NoSession
    BY DEF Response, SessionOrNone
  <2>2. /\ client' = [response_process(client, 0, resp, s)
                         EXCEPT !.wire = @ \ {m}]
        /\ s # NoSession => s \in client.keep_alive
    BY DEF ReceiveNoCseq, Becomes
  <2> HIDE DEF resp
  <2> QED BY <1>0, <2>1, <2>2, ResponseProcessSends
<1>5. CASE \E s \in SessionIds, md \in MediaOrNone : ServerTeardown(s, md)
  BY <1>5, ServerTeardownSends
<1>6. CASE \E res \in SendResults, connect_ok \in BOOLEAN :
              ResponseTimeout(res, connect_ok)
  BY <1>6, ResponseTimeoutSends
<1>7. CASE \E s \in SessionIds, res \in SendResults : KeepAliveTimer(s, res)
  BY <1>7, KeepAliveTimerSends
<1>8. CASE Destroyed
  BY <1>0, <1>8, CseqTypes DEF Destroyed, Sends, Moves
<1> QED BY <1>1, <1>2, <1>3, <1>4, <1>5, <1>6, <1>7, <1>8 DEF EventNext

\* Calls and events of the connection.
LEMMA ConnectionNextSends ==
    ASSUME IInv, ConnectionNext
    PROVE  Sends(client, client')
BY ConnectSends, ResolvDoneSends, ResolvTimeoutSends, SocketConnectedSends,
   SocketDisconnectedSends, DisconnectSends, DestroySends DEF ConnectionNext

(***************************************************************************)
(* Medias                                                                  *)
(***************************************************************************)

\* At most one session id: a client that is used for one session.
OneSession == \A s, t \in SessionIds : s = t

\* A session that is not in the list has no medias, and what is pending
\* without a callback is a keep-alive, or a TEARDOWN of the client's own that
\* no request may overtake.
Tidy(c) ==
    /\ \A s \in SessionIds \ c.sessions : c.medias[s] = {}
    /\ c.is_pending /\ c.owed = {} =>
          \/ c.request.method = "GET_PARAMETER"
          \/ c.request.method = "TEARDOWN" /\ c.keep_alive = {}

\* Sessions and medias may be removed.
Fewer(c, d) ==
    /\ d.sessions \subseteq c.sessions
    /\ \A s \in SessionIds : d.medias[s] \subseteq c.medias[s]

\* From c to d the slot is left alone, and sessions or medias may be removed.
Stays(c, d) ==
    /\ Fewer(c, d)
    /\ d.request = c.request /\ d.is_pending = c.is_pending
    /\ d.owed = c.owed /\ d.keep_alive \subseteq c.keep_alive
    /\ d.wire \subseteq c.wire

\* The sessions and medias after the request in the slot of c has ended in d,
\* for session sid: a SETUP may bring the session and, if it succeeded (ok),
\* its media; a TEARDOWN leaves nothing of what it named.
EndsSetup(c, d, sid, ok) ==
    /\ \A s \in d.sessions : s \in c.sessions \/ s = sid
    /\ \A s \in SessionIds : \A p \in d.medias[s] :
          p \in c.medias[s] \/ (ok /\ s = sid /\ p = c.request.media)

EndsTeardown(c, d) ==
    c.request.session # NoSession =>
        /\ c.request.media = NoMedia => c.request.session \notin d.sessions
        /\ c.request.media # NoMedia => c.request.media \notin d.medias[c.request.session]

Ends(c, d, sid, ok) ==
    /\ ~d.is_pending /\ d.wire \subseteq c.wire
    /\ IF c.request.method = "SETUP" THEN EndsSetup(c, d, sid, ok) ELSE Fewer(c, d)
    /\ c.request.method = "TEARDOWN" => EndsTeardown(c, d)

\* A new request is sent.  It names what the client has, and overtakes nothing
\* but a keep-alive.
Asks(c, d) ==
    /\ Fewer(c, d)
    /\ d.is_pending /\ d.request.cseq = c.cseq /\ d.request \in d.wire
    /\ d.request.session \in c.sessions \cup {NoSession}
    /\ d.request.method = "TEARDOWN" =>
          /\ d.request.session \in c.sessions
          /\ d.request.media \in c.medias[d.request.session] \cup {NoMedia}
    /\ c.is_pending => c.request.method = "GET_PARAMETER"

\* All sessions are removed.
Drops(d) ==
    /\ ~d.is_pending /\ d.sessions = {} /\ d.conn_state # "CONNECTED"
    /\ \A s \in SessionIds : d.medias[s] = {}

\* A client that leaves the slot alone is as tidy as it was.
LEMMA StaysTidy ==
    ASSUME NEW c, NEW d, Tidy(c), Stays(c, d),
           \A s \in c.sessions \ d.sessions : d.medias[s] = {}
    PROVE  Tidy(d)
BY DEF Tidy, Stays, Fewer

\* What follows a client that stays follows from the one before.
LEMMA StaysTrans ==
    ASSUME NEW c, NEW d, NEW e, Good(c), Stays(c, d)
    PROVE  /\ Stays(d, e) => Stays(c, e)
           /\ Asks(d, e) /\ d.cseq = c.cseq => Asks(c, e)
<1>1. ASSUME Stays(d, e) PROVE Stays(c, e)
  BY <1>1 DEF Stays, Fewer
<1>2. ASSUME Asks(d, e), d.cseq = c.cseq PROVE Asks(c, e)
  <2>1. c.sessions \subseteq SessionIds
    BY DEF Good, Client
  <2> QED BY <1>2, <2>1 DEF Stays, Fewer, Asks
<1> QED BY <1>1, <1>2

\* rtsp_client_remove_session_internal(): nothing is left of the session.
LEMMA RemoveStays ==
    ASSUME NEW c, Good(c), NEW s
    PROVE  LET d == remove_session_internal(c, s)
           IN  /\ Stays(c, d) /\ s \notin d.sessions
               /\ Tidy(c) => Tidy(d)
<1> DEFINE f == [c.failed_keep_alive EXCEPT ![s] = 0]
           m == [c.medias EXCEPT ![s] = {}]
           d == [c EXCEPT !.sessions = @ \ {s}, !.keep_alive = @ \ {s},
                          !.timer = @ \ {s}, !.internal_teardown = @ \ {s},
                          !.failed_keep_alive = f, !.medias = m]
<1>1. CASE s \notin c.sessions
  BY <1>1 DEF remove_session_internal, Stays, Fewer
<1>2. CASE s \in c.sessions
  <2>1. remove_session_internal(c, s) = d
    BY <1>2 DEF remove_session_internal
  <2>2. s \in SessionIds /\ c.medias \in [SessionIds -> SUBSET Medias]
    BY <1>2 DEF Good, Client
  <2>3. \A t \in SessionIds : m[t] = IF t = s THEN {} ELSE c.medias[t]
    BY <2>2
  <2> HIDE DEF f, m
  <2>4. /\ d.sessions = c.sessions \ {s} /\ d.keep_alive \subseteq c.keep_alive
        /\ d.medias = m /\ d.request = c.request /\ d.is_pending = c.is_pending
        /\ d.owed = c.owed /\ d.wire = c.wire
    BY DEF Good, Client
  <2> HIDE DEF d
  <2>5. Stays(c, d) /\ s \notin d.sessions
    BY <2>3, <2>4 DEF Stays, Fewer
  <2>6. Tidy(c) => Tidy(d)
    BY <2>2, <2>3, <2>4, <2>5, StaysTidy
  <2> QED BY <2>1, <2>5, <2>6
<1> QED BY <1>1, <1>2

(***************************************************************************)
(* Medias: completion                                                      *)
(***************************************************************************)

\* The session of the answer leaves the list of those that wait for one.
LEMMA SessionAliveIs ==
    ASSUME NEW c, Good(c), NEW q, NEW sid \in SessionOrNone
    PROVE  LET d == SessionAlive(ClearSlot(c), q, sid)
           IN  /\ d.keep_alive = c.keep_alive \ {sid}
               /\ c.sessions \subseteq d.sessions /\ d.sessions \subseteq c.sessions \cup {sid}
               /\ q.method # "SETUP" => d.sessions = c.sessions
<1> DEFINE x == ClearSlot(c)
           y == IF q.method = "SETUP" /\ sid # NoSession
                THEN get_session_add(x, sid) ELSE x
           k == [y EXCEPT !.keep_alive = @ \ {sid}]
           z == RetryLater(k, sid)
           d == SessionAlive(x, q, sid)
<1>1. x.keep_alive = c.keep_alive /\ x.sessions = c.sessions
  BY DEF ClearSlot, Good, Client
<1>2. x \in Client
  <2>1. NoRequest \in Request
    BY DEF NoRequest, Request, SessionOrNone, MediaOrNone
  <2> QED BY <2>1 DEF ClearSlot, Good, Client
<1> HIDE DEF x
<1>3. /\ y.keep_alive = c.keep_alive
      /\ c.sessions \subseteq y.sessions /\ y.sessions \subseteq c.sessions \cup {sid}
      /\ q.method # "SETUP" => y.sessions = c.sessions
      /\ y \in Client
  BY <1>1, <1>2 DEF get_session_add, Client, SessionOrNone
<1>4. d = IF sid \notin y.sessions THEN y ELSE z
  BY DEF SessionAlive
<1>5. NoSession \notin c.sessions
  BY ClientAssumption DEF Good, Client
<1> HIDE DEF y
<1>6. z.sessions = y.sessions /\ z.keep_alive = y.keep_alive \ {sid}
  BY <1>3 DEF RetryLater, Client
<1> HIDE DEF z, d
<1>7. c.keep_alive \subseteq c.sessions
  BY DEF Good, Flags
<1>8. /\ d.keep_alive = c.keep_alive \ {sid}
      /\ d.sessions = y.sessions
  BY <1>3, <1>4, <1>6, <1>7
<1> QED BY <1>3, <1>8 DEF d, x

\* The callback of a SETUP: the media is added if it succeeded.
LEMMA SetupCompletedIs ==
    ASSUME NEW c, NEW q, NEW sid, Completing(c, q, sid), q.method = "SETUP",
           NEW d, Freed(c, d), NEW status
    PROVE  LET e == setup_request_complete(d, q, sid, status)
           IN  /\ e.sessions = d.sessions /\ e.keep_alive = d.keep_alive
               /\ \A s \in SessionIds : \A p \in e.medias[s] :
                     \/ p \in d.medias[s]
                     \/ status = "OK" /\ s = sid /\ s \in d.sessions /\ p = q.media
<1> DEFINE x == Callback(d, q.cseq)
           ms == x.medias[sid] \cup {q.media}
           f == [x.medias EXCEPT ![sid] = ms]
           y == [x EXCEPT !.medias = f]
           e == setup_request_complete(d, q, sid, status)
<1>1. /\ x.sessions = d.sessions /\ x.keep_alive = d.keep_alive
      /\ x.medias = d.medias
  BY DEF Callback, Freed, Client
<1>2. x \in Client
  BY CallbackFreed DEF Freed
<1>3. e = IF status = "OK" /\ sid \in d.sessions THEN y ELSE x
  BY DEF setup_request_complete
<1> HIDE DEF x
<1>4. \A s \in SessionIds : f[s] = IF s = sid THEN ms ELSE x.medias[s]
  BY <1>2 DEF Client
<1> HIDE DEF f
<1>5. y.sessions = x.sessions /\ y.keep_alive = x.keep_alive /\ y.medias = f
  BY <1>2 DEF Client
<1> HIDE DEF y, e
<1> QED BY <1>1, <1>3, <1>4, <1>5 DEF e

\* That of a TEARDOWN: the media is removed.
LEMMA TeardownCompletedIs ==
    ASSUME NEW c, NEW q, NEW sid, Completing(c, q, sid), q.method = "TEARDOWN",
           NEW d, Freed(c, d)
    PROVE  LET e == teardown_request_complete(d, q, sid)
           IN  /\ e.sessions = d.sessions /\ e.keep_alive = d.keep_alive
               /\ \A s \in SessionIds : e.medias[s] \subseteq d.medias[s]
               /\ sid \in d.sessions => (q.media = NoMedia \/ q.media \notin e.medias[sid])
<1> DEFINE x == Callback(d, q.cseq)
           y == [x EXCEPT !.is_internal = FALSE]
           z == IF sid \in d.internal_teardown THEN d ELSE y
           f == [z.medias EXCEPT ![sid] = @ \ {q.media}]
           w == [z EXCEPT !.medias = f]
           p == Forget(d, q.cseq)
           e == teardown_request_complete(d, q, sid)
           Like(v) == /\ v \in Client /\ v.sessions = d.sessions
                      /\ v.keep_alive = d.keep_alive /\ v.medias = d.medias
<1>1. Like(x) /\ Like(d)
  <2>1. /\ x.sessions = d.sessions /\ x.keep_alive = d.keep_alive
        /\ x.medias = d.medias
    BY DEF Callback, Freed, Client
  <2> QED BY <2>1, CallbackFreed DEF Freed
<1>2. Like(p)
  BY DEF Forget, Freed, Client
<1>3. e = IF sid \notin d.sessions THEN IF d.is_internal THEN d ELSE y
          ELSE IF UnknownMedia(d, q, sid) THEN p ELSE w
  BY DEF teardown_request_complete
<1> HIDE DEF x, p
<1>4. Like(y)
  BY <1>1 DEF Client
<1> HIDE DEF y
<1>5. Like(z)
  BY <1>1, <1>4
<1> HIDE DEF z
<1>6. \A s \in SessionIds : f[s] = IF s = sid THEN z.medias[s] \ {q.media}
                                   ELSE z.medias[s]
  BY <1>5 DEF Client
<1> HIDE DEF f
<1>7. w.sessions = z.sessions /\ w.keep_alive = z.keep_alive /\ w.medias = f
  BY <1>5 DEF Client
<1>8. d.sessions \subseteq SessionIds
  BY <1>1 DEF Client
<1>9. UnknownMedia(d, q, sid) => q.media \notin d.medias[sid]
  BY DEF UnknownMedia
<1> HIDE DEF w, e
<1>10. CASE sid \notin d.sessions
  <2>1. Like(e)
    BY <1>1, <1>3, <1>4, <1>10
  <2> QED BY <1>10, <2>1 DEF e
<1>11. CASE sid \in d.sessions /\ UnknownMedia(d, q, sid)
  BY <1>2, <1>3, <1>9, <1>11 DEF e
<1>12. CASE sid \in d.sessions /\ ~UnknownMedia(d, q, sid)
  BY <1>3, <1>5, <1>6, <1>7, <1>8, <1>12 DEF e
<1> QED BY <1>10, <1>11, <1>12

\* What the completion of a request does to the sessions and medias, up to
\* the removal of the session.
LEMMA CompletedIs ==
    ASSUME NEW c, NEW resp \in Response, NEW sid, sid = SessionOf(c.request, resp),
           Completing(c, c.request, sid), NEW status
    PROVE  LET e == Completed(c, resp, status)
               q == c.request
           IN  /\ e.keep_alive = c.keep_alive \ {sid}
               /\ c.sessions \subseteq e.sessions /\ e.sessions \subseteq c.sessions \cup {sid}
               /\ q.method # "SETUP" => e.sessions = c.sessions
               /\ q.method \notin {"SETUP", "TEARDOWN"} => e.medias = c.medias
               /\ q.method = "SETUP" =>
                     \A s \in SessionIds : \A p \in e.medias[s] :
                        \/ p \in c.medias[s]
                        \/ status = "OK" /\ s = sid /\ s \in e.sessions /\ p = q.media
               /\ q.method = "TEARDOWN" =>
                     /\ \A s \in SessionIds : e.medias[s] \subseteq c.medias[s]
                     /\ sid \in c.sessions =>
                           (q.media = NoMedia \/ q.media \notin e.medias[sid])
<1> DEFINE q == c.request
           d == SessionAlive(ClearSlot(c), q, sid)
           e == Completed(c, resp, status)
<1>1. Good(c) /\ sid \in SessionOrNone
  BY DEF Completing
<1>2. Freed(c, d) /\ d.medias = c.medias
  BY <1>1, SessionAliveFreed
<1>3. /\ d.keep_alive = c.keep_alive \ {sid}
      /\ c.sessions \subseteq d.sessions /\ d.sessions \subseteq c.sessions \cup {sid}
      /\ q.method # "SETUP" => d.sessions = c.sessions
  BY <1>1, SessionAliveIs
<1>4. CASE q.method = "SETUP"
  <2>1. e = setup_request_complete(d, q, sid, status)
    BY <1>4 DEF Completed, Methods, SessionlessMethods, SessionMethods
  <2> HIDE DEF d, e
  <2>2. /\ e.sessions = d.sessions /\ e.keep_alive = d.keep_alive
        /\ \A s \in SessionIds : \A p \in e.medias[s] :
              \/ p \in d.medias[s]
              \/ status = "OK" /\ s = sid /\ s \in d.sessions /\ p = q.media
    BY <1>2, <1>4, <2>1, SetupCompletedIs
  <2> QED BY <1>2, <1>3, <1>4, <2>2 DEF e
<1>5. CASE q.method = "TEARDOWN"
  <2>1. e = teardown_request_complete(d, q, sid)
    BY <1>5 DEF Completed, Methods, SessionlessMethods, SessionMethods
  <2> HIDE DEF d, e
  <2>2. /\ e.sessions = d.sessions /\ e.keep_alive = d.keep_alive
        /\ \A s \in SessionIds : e.medias[s] \subseteq d.medias[s]
        /\ sid \in d.sessions => (q.media = NoMedia \/ q.media \notin e.medias[sid])
    BY <1>2, <1>5, <2>1, TeardownCompletedIs
  <2> QED BY <1>2, <1>3, <1>5, <2>2 DEF e
<1>6. CASE q.method \notin {"SETUP", "TEARDOWN"}
  <2> DEFINE o == [d EXCEPT !.methods_allowed = resp.public]
             n == [d.failed_keep_alive EXCEPT ![sid] = 0]
             k == [d EXCEPT !.failed_keep_alive = n]
             Like(v) == /\ v.sessions = d.sessions /\ v.keep_alive = d.keep_alive
                        /\ v.medias = d.medias
  <2>1. e \in {Callback(o, q.cseq), Callback(d, q.cseq), k, d}
    BY <1>6 DEF Completed, Methods, SessionlessMethods, SessionMethods
  <2> HIDE DEF d, n
  <2>2. d \in Client
    BY <1>2 DEF Freed
  <2>3. Like(Callback(o, q.cseq)) /\ Like(Callback(d, q.cseq)) /\ Like(k) /\ Like(d)
    BY <2>2 DEF Callback, Client
  <2> HIDE DEF e, o, k
  <2>4. Like(e)
    BY <2>1, <2>3
  <2> QED BY <1>2, <1>3, <1>6, <2>4 DEF e
<1> QED BY <1>4, <1>5, <1>6

\* A request that has ended before its session may be removed.
LEMMA CompletedEnds ==
    ASSUME NEW c, NEW resp \in Response, NEW sid, sid = SessionOf(c.request, resp),
           Completing(c, c.request, sid), Tidy(c), NEW status
    PROVE  LET e == Completed(c, resp, status)
           IN  /\ Good(e) /\ ~e.is_pending /\ e.owed = {} /\ Tidy(e)
               /\ e.wire = c.wire /\ e.cseq = c.cseq
               /\ e.keep_alive = c.keep_alive \ {sid}
               /\ IF c.request.method = "SETUP" THEN EndsSetup(c, e, sid, status = "OK")
                  ELSE Fewer(c, e)
<1> DEFINE q == c.request
           e == Completed(c, resp, status)
<1>1. Good(c)
  BY DEF Completing
<1>2. Freed(c, e) /\ e.owed = {}
  BY CompletedFreed
<1>3. /\ e.keep_alive = c.keep_alive \ {sid}
      /\ c.sessions \subseteq e.sessions /\ e.sessions \subseteq c.sessions \cup {sid}
      /\ q.method # "SETUP" => e.sessions = c.sessions
      /\ q.method \notin {"SETUP", "TEARDOWN"} => e.medias = c.medias
      /\ q.method = "SETUP" =>
            \A s \in SessionIds : \A p \in e.medias[s] :
               \/ p \in c.medias[s]
               \/ status = "OK" /\ s = sid /\ s \in e.sessions /\ p = q.media
      /\ q.method = "TEARDOWN" => \A s \in SessionIds : e.medias[s] \subseteq c.medias[s]
  BY CompletedIs
<1> HIDE DEF e
<1>4. Good(e) /\ ~e.is_pending /\ e.wire = c.wire /\ e.cseq = c.cseq
  BY <1>1, <1>2, FreedGood DEF Freed
<1>5. IF q.method = "SETUP" THEN EndsSetup(c, e, sid, status = "OK") ELSE Fewer(c, e)
  BY <1>3 DEF EndsSetup, Fewer
<1>6. \A s \in SessionIds \ e.sessions : e.medias[s] = {}
  <2> SUFFICES ASSUME NEW s \in SessionIds \ e.sessions, NEW p \in e.medias[s]
               PROVE  FALSE
    OBVIOUS
  <2>1. c.medias[s] = {}
    BY <1>3 DEF Tidy
  <2> QED BY <1>3, <2>1
<1>7. Tidy(e)
  BY <1>4, <1>6 DEF Tidy
<1> QED BY <1>2, <1>3, <1>4, <1>5, <1>7 DEF e

\* request_complete() ends the request in the slot.
LEMMA RequestCompleteEnds ==
    ASSUME NEW c, Good(c), Tidy(c), c.is_pending, NEW resp \in Response, NEW status,
           c.request.session # NoSession =>
               resp.session \in {c.request.session, NoSession}
    PROVE  LET d == request_complete(c, resp, status)
           IN  /\ Tidy(d)
               /\ Ends(c, d, SessionOf(c.request, resp),
                       status = "OK" /\ resp.code = "2xx")
<1> DEFINE q == c.request
           sid == SessionOf(q, resp)
           final == IF status = "OK" /\ resp.code # "2xx" THEN "FAILED"
                    ELSE status
           d == Completed(c, resp, final)
           x == remove_session_internal(d, sid)
           e == IF SessionRemoved(c, resp) THEN x ELSE d
           f == [e EXCEPT !.failed_requests = 0]
           ok == status = "OK" /\ resp.code = "2xx"
<1>1. request_complete(c, resp, status) = f
  BY DEF request_complete
<1>2. Completing(c, q, sid)
  BY DEF Completing, SessionOf, Good, Client, Request, Response
<1>3. /\ Good(d) /\ ~d.is_pending /\ Tidy(d) /\ d.wire = c.wire
      /\ IF q.method = "SETUP" THEN EndsSetup(c, d, sid, final = "OK") ELSE Fewer(c, d)
  BY <1>2, CompletedEnds
<1>4. q.method = "TEARDOWN" /\ sid \in c.sessions =>
          (q.media = NoMedia \/ q.media \notin d.medias[sid])
  BY <1>2, CompletedIs
<1>5. (final = "OK") <=> ok
  OBVIOUS
<1>6. q.session # NoSession => sid = q.session /\ sid \in SessionIds
  BY <1>2 DEF Completing, SessionOrNone
<1>7. q.method = "TEARDOWN" /\ q.media = NoMedia /\ sid \in c.sessions =>
          SessionRemoved(c, resp)
  BY DEF SessionRemoved, UnknownMedia, TeardownRemoves
<1> HIDE DEF d, final, sid, ok
<1>8. Good(x) /\ Stays(d, x) /\ sid \notin x.sessions /\ Tidy(x)
  BY <1>3, RemoveStays, RemoveSessionInternal
<1> HIDE DEF x
<1>9. Good(e) /\ Tidy(e) /\ Stays(d, e) /\ (SessionRemoved(c, resp) => sid \notin e.sessions)
  BY <1>3, <1>8 DEF Stays, Fewer
<1> HIDE DEF e
<1>10. /\ f.sessions = e.sessions /\ f.medias = e.medias /\ f.wire = e.wire
       /\ f.is_pending = e.is_pending
  BY <1>9 DEF Good, Client
<1> HIDE DEF f
<1>11. ~f.is_pending /\ f.wire \subseteq c.wire
  BY <1>3, <1>9, <1>10 DEF Stays
<1>12. q.method = "SETUP" => EndsSetup(c, f, sid, ok)
  <2> SUFFICES ASSUME q.method = "SETUP" PROVE EndsSetup(c, f, sid, ok)
    OBVIOUS
  <2>1. EndsSetup(c, d, sid, ok)
    BY <1>3, <1>5, Zenon
  <2> QED BY <1>9, <1>10, <2>1 DEF EndsSetup, Stays, Fewer
<1>13. q.method # "SETUP" => Fewer(c, f)
  BY <1>3, <1>9, <1>10 DEF Fewer, Stays
<1>14. q.method = "TEARDOWN" => EndsTeardown(c, f)
  <2> SUFFICES ASSUME q.method = "TEARDOWN", q.session # NoSession
               PROVE  /\ q.media = NoMedia => q.session \notin f.sessions
                      /\ q.media # NoMedia => q.media \notin f.medias[q.session]
    BY DEF EndsTeardown
  <2>1. CASE sid \in c.sessions
    BY <1>4, <1>6, <1>7, <1>9, <1>10, <2>1 DEF Stays, Fewer
  <2>2. CASE sid \notin c.sessions
    <3>1. c.medias[sid] = {}
      BY <1>6, <2>2 DEF Tidy
    <3> QED BY <1>6, <1>13, <2>2, <3>1 DEF Fewer
  <2> QED BY <2>1, <2>2
<1>15. Ends(c, f, sid, ok)
  BY <1>11, <1>12, <1>13, <1>14 DEF Ends
<1>16. Tidy(f)
  BY <1>9, <1>10, <1>11 DEF Tidy
<1> QED BY <1>1, <1>15, <1>16 DEF sid, ok

\* A response is for the request in the slot, or is taken for the answer to a
\* keep-alive.
LEMMA ResponseProcessEnds ==
    ASSUME NEW c, Good(c), Tidy(c), NEW cseq, NEW resp \in Response,
           NEW s, s # NoSession => s \in c.keep_alive,
           cseq = c.request.cseq => c.is_pending,
           cseq = c.request.cseq /\ c.request.session # NoSession =>
               resp.session \in {c.request.session, NoSession},
           NEW m
    PROVE  LET d == [response_process(c, cseq, resp, s) EXCEPT !.wire = @ \ {m}]
           IN  /\ Tidy(d)
               /\ cseq = c.request.cseq =>
                     Ends(c, d, SessionOf(c.request, resp), resp.code = "2xx")
               /\ cseq # c.request.cseq => Stays(c, d)
<1> DEFINE p == response_process(c, cseq, resp, s)
           d == [p EXCEPT !.wire = @ \ {m}]
<1>1. CASE cseq = c.request.cseq
  <2>1. p = request_complete(c, resp, "OK")
    BY <1>1 DEF response_process
  <2> HIDE DEF p
  <2>2. Tidy(p) /\ Ends(c, p, SessionOf(c.request, resp), resp.code = "2xx")
    BY <1>1, <2>1, RequestCompleteEnds
  <2>3. p \in Client
    BY <1>1, <2>1, RequestCompleteGood DEF Good
  <2>4. /\ d.sessions = p.sessions /\ d.medias = p.medias /\ d.wire \subseteq p.wire
        /\ d.is_pending = p.is_pending
    BY <2>3 DEF Client
  <2> HIDE DEF d
  <2>5. Tidy(d) /\ Ends(c, d, SessionOf(c.request, resp), resp.code = "2xx")
    BY <2>2, <2>4 DEF Tidy, Ends, EndsSetup, EndsTeardown, Fewer
  <2> QED BY <1>1, <2>5 DEF d, p
<1>2. CASE cseq # c.request.cseq
  <2> DEFINE x == [c EXCEPT !.keep_alive = @ \ {s}]
             y == [x EXCEPT !.timer = @ \cup {s}]
  <2>1. p = IF s = NoSession THEN c ELSE y
    BY <1>2 DEF response_process, RetryLater
  <2>2. Stays(c, y) /\ y.sessions = c.sessions
    BY DEF Good, Client, Stays, Fewer
  <2>3. Stays(c, c)
    BY DEF Stays, Fewer
  <2>4. s # NoSession => y \in Client
    BY DEF Good, Client, Flags
  <2> HIDE DEF y, p
  <2>5. Stays(c, p) /\ p.sessions = c.sessions /\ p \in Client
    BY <2>1, <2>2, <2>3, <2>4 DEF Good
  <2>6. Stays(c, d) /\ d.sessions = c.sessions
    BY <2>5 DEF Client, Stays, Fewer
  <2> HIDE DEF d
  <2>7. Tidy(d)
    BY <2>6, StaysTidy
  <2> QED BY <1>2, <2>6, <2>7 DEF d, p
<1> QED BY <1>1, <1>2

(***************************************************************************)
(* Medias: sending                                                         *)
(***************************************************************************)

\* A header in the slot leaves the sessions and medias alone.
LEMMA SetHeaderMedias ==
    ASSUME NEW c, Good(c), NEW q \in Request
    PROVE  LET d == SetHeader(c, q)
           IN  d.medias = c.medias /\ d.wire = c.wire /\ d \in Client
<1> DEFINE x == IF c.is_pending THEN Forget(c, c.request.cseq) ELSE c
           d == [x EXCEPT !.request = q]
<1>1. SetHeader(c, q) = d
  BY DEF SetHeader
<1>2. x \in Client /\ x.medias = c.medias /\ x.wire = c.wire
  BY DEF Forget, Good, Client
<1> HIDE DEF x
<1>3. d \in Client /\ d.medias = x.medias /\ d.wire = x.wire
  BY <1>2 DEF Client
<1> QED BY <1>1, <1>2, <1>3

\* Nor does taking it touch them.
LEMMA TakeSlotMedias ==
    ASSUME NEW c, Good(c), NEW q \in Request
    PROVE  LET d == TakeSlot(c, q) IN d.medias = c.medias /\ d.wire = c.wire
<1> DEFINE h == SetHeader(c, q)
<1>1. h.medias = c.medias /\ h.wire = c.wire /\ h \in Client
  BY SetHeaderMedias
<1> HIDE DEF h
<1>2. TakeSlot(c, q) = [h EXCEPT !.is_pending = TRUE, !.cseq = @ + 1]
  BY DEF TakeSlot, h
<1> QED BY <1>1, <1>2 DEF Client

\* A keep-alive is sent, or the slot is left alone.
LEMMA SendKeepAliveAsks ==
    ASSUME NEW c, Good(c), Tidy(c), NEW s \in c.sessions
    PROVE  LET d == send_keep_alive(c, s, "OK")
           IN  Tidy(d) /\ (Stays(c, d) \/ Asks(c, d))
<1> DEFINE d == send_keep_alive(c, s, "OK")
           q == [method |-> "GET_PARAMETER", cseq |-> c.cseq,
                 session |-> s, media |-> NoMedia]
           failed == c.failed_keep_alive[s] + 1
           g == [c.failed_keep_alive EXCEPT ![s] = failed]
           f == [c EXCEPT !.failed_keep_alive = g]
           w == TakeSlot(c, q)
           e == [w EXCEPT !.keep_alive = @ \cup {s}, !.req_timer = TRUE,
                          !.wire = @ \cup {q}]
<1>0. s \in SessionIds /\ c.cseq \in Nat
  BY DEF Good, Client
<1>1. /\ q \in Request /\ q.cseq = c.cseq /\ q.method = "GET_PARAMETER"
      /\ q.session = s
  BY <1>0 DEF Request, Methods, SessionMethods, SessionOrNone, MediaOrNone
<1>2. d \in {c, remove_session_internal(c, s), RetryLater(f, s), RetryLater(c, s)}
         \/ (d = e /\ ~c.is_pending)
  BY DEF send_keep_alive
<1>3. Stays(c, c)
  BY DEF Stays, Fewer
<1>4. LET r == remove_session_internal(c, s) IN Stays(c, r) /\ Tidy(r)
  BY RemoveStays
<1>5. LET r == RetryLater(c, s) IN Stays(c, r) /\ r.sessions = c.sessions
  BY DEF RetryLater, Good, Client, Stays, Fewer
<1>6. LET r == RetryLater(f, s) IN Stays(c, r) /\ r.sessions = c.sessions
  <2> HIDE DEF g
  <2> QED BY DEF RetryLater, Good, Client, Stays, Fewer
<1> HIDE DEF q
<1>7. /\ Good(w) /\ Header(c, w, q) /\ w.is_pending
      /\ w.medias = c.medias /\ w.wire = c.wire
  BY <1>1, TakeSlotGood, TakeSlotMedias
<1> HIDE DEF w
<1>8. /\ e.request = q /\ e.is_pending /\ e.wire = c.wire \cup {q}
      /\ e.medias = c.medias /\ e.sessions = c.sessions
  BY <1>7 DEF Good, Client, Header
<1> HIDE DEF e
<1>9. ~c.is_pending => Asks(c, e) /\ Tidy(e)
  BY <1>1, <1>8 DEF Asks, Fewer, Tidy
<1> HIDE DEF f, d
<1> QED BY <1>2, <1>3, <1>4, <1>5, <1>6, <1>9, StaysTidy DEF d

\* A request of the application takes the slot from a keep-alive at most.
LEMMA SendRequestAsks ==
    ASSUME NEW c, Good(c), Tidy(c), NEW m \in Methods, NEW s \in c.sessions \cup {NoSession},
           NEW md \in MediaOrNone, NEW timed \in BOOLEAN, m = "SETUP" => md \in Medias,
           m = "TEARDOWN" => s \in c.sessions /\ md \in c.medias[s] \cup {NoMedia},
           c.is_pending => c.request.method = "GET_PARAMETER"
    PROVE  LET d == SendRequest(c, m, s, md, "OK", timed)
           IN  /\ Asks(c, d) /\ d.sessions = c.sessions /\ d.medias = c.medias
               /\ d.keep_alive = c.keep_alive /\ d.request.method = m
               /\ d.cseq = c.cseq + 1
<1> DEFINE b == clear_pending_keep_alive_timer(c)
           q == [method |-> m, cseq |-> c.cseq, session |-> s, media |-> md]
           w == TakeSlot(b, q)
           d == [w EXCEPT !.req_timer = timed \/ @, !.wire = @ \cup {q}]
<1>1. SendRequest(c, m, s, md, "OK", timed) = d
  BY DEF SendRequest
<1>2. /\ q \in Request /\ q.cseq = c.cseq /\ q.method = m /\ q.session = s
      /\ q.media = md
  BY DEF Request, SessionOrNone, Good, Client
<1>3. /\ Good(b) /\ b.sessions = c.sessions /\ b.medias = c.medias
      /\ b.keep_alive = c.keep_alive /\ b.cseq = c.cseq
  <2>1. /\ b.sessions = c.sessions /\ b.medias = c.medias
        /\ b.keep_alive = c.keep_alive /\ b.cseq = c.cseq
    BY DEF clear_pending_keep_alive_timer, Good, Client
  <2> QED BY <2>1, ClearTimerGood
<1> HIDE DEF b, q
<1>4. /\ Good(w) /\ Header(b, w, q) /\ w.is_pending /\ w.cseq = b.cseq + 1
      /\ w.medias = b.medias
  BY <1>2, <1>3, TakeSlotGood, TakeSlotMedias
<1> HIDE DEF w
<1>5. /\ d.request = q /\ d.is_pending /\ q \in d.wire /\ d.sessions = c.sessions
      /\ d.medias = c.medias /\ d.keep_alive = c.keep_alive /\ d.cseq = c.cseq + 1
  BY <1>3, <1>4 DEF Good, Client, Header
<1> HIDE DEF d
<1>6. Asks(c, d)
  BY <1>2, <1>5 DEF Asks, Fewer
<1> QED BY <1>1, <1>2, <1>5, <1>6

\* send_teardown() of what the client has.
LEMMA SendTeardownAsks ==
    ASSUME NEW c, Good(c), Tidy(c), NEW s \in c.sessions,
           NEW md \in c.medias[s] \cup {NoMedia}, NEW timed \in BOOLEAN,
           NEW internal \in BOOLEAN, CanRequest(c, "TEARDOWN"),
           c.is_pending => c.request.method = "GET_PARAMETER"
    PROVE  LET d == send_teardown(c, md, s, "OK", timed, internal)
           IN  /\ Asks(c, d) /\ d.sessions = c.sessions /\ d.medias = c.medias
               /\ d.keep_alive = c.keep_alive /\ d.request.method = "TEARDOWN"
               /\ d.cseq = c.cseq + 1
<1> DEFINE r == SendRequest(c, "TEARDOWN", s, md, "OK", timed)
           it == IF internal THEN r.internal_teardown \cup {s}
                 ELSE r.internal_teardown \ {s}
           d == [r EXCEPT !.is_internal = internal, !.internal_teardown = it]
<1>1. send_teardown(c, md, s, "OK", timed, internal) = d
  BY DEF send_teardown
<1>2. /\ s \in SessionOrNone /\ md \in MediaOrNone /\ "TEARDOWN" \in Methods
      /\ s \in c.sessions \cup {NoSession}
  BY DEF Good, Client, SessionOrNone, MediaOrNone, Methods, SessionMethods
<1>3. /\ Asks(c, r) /\ r.sessions = c.sessions /\ r.medias = c.medias
      /\ r.keep_alive = c.keep_alive /\ r.request.method = "TEARDOWN"
      /\ r.cseq = c.cseq + 1
  BY <1>2, SendRequestAsks
<1>4. r \in Client
  BY <1>2, SendRequestGood DEF Sent, Good
<1> HIDE DEF r, it
<1>5. /\ d.request = r.request /\ d.is_pending = r.is_pending /\ d.wire = r.wire
      /\ d.sessions = r.sessions /\ d.medias = r.medias /\ d.keep_alive = r.keep_alive
      /\ d.cseq = r.cseq
  BY <1>4 DEF Client
<1> HIDE DEF d
<1>6. Asks(c, d)
  BY <1>3, <1>5 DEF Asks, Fewer
<1> QED BY <1>1, <1>3, <1>5, <1>6

\* The client gives a session up: no keep-alive is left to be overtaken.
LEMMA GiveUpAsks ==
    ASSUME NEW c, Good(c), Tidy(c), ~c.is_pending, c.keep_alive = {},
           NEW s \in c.sessions
    PROVE  LET d == GiveUp(c, s, "OK")
           IN  Tidy(d) /\ (Stays(c, d) \/ Asks(c, d))
<1> DEFINE t == send_teardown(c, NoMedia, s, "OK", TRUE, TRUE)
           r == remove_session_internal(c, s)
           d == GiveUp(c, s, "OK")
<1>1. CASE CanRequest(c, "TEARDOWN")
  <2>1. d = t
    BY <1>1 DEF GiveUp, send_teardown_ok
  <2>2. /\ Asks(c, t) /\ t.sessions = c.sessions /\ t.medias = c.medias
        /\ t.keep_alive = c.keep_alive /\ t.request.method = "TEARDOWN"
    <3> DEFINE Fine(x) == /\ Asks(c, x) /\ x.sessions = c.sessions
                          /\ x.medias = c.medias /\ x.keep_alive = c.keep_alive
                          /\ x.request.method = "TEARDOWN"
    <3>1. NoMedia \in c.medias[s] \cup {NoMedia} /\ TRUE \in BOOLEAN
      OBVIOUS
    <3>2. \A timed, internal \in BOOLEAN :
              Fine(send_teardown(c, NoMedia, s, "OK", timed, internal))
      BY <1>1, <3>1, SendTeardownAsks
    <3> HIDE DEF Fine
    <3>3. Fine(t)
      BY <3>1, <3>2, Zenon
    <3> QED BY <3>3 DEF Fine
  <2> HIDE DEF t
  <2>3. Tidy(t)
    BY <2>2 DEF Tidy
  <2> QED BY <2>1, <2>2, <2>3
<1>2. CASE ~CanRequest(c, "TEARDOWN")
  <2>1. d = r
    BY <1>2 DEF GiveUp, send_teardown_ok, send_teardown
  <2> QED BY <2>1, RemoveStays
<1> QED BY <1>1, <1>2

\* The timeout of a keep-alive, once it has ended.
LEMMA KeepAliveTimeoutAsks ==
    ASSUME NEW c, Good(c), Tidy(c), ~c.is_pending, c.keep_alive = {},
           NEW s \in c.sessions
    PROVE  LET d == keep_alive_timeout(c, s, "OK")
           IN  Tidy(d) /\ (Stays(c, d) \/ Asks(c, d))
<1> DEFINE failed == c.failed_keep_alive[s] + 1
           g == [c.failed_keep_alive EXCEPT ![s] = failed]
           d == [c EXCEPT !.failed_keep_alive = g]
           e == [d EXCEPT !.timer = @ \ {s}]
           Like(v) == /\ Good(v) /\ Same(c, v) /\ v.medias = c.medias
                      /\ v.keep_alive = c.keep_alive
<1>1. keep_alive_timeout(c, s, "OK") =
          IF failed < MaxFailedKeepAlive THEN send_keep_alive(d, s, "OK")
          ELSE GiveUp(e, s, "OK")
  BY DEF keep_alive_timeout
<1>2. g \in [SessionIds -> Nat]
  BY DEF Good, Client
<1> HIDE DEF failed, g
<1>3. d \in Client /\ Same(c, d) /\ d.medias = c.medias /\ d.keep_alive = c.keep_alive
  BY <1>2 DEF Good, Client, Same
<1> HIDE DEF d
<1>4. e \in Client /\ Same(c, e) /\ e.medias = c.medias /\ e.keep_alive = c.keep_alive
  BY <1>3 DEF Client, Same
<1> HIDE DEF e
<1>5. Like(d) /\ Like(e)
  BY <1>3, <1>4, SameGood
<1>6. ASSUME NEW v, Like(v)
      PROVE  /\ Tidy(v) /\ Stays(c, v) /\ v.cseq = c.cseq /\ s \in v.sessions
             /\ ~v.is_pending
  BY <1>6 DEF Same, Tidy, Stays, Fewer
<1>7. LET k == send_keep_alive(d, s, "OK")
      IN  Tidy(k) /\ (Stays(c, k) \/ Asks(c, k))
  BY <1>5, <1>6, SendKeepAliveAsks, StaysTrans
<1>8. LET k == GiveUp(e, s, "OK")
      IN  Tidy(k) /\ (Stays(c, k) \/ Asks(c, k))
  <2>1. /\ Good(e) /\ Tidy(e) /\ Stays(c, e) /\ e.cseq = c.cseq /\ s \in e.sessions
        /\ ~e.is_pending /\ e.keep_alive = {}
    BY <1>5, <1>6
  <2> QED BY <2>1, GiveUpAsks, StaysTrans
<1> QED BY <1>1, <1>7, <1>8

\* A request that has timed out has ended; a keep-alive may be followed by
\* another or by a TEARDOWN.
LEMMA RequestTimeoutEnds ==
    ASSUME OneSession, NEW c, Good(c), Connection(c), Tidy(c), c.is_pending,
           NEW connect_ok \in BOOLEAN
    PROVE  LET d == request_timeout(c, "OK", connect_ok)
           IN  d.sock => /\ Tidy(d)
                         /\ Ends(c, d, c.request.session, FALSE) \/ Asks(c, d)
<1> DEFINE q == c.request
           resp == Dummy(c)
           sid == q.session
           d == Completed(c, resp, "TIMEOUT")
           r == remove_session_internal(d, sid)
           k == keep_alive_timeout(d, sid, "OK")
           e == IF q.method = "GET_PARAMETER" /\ sid \in d.sessions THEN k
                ELSE IF SessionRemoved(c, resp) THEN r ELSE d
           f == [e EXCEPT !.failed_requests = @ + 1]
           g == tskt_client_stop(f)
           h == set_connection_state(g, "CONNECTING")
           i == [h EXCEPT !.tskt = IF connect_ok THEN "connecting" ELSE @]
<1>1. request_timeout(c, "OK", connect_ok) =
          IF f.failed_requests < MaxFailedRequests THEN f ELSE i
  BY DEF request_timeout
<1>2. /\ resp \in Response /\ SessionOf(q, resp) = sid /\ sid \in SessionOrNone
      /\ resp.code = "other"
  BY DummyResponse DEF SessionOf, Good, Client, Request, Dummy
<1>3. Completing(c, q, sid)
  BY <1>2 DEF Completing
<1>4. /\ Good(d) /\ ~d.is_pending /\ Tidy(d) /\ d.wire = c.wire /\ d.cseq = c.cseq
      /\ d.keep_alive = c.keep_alive \ {sid} /\ d.owed = {}
      /\ IF q.method = "SETUP" THEN EndsSetup(c, d, sid, FALSE) ELSE Fewer(c, d)
  <2>1. \A status : status = "TIMEOUT" =>
           LET x == Completed(c, resp, status)
           IN  /\ Good(x) /\ ~x.is_pending /\ Tidy(x) /\ x.wire = c.wire
               /\ x.cseq = c.cseq /\ x.keep_alive = c.keep_alive \ {sid} /\ x.owed = {}
               /\ IF q.method = "SETUP" THEN EndsSetup(c, x, sid, status = "OK")
                  ELSE Fewer(c, x)
    BY <1>2, <1>3, CompletedEnds
  <2>2. ("TIMEOUT" = "OK") = FALSE
    OBVIOUS
  <2> QED BY <2>1, <2>2
<1>5. SameConn(c, d)
  BY <1>2, <1>3, CompletedFreed DEF Freed
<1>6. q.method = "TEARDOWN" /\ sid \in c.sessions =>
          (q.media = NoMedia \/ q.media \notin d.medias[sid])
  BY <1>2, <1>3, CompletedIs
<1>7. q.method = "TEARDOWN" /\ q.media = NoMedia /\ sid \in c.sessions =>
          SessionRemoved(c, resp)
  BY <1>2 DEF SessionRemoved, UnknownMedia, TeardownRemoves
<1> HIDE DEF d, sid
<1>8. Good(r) /\ Stays(d, r) /\ sid \notin r.sessions /\ Tidy(r) /\ SameConn(d, r)
  BY <1>4, RemoveStays, RemoveSessionInternal
<1>9. ASSUME sid \in d.sessions
      PROVE  Good(k) /\ SameConn(d, k) /\ Tidy(k) /\ (Stays(d, k) \/ Asks(d, k))
  <2>1. d.keep_alive = {}
    <3>1. c.keep_alive \subseteq SessionIds /\ sid \in SessionIds
      BY <1>4, <1>9 DEF Good, Client
    <3> QED BY <1>4, <3>1 DEF OneSession
  <2> QED BY <1>4, <1>9, <2>1, KeepAliveTimeoutAsks, KeepAliveTimeoutGood DEF Local
<1> HIDE DEF r, k
<1>10. Good(e) /\ SameConn(c, e) /\ Tidy(e)
  BY <1>4, <1>5, <1>8, <1>9 DEF SameConn
<1>11. Ends(c, e, sid, FALSE) \/ Asks(c, e)
  <2>1. CASE q.method = "GET_PARAMETER" /\ sid \in d.sessions
    <3>1. e = k
      BY <2>1
    <3>2. Fewer(c, d)
      BY <1>4, <2>1
    <3>3. CASE Stays(d, k)
      BY <1>4, <2>1, <3>1, <3>2, <3>3 DEF Stays, Fewer, Ends
    <3>4. CASE Asks(d, k)
      <4>1. c.sessions \subseteq SessionIds
        BY DEF Good, Client
      <4> QED BY <1>4, <2>1, <3>1, <3>2, <3>4, <4>1 DEF Fewer, Asks
    <3> QED BY <1>9, <2>1, <3>3, <3>4
  <2>2. CASE ~(q.method = "GET_PARAMETER" /\ sid \in d.sessions)
    <3>1. e = IF SessionRemoved(c, resp) THEN r ELSE d
      BY <2>2
    <3>2. Stays(d, e) /\ (SessionRemoved(c, resp) => sid \notin e.sessions)
      BY <1>8, <3>1 DEF Stays, Fewer
    <3> HIDE DEF e
    <3>3. ~e.is_pending /\ e.wire \subseteq c.wire
      BY <1>4, <3>2 DEF Stays
    <3>4. q.method = "SETUP" => EndsSetup(c, e, sid, FALSE)
      BY <1>4, <3>2 DEF EndsSetup, Stays, Fewer
    <3>5. q.method # "SETUP" => Fewer(c, e)
      BY <1>4, <3>2 DEF Stays, Fewer
    <3>6. q.method = "TEARDOWN" => EndsTeardown(c, e)
      <4> SUFFICES ASSUME q.method = "TEARDOWN", sid # NoSession
                   PROVE  /\ q.media = NoMedia => sid \notin e.sessions
                          /\ q.media # NoMedia => q.media \notin e.medias[sid]
        BY DEF EndsTeardown, sid
      <4>1. sid \in SessionIds
        BY <1>2 DEF SessionOrNone
      <4>2. CASE sid \in c.sessions
        BY <1>6, <1>7, <3>2, <4>1, <4>2 DEF Stays, Fewer
      <4>3. CASE sid \notin c.sessions
        <5>1. c.medias[sid] = {}
          BY <4>1, <4>3 DEF Tidy
        <5> QED BY <3>5, <4>1, <4>3, <5>1 DEF Fewer
      <4> QED BY <4>2, <4>3
    <3> QED BY <3>3, <3>4, <3>5, <3>6 DEF Ends
  <2> QED BY <2>1, <2>2
<1> HIDE DEF e
<1>12. /\ f.sessions = e.sessions /\ f.medias = e.medias /\ f.wire = e.wire
       /\ f.is_pending = e.is_pending /\ f.request = e.request /\ f.owed = e.owed
       /\ f.keep_alive = e.keep_alive /\ f.tskt = e.tskt
  BY <1>10 DEF Good, Client
<1>13. Good(f)
  <2>1. e \in Client /\ e.failed_requests + 1 \in Nat
    BY <1>10 DEF Good, Client
  <2>2. f \in Client
    BY <2>1 DEF Client
  <2>3. Same(e, f)
    BY <1>10 DEF Good, Client, Same
  <2> HIDE DEF f
  <2> QED BY <1>10, <2>2, <2>3, SameGood
<1> HIDE DEF f
<1>14. Tidy(f) /\ (Ends(c, f, sid, FALSE) \/ Asks(c, f))
  BY <1>10, <1>11, <1>12 DEF Tidy, Ends, EndsSetup, EndsTeardown, Asks, Fewer
<1>15. ~i.sock
  <2>1. f.tskt = "connected"
    BY <1>10, <1>12 DEF Connection, SameConn
  <2>2. Good(g) /\ ~g.sock
    BY <1>13, <2>1, TsktClientStopGood
  <2> HIDE DEF g
  <2>3. "CONNECTING" \in States
    BY DEF States
  <2>4. Good(h) /\ ~h.sock
    BY <2>2, <2>3, SetState
  <2> HIDE DEF h
  <2> QED BY <2>4 DEF Good, Client
<1> HIDE DEF i
<1> QED BY <1>1, <1>14, <1>15 DEF sid

(***************************************************************************)
(* Medias: the actions                                                     *)
(***************************************************************************)

\* A request that is accepted owes its callback.
LEMMA AcceptedAsks ==
    ASSUME NEW c, Good(c), Tidy(c), NEW d, Good(d), Asks(c, d), d.cseq = c.cseq + 1,
           d.sessions = c.sessions, d.medias = c.medias
    PROVE  LET a == Accepted(c, d) IN Asks(c, a) /\ Tidy(a)
<1> DEFINE a == [d EXCEPT !.owed = @ \cup {c.cseq}]
<1>1. Accepted(c, d) = a
  BY CseqTypes DEF Accepted
<1>2. /\ a.request = d.request /\ a.is_pending = d.is_pending /\ a.wire = d.wire
      /\ a.sessions = d.sessions /\ a.medias = d.medias /\ a.owed # {}
  BY DEF Good, Client
<1> HIDE DEF a
<1>3. Asks(c, a) /\ Tidy(a)
  BY <1>2 DEF Asks, Fewer, Tidy
<1> QED BY <1>1, <1>3

\* The application calls once it is owed nothing: what it may overtake is a
\* keep-alive.
LEMMA OvertakesKeepAlive ==
    ASSUME NEW c, Tidy(c), c.owed = {}, NEW m, CanRequest(c, m)
    PROVE  c.is_pending => c.request.method = "GET_PARAMETER"
BY DEF Tidy, CanRequest, CanSend

\* rtsp_client_setup()
LEMMA SetupAsks ==
    ASSUME IInv, Tidy(client), client.owed = {}, NEW s \in client.sessions \cup {NoSession},
           NEW md \in Medias, Setup(s, md, "OK", FALSE)
    PROVE  Asks(client, client') /\ Tidy(client')
<1> DEFINE d == SendRequest(client, "SETUP", s, md, "OK", FALSE)
           Fine(x) == /\ Asks(client, x) /\ x.sessions = client.sessions
                      /\ x.medias = client.medias /\ x.cseq = client.cseq + 1
<1>1. Good(client)
  BY DEF IInv
<1>2. /\ "SETUP" \in Methods /\ "SETUP" # "TEARDOWN" /\ md \in MediaOrNone
      /\ s \in SessionOrNone /\ FALSE \in BOOLEAN
  BY <1>1 DEF Methods, SessionMethods, MediaOrNone, SessionOrNone, Good, Client
<1>3. CanRequest(client, "SETUP") /\ client' = Accepted(client, d)
  BY DEF Setup, Becomes, rtsp_client_setup, ForSession
<1>4. client.is_pending => client.request.method = "GET_PARAMETER"
  BY <1>3, OvertakesKeepAlive
<1>5. \A timed \in BOOLEAN :
          /\ Good(SendRequest(client, "SETUP", s, md, "OK", timed))
          /\ Fine(SendRequest(client, "SETUP", s, md, "OK", timed))
  BY <1>1, <1>2, <1>4, SendRequestGood, SendRequestAsks DEF Sent
<1> HIDE DEF Fine
<1>6. Good(d) /\ Fine(d)
  BY <1>2, <1>5, Zenon
<1> HIDE DEF d
<1> QED BY <1>1, <1>3, <1>6, AcceptedAsks DEF Fine

\* rtsp_client_play()
LEMMA PlayAsks ==
    ASSUME IInv, Tidy(client), client.owed = {}, NEW s \in client.sessions,
           Play(s, "OK", FALSE)
    PROVE  Asks(client, client') /\ Tidy(client')
<1> DEFINE d == SendRequest(client, "PLAY", s, NoMedia, "OK", FALSE)
           Fine(x) == /\ Asks(client, x) /\ x.sessions = client.sessions
                      /\ x.medias = client.medias /\ x.cseq = client.cseq + 1
<1>1. Good(client)
  BY DEF IInv
<1>2. /\ "PLAY" \in Methods /\ "PLAY" \notin {"TEARDOWN", "SETUP"}
      /\ NoMedia \in MediaOrNone /\ s \in SessionOrNone /\ FALSE \in BOOLEAN
      /\ s \in client.sessions \cup {NoSession}
  BY <1>1 DEF Methods, SessionMethods, MediaOrNone, SessionOrNone, Good, Client
<1>3. CanRequest(client, "PLAY") /\ client' = Accepted(client, d)
  BY DEF Play, Becomes, rtsp_client_play, ForSession
<1>4. client.is_pending => client.request.method = "GET_PARAMETER"
  BY <1>3, OvertakesKeepAlive
<1>5. \A timed \in BOOLEAN :
          /\ Good(SendRequest(client, "PLAY", s, NoMedia, "OK", timed))
          /\ Fine(SendRequest(client, "PLAY", s, NoMedia, "OK", timed))
  BY <1>1, <1>2, <1>4, SendRequestGood, SendRequestAsks DEF Sent
<1> HIDE DEF Fine
<1>6. Good(d) /\ Fine(d)
  BY <1>2, <1>5, Zenon
<1> HIDE DEF d
<1> QED BY <1>1, <1>3, <1>6, AcceptedAsks DEF Fine

\* rtsp_client_teardown()
LEMMA TeardownAsks ==
    ASSUME IInv, Tidy(client), client.owed = {}, NEW s \in client.sessions,
           NEW md \in client.medias[s] \cup {NoMedia}, Teardown(s, md, "OK", FALSE)
    PROVE  Asks(client, client') /\ Tidy(client')
<1> DEFINE d == send_teardown(client, md, s, "OK", FALSE, FALSE)
           Fine(x) == /\ Good(x) /\ Asks(client, x) /\ x.sessions = client.sessions
                      /\ x.medias = client.medias /\ x.cseq = client.cseq + 1
<1>1. Good(client)
  BY DEF IInv
<1>2. md \in MediaOrNone /\ s \in SessionIds
  BY <1>1 DEF MediaOrNone, Good, Client
<1>3. CanRequest(client, "TEARDOWN") /\ client' = Accepted(client, d)
  BY DEF Teardown, Becomes
<1>4. client.is_pending => client.request.method = "GET_PARAMETER"
  BY <1>3, OvertakesKeepAlive
<1>5. \A timed, internal \in BOOLEAN :
          Fine(send_teardown(client, md, s, "OK", timed, internal))
  BY <1>1, <1>2, <1>3, <1>4, SendTeardownGood, SendTeardownAsks
<1> HIDE DEF Fine
<1>6. Fine(d)
  BY <1>5, Zenon
<1> HIDE DEF d
<1> QED BY <1>1, <1>3, <1>6, AcceptedAsks DEF Fine

\* rtsp_client_cancel(): a SETUP brings nothing.
LEMMA CancelEnds ==
    ASSUME IInv, Tidy(client), Cancel
    PROVE  Ends(client, client', client.request.session, FALSE) /\ Tidy(client')
<1>1. Good(client) /\ client.is_pending
  BY DEF IInv, Cancel
<1>2. client' = request_complete(client, Dummy(client), "CANCELED")
  BY DEF Cancel, Becomes
<1>3. /\ Dummy(client) \in Response /\ Dummy(client).session = client.request.session
      /\ SessionOf(client.request, Dummy(client)) = client.request.session
  BY <1>1, DummyResponse DEF SessionOf
<1>4. \A status : LET d == request_complete(client, Dummy(client), status)
                  IN  Tidy(d) /\ Ends(client, d, client.request.session,
                                      status = "OK" /\ Dummy(client).code = "2xx")
  BY <1>1, <1>3, RequestCompleteEnds
<1>5. ("CANCELED" = "OK" /\ Dummy(client).code = "2xx") = FALSE
  OBVIOUS
<1> QED BY <1>2, <1>4, <1>5

\* A keep-alive, unless it must wait.
LEMMA KeepAliveTimerAsks ==
    ASSUME IInv, Tidy(client), NEW s \in SessionIds, KeepAliveTimer(s, "OK")
    PROVE  Tidy(client') /\ (Stays(client, client') \/ Asks(client, client'))
<1> DEFINE x == [client EXCEPT !.timer = @ \ {s}]
<1>1. client' = send_keep_alive(x, s, "OK")
  BY DEF KeepAliveTimer, Becomes
<1>2. Good(client) /\ s \in client.sessions
  BY DEF IInv, KeepAliveTimer, Good, Flags
<1>3. x \in Client /\ Same(client, x) /\ x.medias = client.medias
      /\ x.keep_alive = client.keep_alive
  BY <1>2 DEF Good, Client, Same
<1> HIDE DEF x
<1>4. /\ Good(x) /\ Tidy(x) /\ Stays(client, x) /\ s \in x.sessions
      /\ x.cseq = client.cseq
  BY <1>2, <1>3, SameGood DEF Same, Tidy, Stays, Fewer
<1> QED BY <1>1, <1>2, <1>4, SendKeepAliveAsks, StaysTrans

\* A timeout ends the request, or the client gives up the session.
LEMMA ResponseTimeoutEnds ==
    ASSUME OneSession, IInv, Tidy(client), NEW connect_ok \in BOOLEAN,
           ResponseTimeout("OK", connect_ok), client'.sock
    PROVE  /\ Tidy(client')
           /\ \/ Ends(client, client', client.request.session, FALSE)
              \/ Asks(client, client')
<1> DEFINE x == [client EXCEPT !.req_timer = FALSE]
<1>1. client' = request_timeout(x, "OK", connect_ok)
  BY DEF ResponseTimeout, Becomes
<1>2. Good(client) /\ Connection(client) /\ client.is_pending
  BY DEF IInv, ResponseTimeout, Good, Slot
<1>3. /\ x \in Client /\ Same(client, x) /\ x.medias = client.medias
      /\ x.keep_alive = client.keep_alive /\ SameConn(client, x)
  BY <1>2 DEF Good, Client, Same, SameConn
<1> HIDE DEF x
<1>4. /\ Good(x) /\ Connection(x) /\ Tidy(x) /\ Stays(client, x) /\ x.is_pending
      /\ x.cseq = client.cseq
  BY <1>2, <1>3, SameGood DEF Same, Tidy, Stays, Fewer, Connection, SameConn
<1>5. /\ Tidy(client')
      /\ Ends(x, client', x.request.session, FALSE) \/ Asks(x, client')
  BY <1>1, <1>4, RequestTimeoutEnds
<1>6. Asks(x, client') => Asks(client, client')
  BY <1>2, <1>4, StaysTrans
<1>7. Ends(x, client', x.request.session, FALSE) =>
          Ends(client, client', client.request.session, FALSE)
  BY <1>4 DEF Ends, EndsSetup, EndsTeardown, Stays, Fewer
<1> QED BY <1>5, <1>6, <1>7

\* A TEARDOWN of the server's takes what it names.
LEMMA ServerTeardownStays ==
    ASSUME IInv, Tidy(client), NEW s, NEW md, ServerTeardown(s, md)
    PROVE  Stays(client, client') /\ Tidy(client')
<1> DEFINE f == [client.medias EXCEPT ![s] = @ \ {md}]
           x == [client EXCEPT !.medias = f]
           y == remove_session_internal(client, s)
<1>1. Good(client)
  BY DEF IInv
<1>2. client' = x \/ client' = y
  BY DEF ServerTeardown, Becomes
<1>3. Stays(client, y) /\ Tidy(y)
  BY <1>1, RemoveStays
<1>4. \A t \in SessionIds : f[t] \subseteq client.medias[t]
  BY <1>1 DEF Good, Client
<1> HIDE DEF f
<1>5. Stays(client, x) /\ x.sessions = client.sessions /\ x.medias = f
  BY <1>1, <1>4 DEF Good, Client, Stays, Fewer
<1> HIDE DEF x, y
<1>6. Tidy(x)
  BY <1>5, StaysTidy
<1> QED BY <1>2, <1>3, <1>5, <1>6

\* set_connection_state() only changes the state.
LEMMA SetStateStays ==
    ASSUME NEW c \in Client, NEW st \in States
    PROVE  LET d == set_connection_state(c, st)
           IN  /\ d \in Client /\ Stays(c, d) /\ d.sessions = c.sessions
               /\ d.medias = c.medias /\ d.conn_state = st
<1> DEFINE e == [c EXCEPT !.conn_state = st, !.notified = st]
<1>1. set_connection_state(c, st) = IF c.conn_state = st THEN c ELSE e
  BY DEF set_connection_state
<1>2. /\ e \in Client /\ Stays(c, e) /\ e.sessions = c.sessions
      /\ e.medias = c.medias /\ e.conn_state = st
  BY DEF Client, Stays, Fewer
<1>3. Stays(c, c)
  BY DEF Stays, Fewer
<1> HIDE DEF e
<1> QED BY <1>1, <1>2, <1>3

\* Connecting leaves the sessions alone.
LEMMA ConnectStays ==
    ASSUME IInv, Tidy(client), Connect("OK")
    PROVE  /\ Stays(client, client') /\ Tidy(client')
           /\ client'.conn_state # "CONNECTED"
<1> DEFINE x == set_connection_state(client, "CONNECTING")
           y == [x EXCEPT !.remote = TRUE, !.resolv_timer = TRUE, !.lookups = @ + 1]
<1>1. client' = y
  BY DEF Connect, Becomes
<1>2. Good(client)
  BY DEF IInv
<1>3. /\ x \in Client /\ Stays(client, x) /\ x.sessions = client.sessions
      /\ x.conn_state = "CONNECTING"
  BY <1>2, SetStateStays DEF Good, States
<1> HIDE DEF x
<1>4. /\ Stays(client, y) /\ y.sessions = client.sessions /\ y.conn_state = "CONNECTING"
  BY <1>3 DEF Client, Stays, Fewer
<1> HIDE DEF y
<1> QED BY <1>1, <1>4, StaysTidy

\* So does the end of the lookup.
LEMMA ResolvDoneStays ==
    ASSUME IInv, Tidy(client), NEW ok \in BOOLEAN, ResolvDone(ok)
    PROVE  /\ Stays(client, client') /\ Tidy(client')
           /\ client'.conn_state = "CONNECTED" => client.conn_state = "CONNECTED"
<1> DEFINE x == [client EXCEPT !.lookups = @ - 1, !.resolv_timer = FALSE]
           y == [x EXCEPT !.tskt = "connecting"]
           z == set_connection_state(x, "DISCONNECTED")
<1>1. client' = IF ok THEN y ELSE z
  BY DEF ResolvDone, Becomes
<1>2. Good(client)
  BY DEF IInv
<1>3. /\ Stays(client, y) /\ y.sessions = client.sessions
      /\ y.conn_state = client.conn_state
  BY <1>2 DEF Good, Client, Stays, Fewer
<1>4. /\ Stays(client, z) /\ z.sessions = client.sessions
      /\ z.conn_state = "DISCONNECTED"
  BY <1>2 DEF Good, Client, Stays, Fewer, set_connection_state
<1> HIDE DEF y, z
<1> QED BY <1>1, <1>3, <1>4, StaysTidy

\* rtsp_client_disconnect() leaves nothing.
LEMMA DisconnectDrops ==
    ASSUME NEW c, Good(c), Connection(c), Tidy(c)
    PROVE  Drops(rtsp_client_disconnect(c))
<1> DEFINE x == set_connection_state(c, "DISCONNECTING")
           d == tskt_client_stop(x)
           y == [d EXCEPT !.remote = FALSE]
           a == abort_request(y)
           z == set_connection_state(a, "DISCONNECTED")
           e == IF c.conn_state = "CONNECTING" THEN z ELSE d
           f == remove_all_sessions(e)
           g == rtsp_client_disconnect(c)
<1>1. Good(g) /\ Connection(g)
  BY DisconnectGood
<1>2. CASE c.conn_state \in {"DISCONNECTED", "DISCONNECTING", "DESTROYED"}
  <2>1. g = c
    BY <1>2 DEF rtsp_client_disconnect
  <2> QED BY <1>2, <2>1 DEF Drops, Connection, Tidy
<1>3. CASE c.conn_state \notin {"DISCONNECTED", "DISCONNECTING", "DESTROYED"}
  <2>1. g = f
    BY <1>3 DEF rtsp_client_disconnect
  <2>2. "DISCONNECTING" \in States /\ "DISCONNECTED" \in States
    BY DEF States
  <2>3. Good(x) /\ x.conn_state = "DISCONNECTING" /\ x.tskt = c.tskt
    BY <2>2, SetState
  <2> HIDE DEF x
  <2>4. Good(d) /\ (c.tskt = "connected" => d.conn_state = "DISCONNECTED")
    BY <2>3, TsktClientStopGood
  <2> HIDE DEF d
  <2>5. Good(y)
    <3>1. y \in Client
      BY <2>4 DEF Good, Client
    <3>2. Same(d, y)
      BY <2>4 DEF Good, Client, Same
    <3> HIDE DEF y
    <3> QED BY <2>4, <3>1, <3>2, SameGood
  <2> HIDE DEF y
  <2>6. Good(a)
    BY <2>5, AbortRequestGood
  <2> HIDE DEF a
  <2>7. Good(z) /\ z.conn_state = "DISCONNECTED"
    BY <2>2, <2>6, SetState
  <2> HIDE DEF z
  <2>8. c.conn_state = "CONNECTED" \/ c.conn_state = "CONNECTING"
    BY <1>3 DEF Good, Client, States
  <2>9. Good(e) /\ e.conn_state = "DISCONNECTED"
    BY <2>4, <2>7, <2>8 DEF Connection
  <2> HIDE DEF e
  <2>10. /\ f.sessions = {} /\ f.conn_state = e.conn_state
         /\ \A s \in SessionIds : f.medias[s] = {}
    BY <2>9 DEF remove_all_sessions, Good, Client
  <2> HIDE DEF f, g
  <2> QED BY <1>1, <2>1, <2>9, <2>10 DEF Drops, Connection, g
<1> QED BY <1>2, <1>3

\* Nothing is tidy.
LEMMA DropsTidy == ASSUME NEW d, Drops(d) PROVE Tidy(d)
BY DEF Drops, Tidy

\* The same from the application.
LEMMA DisconnectEnds ==
    ASSUME IInv, Tidy(client), Disconnect
    PROVE  Drops(client')
BY DisconnectDrops DEF IInv, Disconnect, Becomes

\* The same from the timer of the lookup.
LEMMA ResolvTimeoutDrops ==
    ASSUME IInv, Tidy(client), ResolvTimeout
    PROVE  Drops(client')
<1> DEFINE n == IF client.lookups > 0 THEN client.lookups - 1 ELSE client.lookups
           x == [client EXCEPT !.resolv_timer = FALSE, !.lookups = n]
<1>1. client' = rtsp_client_disconnect(x)
  BY DEF ResolvTimeout, Becomes
<1>2. Good(client) /\ Connection(client)
  BY DEF IInv
<1>3. n \in Nat /\ n <= client.lookups
  BY <1>2 DEF Good, Client
<1> HIDE DEF n
<1>4. /\ x \in Client /\ Same(client, x) /\ x.medias = client.medias
      /\ x.keep_alive = client.keep_alive /\ x.lookups = n
      /\ x.conn_state = client.conn_state /\ x.sock = client.sock
      /\ x.tskt = client.tskt /\ x.remote = client.remote
  BY <1>2, <1>3 DEF Good, Client, Same
<1> HIDE DEF x
<1>5. Good(x) /\ Tidy(x)
  BY <1>2, <1>4, SameGood DEF Same, Tidy
<1>6. Connection(x)
  <2>1. client.lookups \in Nat
    BY <1>2 DEF Good, Client
  <2> QED BY <1>2, <1>3, <1>4, <2>1 DEF Connection, Same
<1> QED BY <1>1, <1>5, <1>6, DisconnectDrops

\* The first connection of a client without sessions sends nothing.
LEMMA FirstConnected ==
    ASSUME IInv, Tidy(client), client.sessions = {},
           NEW failed, NEW first, NEW res, SocketConnected(failed, first, res)
    PROVE  /\ ~client'.is_pending /\ client'.sessions = {}
           /\ \A s \in SessionIds : client'.medias[s] = {}
           /\ client'.wire \subseteq client.wire
<1> DEFINE x == [client EXCEPT !.sock = TRUE, !.tskt = "connected"]
           y == set_connection_state(x, "CONNECTED")
           z == [y EXCEPT !.timer = @ \cup {}]
<1>1. Good(client) /\ ~client.is_pending
  BY DEF IInv, Connection, SocketConnected
<1>2. /\ x \in Client /\ x.sessions = {} /\ x.medias = client.medias /\ ~x.is_pending
      /\ x.wire = client.wire
  BY <1>1 DEF Good, Client
<1> HIDE DEF x
<1>3. /\ y \in Client /\ y.sessions = {} /\ y.medias = client.medias /\ ~y.is_pending
      /\ y.wire \subseteq client.wire
  BY <1>2, SetStateStays DEF Stays, States
<1>4. client' = keep_alive_all(y, failed, first, res)
  BY DEF SocketConnected, Becomes, x
<1> HIDE DEF y
<1>5. keep_alive_all(y, failed, first, res) = z
  BY <1>3 DEF keep_alive_all
<1>6. /\ z.sessions = {} /\ z.medias = client.medias /\ ~z.is_pending
      /\ z.wire \subseteq client.wire
  BY <1>3 DEF Client
<1> QED BY <1>4, <1>5, <1>6 DEF Tidy

(***************************************************************************)
(* Callbacks that are lost                                                 *)
(***************************************************************************)

\* A TEARDOWN in the slot names a media the session does not have.
UnknownTeardown(c) ==
    /\ c.is_pending /\ c.request.method = "TEARDOWN"
    /\ UnknownMedia(c, c.request, c.request.session)

\* From c to d the slot is freed: the application has been called back, unless
\* the request was such a TEARDOWN.
Completes(c, d) ==
    \/ d.forgotten = c.forgotten
    \/ /\ d.forgotten = c.forgotten \cup {c.request.cseq}
       /\ c.request.cseq \in c.owed /\ UnknownTeardown(c) /\ ~d.is_pending

\* From c to d, a client that owes no callback loses none and owes none.
Quiet(c, d) ==
    /\ d.forgotten = c.forgotten
    /\ c.owed = {} => d.owed = {}

\* Nothing is lost twice over.
LEMMA QuietTrans ==
    ASSUME NEW c, NEW d, NEW e, Quiet(c, d), Quiet(d, e) PROVE Quiet(c, e)
BY DEF Quiet

\* Functions that leave the slot alone.
LEMMA SameQuiet ==
    ASSUME NEW c, NEW d
    PROVE  (SameSlot(c, d) => Quiet(c, d)) /\ (Same(c, d) => Quiet(c, d))
BY DEF SameSlot, Same, Quiet

\* A new header forgets the request in the slot, if there is one.
LEMMA SetHeaderForgets ==
    ASSUME NEW c, Good(c), NEW q
    PROVE  LET d == SetHeader(c, q)
           IN  d.forgotten = IF c.is_pending THEN c.forgotten \cup c.owed
                             ELSE c.forgotten
<1> DEFINE x == Forget(c, c.request.cseq)
           y == IF c.is_pending THEN x ELSE c
           d == [y EXCEPT !.request = q]
<1>1. x.forgotten = c.forgotten \cup (c.owed \cap {c.request.cseq}) /\ x \in Client
  BY DEF Forget, Good, Client
<1>2. c.owed \cap {c.request.cseq} = c.owed
  BY DEF Good, Slot
<1> HIDE DEF x
<1>3. y.forgotten = (IF c.is_pending THEN c.forgotten \cup c.owed ELSE c.forgotten)
      /\ y \in Client
  BY <1>1, <1>2 DEF Good
<1> HIDE DEF y
<1>4. d.forgotten = y.forgotten
  BY <1>3 DEF Client
<1>5. SetHeader(c, q) = d
  BY DEF SetHeader, x, y
<1> QED BY <1>3, <1>4, <1>5

\* So does taking the slot.
LEMMA TakeSlotForgets ==
    ASSUME NEW c, Good(c), NEW q \in Request, q.cseq = c.cseq,
           q.method = "SETUP" => q.media \in Medias
    PROVE  LET d == TakeSlot(c, q)
           IN  d.forgotten = IF c.is_pending THEN c.forgotten \cup c.owed
                             ELSE c.forgotten
<1> DEFINE h == SetHeader(c, q)
           d == TakeSlot(c, q)
<1>1. Good(h)
  BY SetHeaderGood
<1>2. d = [h EXCEPT !.is_pending = TRUE, !.cseq = @ + 1]
  BY DEF TakeSlot
<1>3. h.forgotten = IF c.is_pending THEN c.forgotten \cup c.owed ELSE c.forgotten
  BY SetHeaderForgets
<1> HIDE DEF h, d
<1>4. d.forgotten = h.forgotten
  BY <1>1, <1>2 DEF Good, Client
<1> QED BY <1>3, <1>4 DEF d

\* A keep-alive waits for a free slot.
LEMMA SendKeepAliveQuiet ==
    ASSUME NEW c, Good(c), NEW s \in c.sessions, NEW res
    PROVE  Quiet(c, send_keep_alive(c, s, res))
<1> DEFINE d == send_keep_alive(c, s, res)
           q == [method |-> "GET_PARAMETER", cseq |-> c.cseq,
                 session |-> IF res = "EAUTH" THEN NoSession ELSE s,
                 media |-> NoMedia]
           failed == c.failed_keep_alive[s] + 1
           f == [c EXCEPT !.failed_keep_alive[s] = failed]
<1>0. s \in SessionIds /\ c.cseq \in Nat
  BY DEF Good, Client
<1>1. q \in Request /\ q.cseq = c.cseq /\ q.method # "SETUP"
  BY <1>0 DEF Request, Methods, SessionMethods, SessionOrNone, MediaOrNone
<1>2. Quiet(c, c)
  BY DEF Quiet
<1>3. CASE ~Allowed(c, "GET_PARAMETER")
  BY <1>2, <1>3 DEF send_keep_alive
<1>4. CASE Allowed(c, "GET_PARAMETER") /\ c.conn_state # "CONNECTED"
  <2>1. d = IF failed >= MaxFailedKeepAlive THEN remove_session_internal(c, s)
            ELSE RetryLater(f, s)
    BY <1>4 DEF send_keep_alive
  <2>2. SameSlot(c, remove_session_internal(c, s))
    BY RemoveSessionInternal
  <2>3. SameSlot(c, RetryLater(f, s))
    <3> DEFINE g == [c.failed_keep_alive EXCEPT ![s] = failed]
    <3>1. f = [c EXCEPT !.failed_keep_alive = g]
      OBVIOUS
    <3> HIDE DEF g, f
    <3> QED BY <3>1 DEF Good, Client, SameSlot, RetryLater
  <2> HIDE DEF d, f, failed
  <2>4. SameSlot(c, d)
    BY <2>1, <2>2, <2>3
  <2> QED BY <2>4, SameQuiet DEF d
<1>5. CASE Allowed(c, "GET_PARAMETER") /\ c.conn_state = "CONNECTED"
  <2> DEFINE w == TakeSlot(c, q)
             h == SetHeader(c, q)
             e == [w EXCEPT !.keep_alive = @ \cup {s}, !.req_timer = TRUE,
                            !.wire = IF res = "OK" THEN @ \cup {q} ELSE @]
  <2>1. d = IF s \in c.keep_alive THEN c
            ELSE IF c.is_pending THEN RetryLater(c, s)
            ELSE IF res \in {"ERR", "EAUTH"} THEN h
            ELSE e
    BY <1>5 DEF send_keep_alive
  <2>2. Quiet(c, RetryLater(c, s))
    BY RetryLaterGood, SameQuiet
  <2>3. Good(h) /\ h.owed = {} /\ Good(w) /\ w.owed = {}
    BY <1>1, SetHeaderGood, TakeSlotGood DEF Header
  <2>4. ~c.is_pending => h.forgotten = c.forgotten /\ w.forgotten = c.forgotten
    BY <1>1, SetHeaderForgets, TakeSlotForgets
  <2> HIDE DEF w, h, q
  <2>5. e.forgotten = w.forgotten /\ e.owed = w.owed
    BY <2>3 DEF Good, Client
  <2> HIDE DEF d, e
  <2>6. Quiet(c, d)
    BY <1>2, <2>1, <2>2, <2>3, <2>4, <2>5 DEF Quiet
  <2> QED BY <2>6 DEF d
<1> QED BY <1>3, <1>4, <1>5

\* From c to d a request is put into the slot, or none is: one that was there
\* is forgotten.
Overwrites(c, d) ==
    \/ d.forgotten = c.forgotten
    \/ /\ c.is_pending /\ c.owed # {} /\ d.forgotten = c.forgotten \cup c.owed
       /\ d.request.cseq = c.cseq

\* The requests of the application.
LEMMA SendRequestOverwrites ==
    ASSUME NEW c, Good(c), NEW m \in Methods, NEW s \in SessionOrNone,
           NEW md \in MediaOrNone, NEW res, NEW timed \in BOOLEAN,
           m = "SETUP" => md \in Medias
    PROVE  Overwrites(c, SendRequest(c, m, s, md, res, timed))
<1> DEFINE b == clear_pending_keep_alive_timer(c)
           q == [method |-> m, cseq |-> c.cseq,
                 session |-> IF res = "EAUTH" THEN NoSession ELSE s,
                 media |-> md]
           w == TakeSlot(b, q)
           h == SetHeader(b, q)
           e == [w EXCEPT !.req_timer = timed \/ @, !.wire = @ \cup {q}]
           d == SendRequest(c, m, s, md, res, timed)
<1>1. /\ Good(b) /\ b.cseq = c.cseq /\ b.is_pending = c.is_pending
      /\ b.owed = c.owed /\ b.forgotten = c.forgotten
  <2>1. b.forgotten = c.forgotten
    BY DEF clear_pending_keep_alive_timer, Good, Client
  <2> QED BY <2>1, ClearTimerGood
<1>2. q \in Request /\ q.cseq = c.cseq /\ q.method = m /\ q.media = md
  BY DEF Request, SessionOrNone, Good, Client
<1>3. d = IF res # "OK" THEN h ELSE e
  BY DEF SendRequest
<1> HIDE DEF b, q
<1>4. /\ h.request = q
      /\ h.forgotten = IF b.is_pending THEN b.forgotten \cup b.owed ELSE b.forgotten
  <2>1. Header(b, h, q)
    BY <1>1, <1>2, SetHeaderGood
  <2> QED BY <1>1, <2>1, SetHeaderForgets DEF Header
<1>5. /\ Good(w) /\ w.request = q
      /\ w.forgotten = IF b.is_pending THEN b.forgotten \cup b.owed ELSE b.forgotten
  <2>1. Good(w) /\ Header(b, w, q)
    BY <1>1, <1>2, TakeSlotGood
  <2>2. w.forgotten = IF b.is_pending THEN b.forgotten \cup b.owed ELSE b.forgotten
    BY <1>1, <1>2, TakeSlotForgets
  <2> QED BY <2>1, <2>2 DEF Header
<1> HIDE DEF w, h
<1>6. e.request = w.request /\ e.forgotten = w.forgotten
  BY <1>5 DEF Good, Client
<1> HIDE DEF d, e
<1>7. Overwrites(c, d)
  <2>1. d.request = q /\ d.forgotten = IF c.is_pending THEN c.forgotten \cup c.owed
                                       ELSE c.forgotten
    BY <1>1, <1>3, <1>4, <1>5, <1>6
  <2>2. CASE c.is_pending /\ c.owed # {}
    BY <1>2, <2>1, <2>2 DEF Overwrites
  <2>3. CASE ~c.is_pending \/ c.owed = {}
    BY <2>1, <2>3 DEF Overwrites
  <2> QED BY <2>2, <2>3
<1> QED BY <1>7 DEF d

\* The same for TEARDOWN, internal or not.
LEMMA SendTeardownOverwrites ==
    ASSUME NEW c, Good(c), NEW md \in MediaOrNone, NEW s \in SessionIds,
           NEW res, NEW timed \in BOOLEAN, NEW internal \in BOOLEAN
    PROVE  LET d == send_teardown(c, md, s, res, timed, internal)
           IN  Overwrites(c, d) /\ (c.owed = {} => Quiet(c, d))
<1> DEFINE b == clear_pending_keep_alive_timer(c)
           r == SendRequest(c, "TEARDOWN", s, md, res, timed)
           it == IF internal THEN r.internal_teardown \cup {s}
                 ELSE r.internal_teardown \ {s}
           e == [r EXCEPT !.is_internal = internal, !.internal_teardown = it]
           d == send_teardown(c, md, s, res, timed, internal)
<1>1. b.forgotten = c.forgotten /\ b.owed = c.owed
  BY DEF clear_pending_keep_alive_timer, Good, Client
<1>2. Good(r) /\ Overwrites(c, r) /\ r.owed = {}
  <2>1. "TEARDOWN" \in Methods /\ s \in SessionOrNone
    BY DEF Methods, SessionMethods, SessionOrNone
  <2> QED BY <2>1, SendRequestGood, SendRequestOverwrites DEF Sent
<1>3. d = IF ~CanRequest(c, "TEARDOWN") THEN c
          ELSE IF s \notin c.sessions THEN b
          ELSE IF res # "OK" THEN r ELSE e
  BY DEF send_teardown
<1> HIDE DEF b, r, it
<1>4. e.forgotten = r.forgotten /\ e.request = r.request /\ e.owed = r.owed
  BY <1>2 DEF Good, Client
<1> HIDE DEF e, d
<1>5. Overwrites(c, d) /\ (c.owed = {} => d.owed = {})
  BY <1>1, <1>2, <1>3, <1>4 DEF Overwrites
<1>6. c.owed = {} => Quiet(c, d)
  BY <1>5 DEF Overwrites, Quiet
<1> QED BY <1>5, <1>6 DEF d

\* The TEARDOWN of the client's own loses no callback, once none is owed.
LEMMA GiveUpQuiet ==
    ASSUME NEW c, Good(c), NEW s \in SessionIds, NEW res, c.owed = {}
    PROVE  Quiet(c, GiveUp(c, s, res))
<1> DEFINE d == send_teardown(c, NoMedia, s, res, TRUE, TRUE)
           r == remove_session_internal(d, s)
           Fine(x) == Good(x) /\ Quiet(c, x)
<1>1. NoMedia \in MediaOrNone
  BY DEF MediaOrNone
<1>2. \A timed, internal \in BOOLEAN :
          Fine(send_teardown(c, NoMedia, s, res, timed, internal))
  BY <1>1, SendTeardownGood, SendTeardownOverwrites
<1>3. TRUE \in BOOLEAN
  OBVIOUS
<1> HIDE DEF Fine
<1>4. Fine(d)
  BY <1>2, <1>3, Zenon
<1>5. GiveUp(c, s, res) = IF send_teardown_ok(c, s, res) THEN d ELSE r
  BY DEF GiveUp
<1> HIDE DEF d
<1>6. Good(d) /\ Quiet(c, d)
  BY <1>4 DEF Fine
<1>7. SameSlot(d, r)
  BY <1>6, RemoveSessionInternal
<1> HIDE DEF r
<1>8. Quiet(c, r)
  BY <1>6, <1>7, SameQuiet, QuietTrans
<1> QED BY <1>5, <1>6, <1>8

\* Nor does the timeout of a keep-alive.
LEMMA KeepAliveTimeoutQuiet ==
    ASSUME NEW c, Good(c), NEW s \in c.sessions, NEW res, c.owed = {}
    PROVE  Quiet(c, keep_alive_timeout(c, s, res))
<1> DEFINE failed == c.failed_keep_alive[s] + 1
           g == [c.failed_keep_alive EXCEPT ![s] = failed]
           d == [c EXCEPT !.failed_keep_alive = g]
           e == [d EXCEPT !.timer = @ \ {s}]
<1>1. s \in SessionIds /\ failed \in Nat
  BY DEF Good, Client
<1>2. keep_alive_timeout(c, s, res) =
          IF failed < MaxFailedKeepAlive THEN send_keep_alive(d, s, res)
          ELSE GiveUp(e, s, res)
  BY DEF keep_alive_timeout
<1> HIDE DEF failed
<1>3. g \in [SessionIds -> Nat]
  BY <1>1, FunTypes DEF Good
<1> HIDE DEF g
<1>4. d \in Client /\ Same(c, d)
  BY <1>3 DEF Good, Client, Same
<1> HIDE DEF d
<1>5. e \in Client /\ Same(d, e)
  BY <1>4 DEF Client, Same
<1> HIDE DEF e
<1>6. Good(d) /\ Good(e) /\ d.owed = {} /\ e.owed = {} /\ s \in d.sessions
  BY <1>4, <1>5, SameGood DEF Same
<1>7. Quiet(c, d) /\ Quiet(c, e)
  BY <1>4, <1>5, SameQuiet, QuietTrans
<1>8. Quiet(d, send_keep_alive(d, s, res)) /\ Quiet(e, GiveUp(e, s, res))
  BY <1>1, <1>6, SendKeepAliveQuiet, GiveUpQuiet
<1>9. Quiet(c, send_keep_alive(d, s, res)) /\ Quiet(c, GiveUp(e, s, res))
  BY <1>7, <1>8, QuietTrans
<1> QED BY <1>2, <1>9

\* Up to its callback, a request that ends loses nothing.
LEMMA SessionAliveForgets ==
    ASSUME NEW c, Good(c), NEW q, NEW sid \in SessionOrNone
    PROVE  SessionAlive(ClearSlot(c), q, sid).forgotten = c.forgotten
<1> DEFINE x == ClearSlot(c)
           y == IF q.method = "SETUP" /\ sid # NoSession
                THEN get_session_add(x, sid) ELSE x
           k == [y EXCEPT !.keep_alive = @ \ {sid}]
           z == RetryLater(k, sid)
<1>1. x \in Client /\ x.forgotten = c.forgotten
  <2>1. NoRequest \in Request
    BY DEF NoRequest, Request, SessionOrNone, MediaOrNone
  <2> QED BY <2>1 DEF ClearSlot, Good, Client
<1> HIDE DEF x
<1>2. y \in Client /\ y.forgotten = c.forgotten
  BY <1>1 DEF get_session_add, Client, SessionOrNone
<1>3. SessionAlive(x, q, sid) = IF sid \notin y.sessions THEN y ELSE z
  BY DEF SessionAlive
<1> HIDE DEF y
<1>4. z.forgotten = y.forgotten
  BY <1>2 DEF RetryLater, Client
<1> HIDE DEF z
<1> QED BY <1>2, <1>3, <1>4 DEF x

\* teardown_request_complete() forgets its request if it does not know the
\* media.
LEMMA TeardownCompletedForgets ==
    ASSUME NEW d \in Client, NEW q, NEW sid
    PROVE  LET e == teardown_request_complete(d, q, sid)
           IN  \/ e.forgotten = d.forgotten
               \/ /\ UnknownMedia(d, q, sid) /\ q.cseq \in d.owed
                  /\ e.forgotten = d.forgotten \cup {q.cseq}
<1> DEFINE x == Callback(d, q.cseq)
           y == [x EXCEPT !.is_internal = FALSE]
           z == IF sid \in d.internal_teardown THEN d ELSE y
           f == [z.medias EXCEPT ![sid] = @ \ {q.media}]
           w == [z EXCEPT !.medias = f]
           p == Forget(d, q.cseq)
           e == teardown_request_complete(d, q, sid)
<1>1. e = IF sid \notin d.sessions THEN IF d.is_internal THEN d ELSE y
          ELSE IF UnknownMedia(d, q, sid) THEN p ELSE w
  BY DEF teardown_request_complete
<1>2. y.forgotten = d.forgotten /\ DOMAIN y = DOMAIN d
  BY DEF Callback, Client
<1>3. p.forgotten = d.forgotten \cup (d.owed \cap {q.cseq})
  BY DEF Forget, Client
<1> HIDE DEF y, p
<1>4. z.forgotten = d.forgotten /\ DOMAIN z = DOMAIN d
  BY <1>2
<1> HIDE DEF z, f
<1>5. w.forgotten = z.forgotten
  BY <1>4 DEF Client
<1> HIDE DEF w, e
<1>6. CASE sid \in d.sessions /\ UnknownMedia(d, q, sid)
  <2>1. e = p
    BY <1>1, <1>6
  <2>2. CASE q.cseq \in d.owed
    BY <1>3, <1>6, <2>1, <2>2 DEF e
  <2>3. CASE q.cseq \notin d.owed
    <3>1. e.forgotten = d.forgotten
      BY <1>3, <2>1, <2>3
    <3> QED BY <3>1 DEF e
  <2> QED BY <2>2, <2>3
<1>7. CASE sid \notin d.sessions \/ ~UnknownMedia(d, q, sid)
  <2>1. e \in {d, y, w}
    BY <1>1, <1>7
  <2>2. e.forgotten = d.forgotten
    BY <1>2, <1>4, <1>5, <2>1
  <2> QED BY <2>2 DEF e
<1> QED BY <1>6, <1>7

\* The end of any request: only a TEARDOWN of an unknown media is forgotten.
LEMMA CompletedForgets ==
    ASSUME NEW c, NEW resp \in Response, NEW sid, sid = SessionOf(c.request, resp),
           Completing(c, c.request, sid), NEW status
    PROVE  LET e == Completed(c, resp, status)
               q == c.request
           IN  \/ e.forgotten = c.forgotten
               \/ /\ q.method = "TEARDOWN" /\ UnknownMedia(c, q, sid)
                  /\ q.cseq \in c.owed /\ e.forgotten = c.forgotten \cup {q.cseq}
<1> DEFINE q == c.request
           d == SessionAlive(ClearSlot(c), q, sid)
           e == Completed(c, resp, status)
<1>1. Good(c) /\ sid \in SessionOrNone
  BY DEF Completing
<1>2. /\ Freed(c, d) /\ d.medias = c.medias /\ d.owed = c.owed
      /\ d.forgotten = c.forgotten
      /\ q.method # "SETUP" => d.sessions = c.sessions
  BY <1>1, SessionAliveFreed, SessionAliveIs, SessionAliveForgets
<1>3. d \in Client
  BY <1>2 DEF Freed
<1>4. CASE q.method = "TEARDOWN"
  <2>1. e = teardown_request_complete(d, q, sid)
    BY <1>4 DEF Completed, Methods, SessionlessMethods, SessionMethods
  <2> HIDE DEF d, e
  <2>2. \/ e.forgotten = d.forgotten
        \/ /\ UnknownMedia(d, q, sid) /\ q.cseq \in d.owed
           /\ e.forgotten = d.forgotten \cup {q.cseq}
    BY <1>3, <2>1, TeardownCompletedForgets
  <2>3. UnknownMedia(d, q, sid) => UnknownMedia(c, q, sid)
    BY <1>2, <1>4 DEF UnknownMedia
  <2> QED BY <1>2, <1>4, <2>2, <2>3 DEF e
<1>5. CASE q.method # "TEARDOWN"
  <2> DEFINE o == [d EXCEPT !.methods_allowed = resp.public]
             n == [d.failed_keep_alive EXCEPT ![sid] = 0]
             k == [d EXCEPT !.failed_keep_alive = n]
             x == Callback(d, q.cseq)
             ms == [x.medias EXCEPT ![sid] = @ \cup {q.media}]
             y == [x EXCEPT !.medias = ms]
             v == Callback(o, q.cseq)
  <2>1. e \in {v, x, y, k, d}
    BY <1>5 DEF Completed, setup_request_complete, Methods, SessionlessMethods,
                SessionMethods
  <2> HIDE DEF d, n
  <2>2. v.forgotten = d.forgotten /\ k.forgotten = d.forgotten
    BY <1>3 DEF Callback, Client
  <2>3. x.forgotten = d.forgotten /\ DOMAIN x = DOMAIN d
    BY <1>3 DEF Callback, Client
  <2> HIDE DEF x, v, k, ms
  <2>4. y.forgotten = d.forgotten
    BY <1>3, <2>3 DEF Client
  <2> HIDE DEF e, y
  <2>5. e.forgotten = c.forgotten
    BY <1>2, <2>1, <2>2, <2>3, <2>4
  <2> QED BY <2>5 DEF e
<1> QED BY <1>4, <1>5

\* request_complete() calls back, but for such a TEARDOWN.
LEMMA RequestCompleteCompletes ==
    ASSUME NEW c, Good(c), NEW resp \in Response, NEW status,
           c.request.session # NoSession =>
               resp.session \in {c.request.session, NoSession}
    PROVE  Completes(c, request_complete(c, resp, status))
<1> DEFINE q == c.request
           sid == SessionOf(q, resp)
           final == IF status = "OK" /\ resp.code # "2xx" THEN "FAILED"
                    ELSE status
           d == Completed(c, resp, final)
           e == IF SessionRemoved(c, resp)
                THEN remove_session_internal(d, sid) ELSE d
           f == [e EXCEPT !.failed_requests = 0]
<1>1. CASE ~c.is_pending
  BY <1>1 DEF request_complete, Completes
<1>2. CASE c.is_pending
  <2>1. request_complete(c, resp, status) = f
    BY <1>2 DEF request_complete
  <2>2. Completing(c, q, sid)
    BY DEF Completing, SessionOf, Good, Client, Request, Response
  <2>3. Freed(c, d) /\ d.owed = {}
    BY <2>2, CompletedFreed
  <2>4. \/ d.forgotten = c.forgotten
        \/ /\ q.method = "TEARDOWN" /\ UnknownMedia(c, q, sid)
           /\ q.cseq \in c.owed /\ d.forgotten = c.forgotten \cup {q.cseq}
    BY <2>2, CompletedForgets
  <2>5. q.method = "TEARDOWN" /\ q.cseq \in c.owed => sid = q.session
    <3>1. q.method = "TEARDOWN" /\ q.cseq \in c.owed => q.session # NoSession
      BY ClientAssumption DEF Good, Slot
    <3> QED BY <3>1 DEF SessionOf
  <2> HIDE DEF d, sid
  <2>6. Good(d)
    BY <2>3, FreedGood
  <2>7. SameSlot(d, remove_session_internal(d, sid)) /\ Good(remove_session_internal(d, sid))
    BY <2>6, RemoveSessionInternal
  <2>8. Good(e) /\ e.forgotten = d.forgotten /\ ~e.is_pending
    BY <2>3, <2>6, <2>7 DEF SameSlot, Freed
  <2> HIDE DEF e
  <2>9. f.forgotten = e.forgotten /\ f.is_pending = e.is_pending
    BY <2>8 DEF Good, Client
  <2> HIDE DEF f
  <2> QED BY <1>2, <2>1, <2>4, <2>5, <2>8, <2>9 DEF Completes, UnknownTeardown
<1> QED BY <1>1, <1>2

\* Aborting a request calls back as well.
LEMMA AbortRequestCompletes ==
    ASSUME NEW c, Good(c) PROVE Completes(c, abort_request(c))
BY DummyResponse, RequestCompleteCompletes DEF abort_request

\* What comes before the end of the request, and after it.
LEMMA CompletesTrans ==
    ASSUME NEW c, NEW d, NEW e, Completes(d, e)
    PROVE  /\ Same(c, d) /\ d.medias = c.medias => Completes(c, e)
           /\ SameSlot(c, d) /\ d.sessions = c.sessions /\ d.medias = c.medias
                 => Completes(c, e)
BY DEF Completes, Same, SameSlot, UnknownTeardown, UnknownMedia

\* What comes after it.
LEMMA CompletesThen ==
    ASSUME NEW c, NEW d, NEW e, Completes(c, d),
           e.forgotten = d.forgotten, ~d.is_pending => ~e.is_pending
    PROVE  Completes(c, e)
BY DEF Completes

\* The DISCONNECTED event calls back for the request in the slot.
LEMMA EventDisconnectedCompletes ==
    ASSUME NEW c, Good(c)
    PROVE  LET d == event_disconnected(c)
           IN  Completes(c, d) /\ (~c.is_pending => ~d.is_pending)
<1> DEFINE x == [c EXCEPT !.sock = FALSE, !.wire = {}]
           y == [x EXCEPT !.remote = FALSE]
           d == event_disconnected(c)
<1>1. x \in Client /\ Same(c, x) /\ x.medias = c.medias
  BY DEF Good, Client, Same
<1> HIDE DEF x
<1>2. y \in Client /\ Same(c, y) /\ y.medias = c.medias
  BY <1>1 DEF Client, Same
<1> HIDE DEF y
<1>3. ASSUME NEW z \in Client, Same(c, z), z.medias = c.medias, NEW st \in States
      PROVE  LET e == set_connection_state(abort_request(z), st)
             IN  Completes(c, e) /\ ~e.is_pending
  <2> DEFINE a == abort_request(z)
             e == set_connection_state(a, st)
  <2>1. Good(z)
    BY <1>3, SameGood
  <2>2. Good(a) /\ ~a.is_pending /\ Completes(z, a)
    BY <2>1, AbortRequestGood, AbortRequestCompletes
  <2> HIDE DEF a
  <2>3. SameSlot(a, e)
    BY <1>3, <2>2, SetState
  <2>4. Completes(c, a)
    BY <1>3, <2>2, CompletesTrans
  <2> HIDE DEF e
  <2>5. Completes(c, e) /\ ~e.is_pending
    BY <2>2, <2>3, <2>4, CompletesThen DEF SameSlot
  <2> QED BY <2>5 DEF e, a
<1>4. "DISCONNECTED" \in States /\ "CONNECTING" \in States
  BY DEF States
<1>5. CASE c.conn_state = "DISCONNECTING"
  <2>1. d = set_connection_state(abort_request(y), "DISCONNECTED")
    BY <1>5 DEF event_disconnected, x, y
  <2> QED BY <1>2, <1>3, <1>4, <2>1
<1>6. CASE c.conn_state = "CONNECTED"
  <2>1. d = set_connection_state(abort_request(x), "CONNECTING")
    BY <1>6 DEF event_disconnected, x
  <2> QED BY <1>1, <1>3, <1>4, <2>1
<1>7. CASE c.conn_state \notin {"CONNECTED", "DISCONNECTING"}
  <2>1. d = x
    BY <1>7 DEF event_disconnected, x
  <2> QED BY <1>1, <2>1 DEF Same, Completes
<1> QED BY <1>5, <1>6, <1>7

\* So does stopping the transport.
LEMMA TsktClientStopCompletes ==
    ASSUME NEW c, Good(c)
    PROVE  LET d == tskt_client_stop(c)
           IN  Completes(c, d) /\ (~c.is_pending => ~d.is_pending)
<1> DEFINE x == [c EXCEPT !.tskt = "stopped"]
           v == event_disconnected(x)
<1>1. x \in Client /\ Same(c, x) /\ x.medias = c.medias
  BY DEF Good, Client, Same
<1>2. tskt_client_stop(c) = IF c.tskt = "connected" THEN v ELSE x
  BY DEF tskt_client_stop
<1> HIDE DEF x
<1>3. Good(x)
  BY <1>1, SameGood
<1>4. Completes(x, v) /\ (~x.is_pending => ~v.is_pending)
  BY <1>3, EventDisconnectedCompletes
<1> HIDE DEF v
<1>5. Completes(c, v) /\ (~c.is_pending => ~v.is_pending)
  BY <1>1, <1>4, CompletesTrans DEF Same
<1>6. Completes(c, x) /\ (~c.is_pending => ~x.is_pending)
  BY <1>1 DEF Same, Completes
<1> QED BY <1>2, <1>5, <1>6

\* A client that owes no callback loses none.
LEMMA IdleCompletes ==
    ASSUME NEW c, NEW d, Completes(c, d), ~c.is_pending \/ c.owed = {}
    PROVE  d.forgotten = c.forgotten
BY DEF Completes, UnknownTeardown

\* The timeout of a request, with what follows it.
LEMMA RequestTimeoutCompletes ==
    ASSUME NEW c, Good(c), NEW res, NEW connect_ok \in BOOLEAN
    PROVE  Completes(c, request_timeout(c, res, connect_ok))
<1> DEFINE q == c.request
           resp == Dummy(c)
           sid == q.session
           d == Completed(c, resp, "TIMEOUT")
           r == remove_session_internal(d, sid)
           k == keep_alive_timeout(d, sid, res)
           e == IF q.method = "GET_PARAMETER" /\ sid \in d.sessions
                THEN k ELSE IF SessionRemoved(c, resp) THEN r ELSE d
           f == [e EXCEPT !.failed_requests = @ + 1]
           g == tskt_client_stop(f)
           h == set_connection_state(g, "CONNECTING")
           i == [h EXCEPT !.tskt = IF connect_ok THEN "connecting" ELSE @]
<1>1. CASE ~c.is_pending
  BY <1>1 DEF request_timeout, Completes
<1>2. CASE c.is_pending
  <2>1. request_timeout(c, res, connect_ok) =
            IF f.failed_requests < MaxFailedRequests THEN f ELSE i
    BY <1>2 DEF request_timeout
  <2>2. /\ Good(d) /\ d.owed = {} /\ ~d.is_pending
        /\ Completes(c, d) /\ (q.method = "GET_PARAMETER" => d.forgotten = c.forgotten)
    <3>1. resp \in Response /\ SessionOf(q, resp) = sid /\ sid \in SessionOrNone
      BY DummyResponse DEF SessionOf, Good, Client, Request
    <3>2. Completing(c, q, sid)
      BY <3>1 DEF Completing
    <3>3. Freed(c, d) /\ d.owed = {}
      BY <3>1, <3>2, CompletedFreed
    <3>4. \/ d.forgotten = c.forgotten
          \/ /\ q.method = "TEARDOWN" /\ UnknownMedia(c, q, sid)
             /\ q.cseq \in c.owed /\ d.forgotten = c.forgotten \cup {q.cseq}
      BY <3>1, <3>2, CompletedForgets
    <3> HIDE DEF d
    <3>5. Good(d) /\ ~d.is_pending
      BY <3>3, FreedGood DEF Freed
    <3> QED BY <1>2, <3>3, <3>4, <3>5 DEF Completes, UnknownTeardown
  <2> HIDE DEF d
  <2>3. /\ Good(e)
        /\ \/ Completes(c, e) /\ ~e.is_pending
           \/ e.forgotten = c.forgotten /\ c.owed = {} /\ e.owed = {}
    <3>1. CASE q.method = "GET_PARAMETER" /\ sid \in d.sessions
      <4>1. Good(k) /\ Quiet(d, k)
        BY <2>2, <3>1, KeepAliveTimeoutGood, KeepAliveTimeoutQuiet DEF Local
      <4>2. c.owed = {}
        BY <3>1 DEF Good, Slot
      <4> HIDE DEF k
      <4>3. k.forgotten = c.forgotten /\ k.owed = {}
        BY <2>2, <3>1, <4>1 DEF Quiet
      <4> QED BY <3>1, <4>1, <4>2, <4>3
    <3>2. CASE ~(q.method = "GET_PARAMETER" /\ sid \in d.sessions)
      <4>1. Good(r) /\ SameSlot(d, r)
        BY <2>2, RemoveSessionInternal
      <4> HIDE DEF r
      <4>2. Completes(c, r) /\ ~r.is_pending
        BY <2>2, <4>1, CompletesThen DEF SameSlot
      <4> QED BY <2>2, <3>2, <4>1, <4>2
    <3> QED BY <3>1, <3>2
  <2> HIDE DEF e
  <2>4. f \in Client /\ Same(e, f)
    <3>1. e \in Client /\ e.failed_requests + 1 \in Nat
      BY <2>3 DEF Good, Client
    <3> QED BY <3>1 DEF Client, Same
  <2> HIDE DEF f
  <2>5. Good(f)
    BY <2>3, <2>4, SameGood
  <2>6. Completes(f, g) /\ (~f.is_pending => ~g.is_pending) /\ Good(g)
    BY <2>5, TsktClientStopCompletes, TsktClientStopGood
  <2> HIDE DEF g
  <2>7. Good(h) /\ SameSlot(g, h)
    <3>1. "CONNECTING" \in States
      BY DEF States
    <3> QED BY <2>6, <3>1, SetState
  <2> HIDE DEF h
  <2>8. i.forgotten = h.forgotten /\ i.is_pending = h.is_pending
    BY <2>7 DEF Good, Client
  <2> HIDE DEF i
  <2>9. i.forgotten = g.forgotten /\ i.is_pending = g.is_pending
    BY <2>7, <2>8 DEF SameSlot
  <2>10. CASE Completes(c, e) /\ ~e.is_pending
    <3>1. Completes(c, f) /\ ~f.is_pending
      BY <2>4, <2>10, CompletesThen DEF Same
    <3>2. g.forgotten = f.forgotten /\ ~g.is_pending
      BY <2>6, <3>1, IdleCompletes
    <3>3. Completes(c, i)
      BY <2>9, <3>1, <3>2, CompletesThen
    <3> QED BY <2>1, <3>1, <3>3
  <2>11. CASE e.forgotten = c.forgotten /\ c.owed = {} /\ e.owed = {}
    <3>1. f.forgotten = c.forgotten /\ f.owed = {}
      BY <2>4, <2>11 DEF Same
    <3>2. g.forgotten = f.forgotten
      BY <2>6, <3>1, IdleCompletes
    <3> QED BY <2>1, <2>9, <3>1, <3>2 DEF Completes
  <2> QED BY <2>3, <2>10, <2>11
<1> QED BY <1>1, <1>2

\* rtsp_client_disconnect() calls back for the request in the slot.
LEMMA DisconnectCompletes ==
    ASSUME NEW c, Good(c), Connection(c)
    PROVE  Completes(c, rtsp_client_disconnect(c))
<1> DEFINE x == set_connection_state(c, "DISCONNECTING")
           d == tskt_client_stop(x)
           y == [d EXCEPT !.remote = FALSE]
           a == abort_request(y)
           z == set_connection_state(a, "DISCONNECTED")
           e == IF c.conn_state = "CONNECTING" THEN z ELSE d
           f == remove_all_sessions(e)
<1>1. CASE c.conn_state \in {"DISCONNECTED", "DISCONNECTING", "DESTROYED"}
  BY <1>1 DEF rtsp_client_disconnect, Completes
<1>2. CASE c.conn_state \notin {"DISCONNECTED", "DISCONNECTING", "DESTROYED"}
  <2>1. rtsp_client_disconnect(c) = f
    BY <1>2 DEF rtsp_client_disconnect
  <2>2. "DISCONNECTING" \in States /\ "DISCONNECTED" \in States
    BY DEF States
  <2>3. Good(x) /\ SameSlot(c, x) /\ x.sessions = c.sessions
    BY <2>2, SetState
  <2>4. x.medias = c.medias
    BY DEF set_connection_state, Good, Client
  <2> HIDE DEF x
  <2>5. Good(d) /\ Completes(x, d) /\ (~x.is_pending => ~d.is_pending)
    BY <2>3, TsktClientStopGood, TsktClientStopCompletes
  <2>6. Completes(c, d) /\ (~c.is_pending => ~d.is_pending)
    BY <2>3, <2>4, <2>5, CompletesTrans DEF SameSlot
  <2> HIDE DEF d
  <2>7. y \in Client /\ Same(d, y)
    BY <2>5 DEF Good, Client, Same
  <2> HIDE DEF y
  <2>8. Good(y)
    BY <2>5, <2>7, SameGood
  <2>9. Good(a) /\ Completes(y, a) /\ ~a.is_pending
    BY <2>8, AbortRequestGood, AbortRequestCompletes
  <2> HIDE DEF a
  <2>10. Good(z) /\ SameSlot(a, z)
    BY <2>2, <2>9, SetState
  <2> HIDE DEF z
  <2>11. CASE c.conn_state = "CONNECTING"
    <3>1. ~c.is_pending
      BY <2>11 DEF Connection
    <3>2. ~y.is_pending /\ y.forgotten = c.forgotten
      BY <2>6, <2>7, <3>1, IdleCompletes DEF Same
    <3>3. z.forgotten = c.forgotten
      BY <2>9, <2>10, <3>2, IdleCompletes DEF SameSlot
    <3> QED BY <2>10, <2>11, <3>3, <2>1, RemoveAllSessions DEF Completes, SameSlot
  <2>12. CASE c.conn_state # "CONNECTING"
    <3>1. e = d
      BY <2>12
    <3> HIDE DEF e
    <3>2. SameSlot(e, f)
      BY <2>5, <3>1, RemoveAllSessions
    <3> QED BY <2>1, <2>6, <3>1, <3>2, CompletesThen DEF SameSlot
  <2> QED BY <2>11, <2>12
<1> QED BY <1>1, <1>2

\* The keep-alives of the CONNECTED event lose nothing.
LEMMA KeepAliveAllQuiet ==
    ASSUME NEW c, Good(c), NEW failed \in SUBSET c.sessions, NEW first, NEW res,
           first # NoSession => first \in c.sessions,
           first = NoSession => failed = c.sessions \ c.keep_alive
    PROVE  Quiet(c, keep_alive_all(c, failed, first, res))
<1> DEFINE ready == IF Allowed(c, "GET_PARAMETER")
                    THEN c.sessions \ c.keep_alive ELSE {}
           later == IF c.is_pending THEN ready
                    ELSE ready \ (failed \cup {first})
           d == [c EXCEPT !.timer = @ \cup later]
           any == CHOOSE s \in failed : TRUE
<1>1. keep_alive_all(c, failed, first, res) =
          IF c.is_pending \/ ready = {} THEN d
          ELSE IF first # NoSession THEN send_keep_alive(d, first, res)
          ELSE send_keep_alive(d, any, "ERR")
  BY DEF keep_alive_all
<1>2. later \subseteq c.sessions
  OBVIOUS
<1>3. first = NoSession /\ ready # {} => any \in c.sessions
  <2> SUFFICES ASSUME first = NoSession, ready # {} PROVE any \in c.sessions
    OBVIOUS
  <2>1. \E s \in failed : TRUE
    OBVIOUS
  <2> QED BY <2>1
<1> HIDE DEF later, any
<1>4. Good(d) /\ Quiet(c, d) /\ d.sessions = c.sessions
  <2>1. d \in Client
    BY <1>2 DEF Good, Client
  <2>2. SameSlot(c, d) /\ d.sessions = c.sessions /\ Flags(d)
    BY <1>2 DEF Good, Client, SameSlot, Flags
  <2> HIDE DEF d
  <2> QED BY <2>1, <2>2, SlotFrame, SameQuiet DEF Good
<1> HIDE DEF d
<1>5. \A s \in d.sessions : \A r : Quiet(c, send_keep_alive(d, s, r))
  BY <1>4, SendKeepAliveQuiet, QuietTrans
<1> HIDE DEF ready
<1>6. CASE c.is_pending \/ ready = {}
  BY <1>1, <1>4, <1>6
<1>7. CASE ~(c.is_pending \/ ready = {}) /\ first # NoSession
  BY <1>1, <1>4, <1>5, <1>7
<1>8. CASE ~(c.is_pending \/ ready = {}) /\ first = NoSession
  BY <1>1, <1>3, <1>4, <1>5, <1>8
<1> QED BY <1>6, <1>7, <1>8

\* One step: a callback is lost by the end of a TEARDOWN of an unknown media,
\* or by a request over another one while a keep-alive has no answer.
Loses(c, d) ==
    \/ Completes(c, d)
    \/ Overwrites(c, d) /\ c.keep_alive # {}

\* Steps that leave the slot alone.
LEMMA QuietLoses ==
    ASSUME NEW c, NEW d
    PROVE  /\ SameSlot(c, d) => Loses(c, d)
           /\ Same(c, d) => Loses(c, d)
           /\ Quiet(c, d) => Loses(c, d)
BY SameQuiet DEF Loses, Completes, Quiet

\* rtsp_client_connect() and the end of the lookup touch no request.
LEMMA LookupLoses ==
    ASSUME IInv, NEW res, NEW ok, Connect(res) \/ ResolvDone(ok)
    PROVE  Loses(client, client')
<1> DEFINE w == set_connection_state(client, "CONNECTING")
           v == [w EXCEPT !.remote = TRUE, !.resolv_timer = TRUE, !.lookups = @ + 1]
           u == [client EXCEPT !.remote = FALSE, !.resolv_timer = @ \/ res = "ERESOLV"]
           x == [client EXCEPT !.lookups = @ - 1, !.resolv_timer = FALSE]
           y == [x EXCEPT !.tskt = "connecting"]
           z == set_connection_state(x, "DISCONNECTED")
<1>1. client' \in {u, v, y, z}
  BY DEF Connect, ResolvDone, Becomes
<1>2. Good(client)
  BY DEF IInv
<1>3. v.forgotten = client.forgotten /\ u.forgotten = client.forgotten
  BY <1>2 DEF Good, Client, set_connection_state
<1>4. y.forgotten = client.forgotten /\ z.forgotten = client.forgotten
  BY <1>2 DEF Good, Client, set_connection_state
<1> HIDE DEF u, v, y, z
<1> QED BY <1>1, <1>3, <1>4 DEF Loses, Completes

\* The timeout of a lookup disconnects.
LEMMA ResolvTimeoutLoses ==
    ASSUME IInv, ResolvTimeout
    PROVE  Loses(client, client')
<1> DEFINE n == IF client.lookups > 0 THEN client.lookups - 1 ELSE client.lookups
           x == [client EXCEPT !.resolv_timer = FALSE, !.lookups = n]
<1>1. client' = rtsp_client_disconnect(x)
  BY DEF ResolvTimeout, Becomes
<1>2. Good(client) /\ Connection(client)
  BY DEF IInv
<1>3. n \in Nat /\ n <= client.lookups
  BY <1>2 DEF Good, Client
<1> HIDE DEF n
<1>4. /\ x \in Client /\ Same(client, x) /\ x.medias = client.medias
      /\ x.lookups = n
      /\ x.conn_state = client.conn_state /\ x.sock = client.sock
      /\ x.tskt = client.tskt /\ x.remote = client.remote
  BY <1>2, <1>3 DEF Good, Client, Same
<1> HIDE DEF x
<1>5. Good(x)
  BY <1>2, <1>4, SameGood
<1>6. Connection(x)
  <2>1. client.lookups \in Nat
    BY <1>2 DEF Good, Client
  <2> QED BY <1>2, <1>3, <1>4, <2>1 DEF Connection, Same
<1>7. Completes(x, client')
  BY <1>1, <1>5, <1>6, DisconnectCompletes
<1> QED BY <1>4, <1>7, CompletesTrans DEF Loses

\* A new connection.
LEMMA SocketConnectedLoses ==
    ASSUME IInv, NEW failed, NEW first \in SessionOrNone, NEW res,
           SocketConnected(failed, first, res)
    PROVE  Loses(client, client')
<1> DEFINE x == [client EXCEPT !.sock = TRUE, !.tskt = "connected"]
           y == set_connection_state(x, "CONNECTED")
           z == keep_alive_all(y, failed, first, res)
<1>1. client' = z
  BY DEF SocketConnected, Becomes
<1>2. Good(client) /\ "CONNECTED" \in States
  BY DEF IInv, States
<1>3. /\ failed \subseteq client.sessions \ client.keep_alive
      /\ first # NoSession => first \in client.sessions
      /\ first = NoSession => failed = client.sessions \ client.keep_alive
  BY DEF SocketConnected
<1>4. x \in Client /\ Same(client, x) /\ x.keep_alive = client.keep_alive
  BY <1>2 DEF Good, Client, Same
<1>5. y.keep_alive = x.keep_alive
  BY <1>4 DEF set_connection_state, Client
<1> HIDE DEF x
<1>6. Good(x)
  BY <1>2, <1>4, SameGood
<1>7. Good(y) /\ SameSlot(x, y) /\ y.sessions = x.sessions
  BY <1>2, <1>6, SetState
<1> HIDE DEF y
<1>8. Quiet(y, z)
  BY <1>3, <1>4, <1>5, <1>7, KeepAliveAllQuiet DEF Same
<1> HIDE DEF z
<1>9. Quiet(client, z)
  BY <1>4, <1>7, <1>8, SameQuiet, QuietTrans
<1> QED BY <1>1, <1>9, QuietLoses

\* A lost connection.
LEMMA SocketDisconnectedLoses ==
    ASSUME IInv, SocketDisconnected
    PROVE  Loses(client, client')
<1> DEFINE x == [client EXCEPT !.tskt = "connecting"]
<1>1. client' = event_disconnected(x)
  BY DEF SocketDisconnected, Becomes
<1>2. Good(client)
  BY DEF IInv
<1>3. x \in Client /\ Same(client, x) /\ x.medias = client.medias
  BY <1>2 DEF Good, Client, Same
<1> HIDE DEF x
<1>4. Good(x)
  BY <1>2, <1>3, SameGood
<1>5. Completes(x, client')
  BY <1>1, <1>4, EventDisconnectedCompletes
<1> QED BY <1>3, <1>5, CompletesTrans DEF Loses

\* The end of the client.
LEMMA DestroyLoses ==
    ASSUME IInv, Destroy
    PROVE  Loses(client, client')
<1> DEFINE x == [client EXCEPT !.req_timer = FALSE]
           y == tskt_client_stop(x)
           c == remove_all_sessions(y)
           d == [c EXCEPT !.conn_state = "DESTROYED", !.lookups = 0,
                          !.resolv_timer = FALSE, !.remote = FALSE,
                          !.request = NoRequest]
<1>1. client' = d
  BY DEF Destroy, Becomes
<1>2. Good(client)
  BY DEF IInv
<1>3. x \in Client /\ Same(client, x) /\ x.medias = client.medias
  BY <1>2 DEF Good, Client, Same
<1> HIDE DEF x
<1>4. Good(x)
  BY <1>2, <1>3, SameGood
<1>5. Good(y) /\ Completes(x, y)
  BY <1>4, TsktClientStopGood, TsktClientStopCompletes
<1> HIDE DEF y
<1>6. Completes(client, y)
  BY <1>3, <1>5, CompletesTrans
<1>7. Good(c) /\ SameSlot(y, c)
  BY <1>5, RemoveAllSessions
<1> HIDE DEF c
<1>8. d.forgotten = c.forgotten /\ d.is_pending = c.is_pending
  BY <1>7 DEF Good, Client
<1> HIDE DEF d
<1>9. Completes(client, d)
  BY <1>6, <1>7, <1>8, CompletesThen DEF SameSlot
<1> QED BY <1>1, <1>9 DEF Loses

\* The callback an accepted request is owed changes nothing.
LEMMA AcceptedLoses ==
    ASSUME NEW c, CanSend(c), NEW d, Good(d), Overwrites(c, d)
    PROVE  Loses(c, Accepted(c, d))
<1> DEFINE a == [d EXCEPT !.owed = @ \cup {c.cseq}]
<1>1. Accepted(c, d) = IF d.cseq = c.cseq THEN d ELSE a
  BY DEF Accepted
<1>2. a.forgotten = d.forgotten /\ a.request = d.request
  BY DEF Good, Client
<1> HIDE DEF a
<1> QED BY <1>1, <1>2 DEF Loses, Overwrites, Completes, CanSend

\* A request for a session that the client may not have.
LEMMA ForSessionOverwrites ==
    ASSUME NEW c, Good(c), NEW m \in Methods \ {"GET_PARAMETER", "TEARDOWN"},
           NEW s \in SessionIds, NEW md \in MediaOrNone, NEW res,
           NEW timed \in BOOLEAN, m = "SETUP" => md \in Medias
    PROVE  LET d == ForSession(c, m, s, md, res, timed)
           IN  Good(d) /\ Overwrites(c, d)
<1> DEFINE b == clear_pending_keep_alive_timer(c)
           d == SendRequest(c, m, s, md, res, timed)
<1>1. Good(b)
  BY ClearTimerGood
<1>2. Overwrites(c, b)
  BY DEF clear_pending_keep_alive_timer, Good, Client, Overwrites
<1>3. Good(d) /\ Overwrites(c, d)
  BY SendRequestRequested, SendRequestOverwrites DEF SessionOrNone, Requested
<1> HIDE DEF b, d
<1> QED BY <1>1, <1>2, <1>3 DEF ForSession, b, d

\* SETUP, in a new session or in a known one.
LEMMA SetupLoses ==
    ASSUME IInv, NEW s \in SessionOrNone, NEW md \in Medias, NEW res,
           NEW timed \in BOOLEAN, Setup(s, md, res, timed)
    PROVE  Loses(client, client')
<1> DEFINE d == rtsp_client_setup(client, s, md, res, timed)
<1>1. Good(client) /\ CanSend(client) /\ client' = Accepted(client, d)
  BY DEF IInv, Setup, CanRequest, Becomes
<1>2. /\ "SETUP" \in Methods \ {"GET_PARAMETER", "TEARDOWN"}
      /\ md \in MediaOrNone
  BY DEF Methods, SessionMethods, MediaOrNone
<1>3. CASE s = NoSession
  <2>1. d = SendRequest(client, "SETUP", s, md, res, timed)
    BY <1>3 DEF rtsp_client_setup
  <2> HIDE DEF d
  <2>2. Good(d) /\ Overwrites(client, d)
    BY <1>1, <1>2, <2>1, SendRequestRequested, SendRequestOverwrites DEF Requested
  <2> QED BY <1>1, <2>2, AcceptedLoses
<1>4. CASE s # NoSession
  <2>1. s \in SessionIds
    BY <1>4 DEF SessionOrNone
  <2>2. d = ForSession(client, "SETUP", s, md, res, timed)
    BY <1>4 DEF rtsp_client_setup
  <2> HIDE DEF d
  <2>3. Good(d) /\ Overwrites(client, d)
    BY <1>1, <1>2, <2>1, <2>2, ForSessionOverwrites
  <2> QED BY <1>1, <2>3, AcceptedLoses
<1> QED BY <1>3, <1>4

\* TEARDOWN.
LEMMA TeardownLoses ==
    ASSUME IInv, NEW s \in SessionIds, NEW md \in MediaOrNone, NEW res,
           NEW timed \in BOOLEAN, Teardown(s, md, res, timed)
    PROVE  Loses(client, client')
<1> DEFINE d == send_teardown(client, md, s, res, timed, FALSE)
           Fine(x) == Good(x) /\ Overwrites(client, x)
<1>1. Good(client) /\ CanSend(client) /\ client' = Accepted(client, d)
  BY DEF IInv, Teardown, CanRequest, Becomes
<1>2. \A internal \in BOOLEAN :
          Fine(send_teardown(client, md, s, res, timed, internal))
  BY <1>1, SendTeardownGood, SendTeardownOverwrites
<1>3. FALSE \in BOOLEAN
  OBVIOUS
<1> HIDE DEF Fine
<1>4. Fine(d)
  BY <1>2, <1>3, Zenon
<1> HIDE DEF d
<1> QED BY <1>1, <1>4, AcceptedLoses DEF Fine

\* Every call of the application that sends a request.
LEMMA RequestNextLoses ==
    ASSUME IInv, RequestNext
    PROVE  Loses(client, client')
<1>0. Good(client)
  BY DEF IInv
<1> PICK res \in SendResults, timed \in BOOLEAN :
        \/ Options(res, timed) \/ Describe(res, timed) \/ Announce(res, timed)
        \/ \E s \in SessionOrNone, md \in Medias : Setup(s, md, res, timed)
        \/ \E s \in SessionIds : Play(s, res, timed)
        \/ \E s \in SessionIds : Pause(s, res, timed)
        \/ \E s \in SessionIds : Record(s, res, timed)
        \/ \E s \in SessionIds, md \in MediaOrNone : Teardown(s, md, res, timed)
  BY DEF RequestNext
<1>1. /\ {"OPTIONS", "DESCRIBE", "ANNOUNCE", "PLAY", "PAUSE", "RECORD"}
             \subseteq Methods \ {"GET_PARAMETER", "TEARDOWN", "SETUP"}
      /\ NoSession \in SessionOrNone /\ NoMedia \in MediaOrNone
  BY DEF Methods, SessionlessMethods, SessionMethods, SessionOrNone, MediaOrNone
<1>2. ASSUME NEW m \in {"OPTIONS", "DESCRIBE", "ANNOUNCE"}, CanSend(client)
      PROVE  LET d == SendRequest(client, m, NoSession, NoMedia, res, timed)
             IN  Loses(client, Accepted(client, d))
  <2> DEFINE d == SendRequest(client, m, NoSession, NoMedia, res, timed)
  <2>1. Good(d) /\ Overwrites(client, d)
    BY <1>0, <1>1, SendRequestRequested, SendRequestOverwrites DEF Requested
  <2> HIDE DEF d
  <2>2. Loses(client, Accepted(client, d))
    BY <1>2, <2>1, AcceptedLoses
  <2> QED BY <2>2 DEF d
<1>3. ASSUME NEW m \in {"PLAY", "PAUSE", "RECORD"}, NEW s \in SessionIds,
             CanSend(client)
      PROVE  LET d == ForSession(client, m, s, NoMedia, res, timed)
             IN  Loses(client, Accepted(client, d))
  <2> DEFINE d == ForSession(client, m, s, NoMedia, res, timed)
  <2>1. Good(d) /\ Overwrites(client, d)
    BY <1>0, <1>1, ForSessionOverwrites
  <2> HIDE DEF d
  <2>2. Loses(client, Accepted(client, d))
    BY <1>3, <2>1, AcceptedLoses
  <2> QED BY <2>2 DEF d
<1>4. CASE Options(res, timed)
  BY <1>2, <1>4 DEF Options, Becomes, rtsp_client_options
<1>5. CASE Describe(res, timed)
  BY <1>2, <1>5 DEF Describe, CanRequest, Becomes, rtsp_client_describe
<1>6. CASE Announce(res, timed)
  BY <1>2, <1>6 DEF Announce, CanRequest, Becomes, rtsp_client_announce
<1>7. CASE \E s \in SessionOrNone, md \in Medias : Setup(s, md, res, timed)
  BY <1>7, SetupLoses
<1>8. CASE \E s \in SessionIds : Play(s, res, timed)
  BY <1>3, <1>8 DEF Play, CanRequest, Becomes, rtsp_client_play
<1>9. CASE \E s \in SessionIds : Pause(s, res, timed)
  BY <1>3, <1>9 DEF Pause, CanRequest, Becomes, rtsp_client_pause
<1>10. CASE \E s \in SessionIds : Record(s, res, timed)
  BY <1>3, <1>10 DEF Record, CanRequest, Becomes, rtsp_client_record
<1>11. CASE \E s \in SessionIds, md \in MediaOrNone : Teardown(s, md, res, timed)
  BY <1>11, TeardownLoses
<1> QED BY <1>4, <1>5, <1>6, <1>7, <1>8, <1>9, <1>10, <1>11

\* A response, whoever it is for.
LEMMA ResponseProcessLoses ==
    ASSUME NEW c, Good(c), Connection(c), NEW cseq, NEW resp \in Response,
           NEW s, s # NoSession => s \in c.keep_alive,
           cseq = c.request.cseq /\ c.request.session # NoSession =>
               resp.session \in {c.request.session, NoSession},
           NEW m
    PROVE  Loses(c, [response_process(c, cseq, resp, s) EXCEPT !.wire = @ \ {m}])
<1> DEFINE p == response_process(c, cseq, resp, s)
           x == [c EXCEPT !.keep_alive = @ \ {s}]
           y == RetryLater(x, s)
           d == [p EXCEPT !.wire = @ \ {m}]
<1>1. Good(p)
  BY ResponseProcessGood
<1>2. p = IF cseq = c.request.cseq THEN request_complete(c, resp, "OK")
          ELSE IF s = NoSession THEN c ELSE y
  BY DEF response_process
<1>3. SameSlot(c, c)
  BY DEF SameSlot
<1>4. SameSlot(c, y)
  BY DEF Good, Client, SameSlot, RetryLater
<1> HIDE DEF p, y
<1>5. Completes(c, p)
  <2>1. CASE cseq = c.request.cseq
    BY <1>2, <2>1, RequestCompleteCompletes
  <2>2. CASE cseq # c.request.cseq
    BY <1>2, <1>3, <1>4, <2>2 DEF SameSlot, Completes
  <2> QED BY <2>1, <2>2
<1>6. d.forgotten = p.forgotten /\ d.is_pending = p.is_pending
  BY <1>1 DEF Good, Client
<1> HIDE DEF d
<1>7. Loses(c, d)
  BY <1>5, <1>6, CompletesThen DEF Loses
<1> QED BY <1>7 DEF d, p

\* A TEARDOWN of the server leaves the slot alone.
LEMMA ServerTeardownLoses ==
    ASSUME IInv, NEW s \in SessionIds, NEW md, ServerTeardown(s, md)
    PROVE  Loses(client, client')
<1> DEFINE f == [client.medias EXCEPT ![s] = @ \ {md}]
           x == [client EXCEPT !.medias = f]
           y == remove_session_internal(client, s)
<1>1. Good(client)
  BY DEF IInv
<1>2. client' = x \/ client' = y
  BY DEF ServerTeardown, Becomes
<1>3. SameSlot(client, y)
  BY <1>1, RemoveSessionInternal
<1> HIDE DEF f
<1>4. SameSlot(client, x)
  BY <1>1 DEF Good, Client, SameSlot
<1> HIDE DEF x, y
<1> QED BY <1>2, <1>3, <1>4, QuietLoses

\* The timeout of a request.
LEMMA ResponseTimeoutLoses ==
    ASSUME IInv, NEW res, NEW connect_ok \in BOOLEAN,
           ResponseTimeout(res, connect_ok)
    PROVE  Loses(client, client')
<1> DEFINE x == [client EXCEPT !.req_timer = FALSE]
<1>1. client' = request_timeout(x, res, connect_ok)
  BY DEF ResponseTimeout, Becomes
<1>2. Good(client)
  BY DEF IInv
<1>3. x \in Client /\ Same(client, x) /\ x.medias = client.medias
  BY <1>2 DEF Good, Client, Same
<1> HIDE DEF x
<1>4. Good(x)
  BY <1>2, <1>3, SameGood
<1>5. Completes(x, client')
  BY <1>1, <1>4, RequestTimeoutCompletes
<1> QED BY <1>3, <1>5, CompletesTrans DEF Loses

\* The keep-alive timer.
LEMMA KeepAliveTimerLoses ==
    ASSUME IInv, NEW s \in SessionIds, NEW res, KeepAliveTimer(s, res)
    PROVE  Loses(client, client')
<1> DEFINE x == [client EXCEPT !.timer = @ \ {s}]
<1>1. client' = send_keep_alive(x, s, res)
  BY DEF KeepAliveTimer, Becomes
<1>2. Good(client) /\ s \in client.sessions
  BY DEF IInv, KeepAliveTimer, Good, Flags
<1>3. x \in Client /\ Same(client, x)
  BY <1>2 DEF Good, Client, Same
<1> HIDE DEF x
<1>4. Good(x) /\ s \in x.sessions
  BY <1>2, <1>3, SameGood DEF Same
<1>5. Quiet(x, client')
  BY <1>1, <1>4, SendKeepAliveQuiet
<1> QED BY <1>3, <1>5, SameQuiet, QuietTrans, QuietLoses

\* Messages of the server, timers, and the remaining calls.
LEMMA EventNextLoses ==
    ASSUME IInv, EventNext
    PROVE  Loses(client, client')
<1>0. Good(client) /\ Connection(client)
  BY DEF IInv
<1>1. CASE \E s \in SessionIds : RemoveSession(s)
  BY <1>0, <1>1, RemoveSessionInternal, QuietLoses DEF RemoveSession, Becomes
<1>2. CASE Cancel
  <2>1. client' = request_complete(client, Dummy(client), "CANCELED")
    BY <1>2 DEF Cancel, Becomes
  <2> QED BY <1>0, <2>1, DummyResponse, RequestCompleteCompletes DEF Loses
<1>3. CASE \E m \in client.wire, code \in {"2xx", "454", "other"},
              sid \in SessionOrNone, pub \in PublicMethods \cup {{}},
              s \in SessionOrNone :
              ReceiveResponse(m, [code |-> code, session |-> sid,
                                  public |-> pub], s)
  <2> PICK m \in client.wire, code \in {"2xx", "454", "other"},
           sid \in SessionOrNone, pub \in PublicMethods \cup {{}},
           s \in SessionOrNone :
           ReceiveResponse(m, [code |-> code, session |-> sid,
                               public |-> pub], s)
    BY <1>3
  <2> DEFINE resp == [code |-> code, session |-> sid, public |-> pub]
  <2>1. resp \in Response /\ resp.session = sid
    BY ClientAssumption DEF Response
  <2> HIDE DEF resp
  <2>2. /\ client' = [response_process(client, m.cseq, resp, s)
                         EXCEPT !.wire = @ \ {m}]
        /\ s # NoSession => s \in client.keep_alive
        /\ m.session # NoSession => resp.session \in {m.session, NoSession}
    BY <2>1 DEF ReceiveResponse, Becomes, resp
  <2>3. m.cseq = client.request.cseq => m = client.request
    BY <1>0 DEF Good, Slot
  <2> QED BY <1>0, <2>1, <2>2, <2>3, ResponseProcessLoses
<1>4. CASE \E m \in client.wire, s \in SessionOrNone : ReceiveNoCseq(m, s)
  <2> PICK m \in client.wire, s \in SessionOrNone : ReceiveNoCseq(m, s)
    BY <1>4
  <2> DEFINE resp == [code |-> "other", session |-> NoSession, public |-> {}]
  <2>1. resp \in Response /\ resp.session = NoSession
    BY DEF Response, SessionOrNone
  <2>2. /\ client' = [response_process(client, 0, resp, s)
                         EXCEPT !.wire = @ \ {m}]
        /\ s # NoSession => s \in client.keep_alive
    BY DEF ReceiveNoCseq, Becomes
  <2> HIDE DEF resp
  <2> QED BY <1>0, <2>1, <2>2, ResponseProcessLoses
<1>5. CASE \E s \in SessionIds, md \in MediaOrNone : ServerTeardown(s, md)
  BY <1>5, ServerTeardownLoses
<1>6. CASE \E res \in SendResults, connect_ok \in BOOLEAN :
              ResponseTimeout(res, connect_ok)
  BY <1>6, ResponseTimeoutLoses
<1>7. CASE \E s \in SessionIds, res \in SendResults : KeepAliveTimer(s, res)
  BY <1>7, KeepAliveTimerLoses
<1>8. CASE Destroyed
  BY <1>8 DEF Destroyed, Loses, Completes
<1> QED BY <1>1, <1>2, <1>3, <1>4, <1>5, <1>6, <1>7, <1>8 DEF EventNext

\* Calls and events of the connection.
LEMMA ConnectionNextLoses ==
    ASSUME IInv, ConnectionNext
    PROVE  Loses(client, client')
<1>1. Disconnect => Completes(client, client')
  BY DisconnectCompletes DEF IInv, Disconnect, Becomes
<1> QED BY <1>1, LookupLoses, ResolvTimeoutLoses, SocketConnectedLoses,
           SocketDisconnectedLoses, DestroyLoses DEF ConnectionNext, Loses

\* A good client has lost what it has forgotten.
LEMMA LostIs == ASSUME NEW c, Good(c) PROVE Lost(c) = c.forgotten
BY DEF Lost, Good, Slot

(***************************************************************************)
(* Theorems                                                                *)
(***************************************************************************)

\* What a step sends is the header it leaves in the slot, and a header that
\* comes into the slot has a CSeq that no header had before.
SendsSlot == Sends(client, client')

\* Every call, event, message and timer of rtsp_client.c, whatever sending
\* returns: nothing is sent but the header in the slot, and no CSeq is used
\* for two headers, so that a server, or a late answer, can tell them apart.
THEOREM FreshCseq == OneLookup => (Spec => [][SendsSlot]_client)
<1> SUFFICES ASSUME OneLookup PROVE Spec => [][SendsSlot]_client
  OBVIOUS
<1>1. Spec => []IInv
  BY Inductive
<1>2. IInv /\ [Next]_client => [SendsSlot]_client
  BY ConnectionNextSends, RequestNextSends, EventNextSends DEF Next, SendsSlot
<1> QED BY <1>1, <1>2, PTL DEF Spec

\* An accepted request is called back for, whatever ends it (rtsp_client.c,
\* request_complete() and its callers): an application waits in vain only for
\* a request that it had overwritten while a keep-alive was not answered, or
\* for a TEARDOWN of a media the session does not have.
THEOREM LostCallbacks == OneLookup => (Spec => OnlyKnownLost)
<1> SUFFICES ASSUME OneLookup PROVE Spec => OnlyKnownLost
  OBVIOUS
<1> DEFINE Loss == \/ Lost(client') = Lost(client)
                   \/ /\ Lost(client') = Lost(client) \cup {client.request.cseq}
                      /\ OverwritesRequest \/ EndsUnknownTeardown
<1>1. Spec => []IInv
  BY Inductive
<1>2. IInv /\ IInv' /\ [Next]_client => [Loss]_client
  <2> SUFFICES ASSUME IInv, IInv', Next PROVE Loss
    OBVIOUS
  <2>1. Loses(client, client')
    BY ConnectionNextLoses, RequestNextLoses, EventNextLoses DEF Next
  <2>2. Good(client) /\ Good(client')
    BY DEF IInv
  <2>3. Lost(client) = client.forgotten /\ Lost(client') = client'.forgotten
    BY <2>2, LostIs
  <2>4. CASE Completes(client, client')
    BY <2>3, <2>4 DEF Completes, UnknownTeardown, EndsUnknownTeardown
  <2>5. CASE Overwrites(client, client') /\ client.keep_alive # {}
    <3>1. client.owed # {} => client.owed = {client.request.cseq}
      BY <2>2 DEF Good, Slot
    <3> QED BY <2>3, <2>5, <3>1 DEF Overwrites, OverwritesRequest
  <2> QED BY <2>1, <2>4, <2>5 DEF Loses
<1> QED BY <1>1, <1>2, PTL DEF Spec, OnlyKnownLost
=============================================================================
