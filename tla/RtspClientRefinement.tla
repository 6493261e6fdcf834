------------------------ MODULE RtspClientRefinement ------------------------
(***************************************************************************)
(* RtspClient implements RtspClientPromise, for any number of sessions and *)
(* medias, of a client whose requests can be sent and that has at most one *)
(* resolver lookup in flight.                                              *)
(*                                                                         *)
(* The invariant IInv of RtspClientProofs does not say that a request in   *)
(* the slot is owed its callback: Sound does, of all but the client's own  *)
(* requests.  With it a completion calls back exactly the request that was *)
(* accepted, and only the end of an accepted SETUP brings a session.  Each *)
(* C function has one lemma: of what the application sees, it does nothing *)
(* but lose sessions (Quieter), sends a request of the client's own (Own), *)
(* or ends the request of the application (Ended).                         *)
(***************************************************************************)
EXTENDS RtspClientProofs

AlwaysSent == SendResults \subseteq {"OK"}
SomeSession == SessionIds # {}

\* A request in the slot is owed its callback, unless it is a keep-alive or a
\* TEARDOWN of the client's own, whose completion knows that it is one.
Sound(c) ==
    /\ ~c.spurious
    /\ c.is_pending /\ c.owed = {} /\ c.request.method # "GET_PARAMETER" =>
          /\ c.request.method = "TEARDOWN" /\ c.is_internal
          /\ c.request.session \in SessionIds
          /\ c.request.session \in c.sessions =>
                c.request.session \in c.internal_teardown

\* A destroyed client has no lookup in flight.
Over(c) == c.conn_state = "DESTROYED" => c.lookups = 0

\* The application sees at most that sessions are lost.
Quieter(c, d) ==
    /\ d.request = c.request /\ d.is_pending = c.is_pending
    /\ d.is_internal = c.is_internal
    /\ d.owed = c.owed /\ d.cseq = c.cseq /\ d.spurious = c.spurious
    /\ d.sessions \subseteq c.sessions
    /\ d.sessions \cap c.internal_teardown \subseteq d.internal_teardown

\* The client sends a request of its own from a free slot.
Own(c, d) ==
    /\ c.conn_state = "CONNECTED" /\ ~c.is_pending
    /\ d.is_pending /\ d.owed = {} /\ d.cseq = c.cseq + 1
    /\ d.spurious = c.spurious /\ d.sessions = c.sessions
    /\ \/ d.request.method = "GET_PARAMETER"
       \/ /\ d.request.method = "TEARDOWN" /\ d.is_internal
          /\ d.request.session \in SessionIds \cap d.internal_teardown

\* The request in the slot ends; if it was the application's it may have been
\* a SETUP, which brings a session.
Ended(c, d) ==
    /\ ~d.is_pending /\ d.owed = {} /\ d.cseq = c.cseq /\ ~d.spurious
    /\ \E s \in SessionIds :
          d.sessions \subseteq c.sessions \cup IF c.owed = {} THEN {} ELSE {s}

\* Losing sessions keeps a client sound.
LEMMA QuieterSound ==
    ASSUME NEW c, NEW d, Sound(c), Quieter(c, d) PROVE Sound(d)
BY DEF Sound, Quieter

\* Losing sessions twice is losing sessions.
LEMMA QuieterTrans ==
    ASSUME NEW c, NEW d, NEW e, Quieter(c, d), Quieter(d, e) PROVE Quieter(c, e)
BY DEF Quieter

\* A request of the client's own is sound.
LEMMA OwnSound ==
    ASSUME NEW c, NEW d, Sound(c), Own(c, d) PROVE Sound(d)
BY DEF Sound, Own

\* A free slot is sound, and stays ended while sessions are lost.
LEMMA EndedSound ==
    ASSUME NEW c, NEW d, Ended(c, d)
    PROVE  /\ Sound(d)
           /\ \A e : Quieter(d, e) => Ended(c, e)
BY DEF Sound, Ended, Quieter

(***************************************************************************)
(* Functions that lose sessions, or nothing                                *)
(***************************************************************************)

\* set_connection_state() changes the state only.
LEMMA SetStateQuiet ==
    ASSUME NEW c \in Client, NEW st
    PROVE  LET d == set_connection_state(c, st)
           IN  Quieter(c, d) /\ d.sessions = c.sessions
BY DEF set_connection_state, Client, Quieter

\* rtsp_client_remove_session_internal() loses a session.
LEMMA RemoveQuiet ==
    ASSUME NEW c \in Client, NEW s
    PROVE  Quieter(c, remove_session_internal(c, s))
<1> DEFINE f == [c.failed_keep_alive EXCEPT ![s] = 0]
           m == [c.medias EXCEPT ![s] = {}]
           e == [c EXCEPT !.sessions = @ \ {s}, !.keep_alive = @ \ {s},
                          !.timer = @ \ {s}, !.internal_teardown = @ \ {s},
                          !.failed_keep_alive = f, !.medias = m]
<1>1. CASE s \notin c.sessions
  BY <1>1 DEF remove_session_internal, Quieter
<1>2. CASE s \in c.sessions
  <2>1. remove_session_internal(c, s) = e
    BY <1>2 DEF remove_session_internal
  <2> HIDE DEF f, m
  <2>2. Quieter(c, e)
    BY DEF Client, Quieter
  <2> QED BY <2>1, <2>2
<1> QED BY <1>1, <1>2

\* rtsp_client_remove_all_sessions() loses all.
LEMMA RemoveAllQuiet ==
    ASSUME NEW c \in Client
    PROVE  Quieter(c, remove_all_sessions(c)) /\ remove_all_sessions(c).sessions = {}
BY DEF remove_all_sessions, Client, Quieter

\* reset_keep_alive_timer() shows nothing.
LEMMA RetryQuiet ==
    ASSUME NEW c \in Client, NEW s PROVE Quieter(c, RetryLater(c, s))
BY DEF RetryLater, Client, Quieter

\* Nor does clear_pending_keep_alive_timer().
LEMMA ClearTimerQuiet ==
    ASSUME NEW c \in Client PROVE Quieter(c, clear_pending_keep_alive_timer(c))
BY DEF clear_pending_keep_alive_timer, Client, Quieter

(***************************************************************************)
(* Sending                                                                 *)
(***************************************************************************)

\* What is sent takes the slot.
LEMMA TakeSlotView ==
    ASSUME NEW c \in Client, NEW q
    PROVE  LET d == TakeSlot(c, q)
           IN  /\ d.request = q /\ d.is_pending /\ d.cseq = c.cseq + 1
               /\ d.spurious = c.spurious /\ d.sessions = c.sessions
BY DEF TakeSlot, SetHeader, Forget, Client

\* A keep-alive, if one is sent, is the client's own.  A connected client
\* loses no session by it.
LEMMA KeepAliveView ==
    ASSUME NEW c, Good(c), NEW s \in c.sessions
    PROVE  LET d == send_keep_alive(c, s, "OK")
           IN  /\ Quieter(c, d) \/ Own(c, d)
               /\ c.conn_state = "CONNECTED" => d.sessions = c.sessions
<1> DEFINE d == send_keep_alive(c, s, "OK")
           q == [method |-> "GET_PARAMETER", cseq |-> c.cseq,
                 session |-> s, media |-> NoMedia]
           failed == c.failed_keep_alive[s] + 1
           f == [c EXCEPT !.failed_keep_alive[s] = failed]
<1>0. c \in Client /\ s \in SessionIds /\ c.cseq \in Nat
  BY DEF Good, Client
<1>1. q \in Request /\ q.cseq = c.cseq /\ q.method = "GET_PARAMETER"
  BY <1>0 DEF Request, Methods, SessionMethods, SessionOrNone, MediaOrNone
<1>2. CASE ~Allowed(c, "GET_PARAMETER")
  BY <1>2 DEF send_keep_alive, Quieter
<1>3. CASE Allowed(c, "GET_PARAMETER") /\ c.conn_state # "CONNECTED"
  <2>1. d = IF failed >= MaxFailedKeepAlive THEN remove_session_internal(c, s)
            ELSE RetryLater(f, s)
    BY <1>3 DEF send_keep_alive
  <2>2. f \in Client /\ Quieter(c, f)
    <3> DEFINE g == [c.failed_keep_alive EXCEPT ![s] = failed]
    <3>1. g \in [SessionIds -> Nat]
      BY <1>0 DEF Client
    <3>2. f = [c EXCEPT !.failed_keep_alive = g]
      OBVIOUS
    <3> HIDE DEF f, g
    <3> QED BY <1>0, <3>1, <3>2 DEF Client, Quieter
  <2> HIDE DEF f, failed
  <2> QED BY <1>0, <1>3, <2>1, <2>2, RemoveQuiet, RetryQuiet, QuieterTrans
<1>4. CASE Allowed(c, "GET_PARAMETER") /\ c.conn_state = "CONNECTED"
  <2> DEFINE w == TakeSlot(c, q)
             e == [w EXCEPT !.keep_alive = @ \cup {s}, !.req_timer = TRUE,
                            !.wire = @ \cup {q}]
  <2>1. d = IF s \in c.keep_alive THEN c
            ELSE IF c.is_pending THEN RetryLater(c, s) ELSE e
    BY <1>4 DEF send_keep_alive
  <2>2. /\ Good(w) /\ Header(c, w, q) /\ w.request = q /\ w.is_pending
        /\ w.cseq = c.cseq + 1 /\ w.spurious = c.spurious /\ w.sessions = c.sessions
    BY <1>0, <1>1, TakeSlotGood, TakeSlotView
  <2>3. ASSUME ~c.is_pending PROVE Own(c, e)
    <3> HIDE DEF w, q
    <3> QED BY <1>1, <1>4, <2>2, <2>3 DEF Good, Client, Own, Header
  <2>4. e.sessions = c.sessions
    <3> HIDE DEF w, q
    <3> QED BY <2>2 DEF Good, Client
  <2>5. RetryLater(c, s).sessions = c.sessions
    BY <1>0 DEF RetryLater, Client
  <2> HIDE DEF e
  <2> QED BY <1>0, <2>1, <2>3, <2>4, <2>5, RetryQuiet DEF Quieter
<1> QED BY <1>2, <1>3, <1>4

\* A TEARDOWN of the client's own that is sent takes the free slot.
LEMMA OwnTeardownView ==
    ASSUME NEW c, Good(c), ~c.is_pending, NEW s \in c.sessions,
           CanRequest(c, "TEARDOWN")
    PROVE  Own(c, send_teardown(c, NoMedia, s, "OK", TRUE, TRUE))
<1> DEFINE b == clear_pending_keep_alive_timer(c)
           q == [method |-> "TEARDOWN", cseq |-> c.cseq, session |-> s,
                 media |-> NoMedia]
           w == TakeSlot(b, q)
           r == [w EXCEPT !.req_timer = TRUE \/ @, !.wire = @ \cup {q}]
           e == [r EXCEPT !.is_internal = TRUE,
                          !.internal_teardown = @ \cup {s}]
<1>0. s \in SessionIds /\ c.conn_state = "CONNECTED"
  BY DEF Good, Client, CanRequest, CanSend
<1>1. q \in Request /\ q.cseq = c.cseq /\ q.method = "TEARDOWN" /\ q.session = s
  BY <1>0 DEF Request, Methods, SessionMethods, SessionOrNone, MediaOrNone, Good,
         Client
<1>2. send_teardown(c, NoMedia, s, "OK", TRUE, TRUE) = e
  BY DEF send_teardown, SendRequest
<1>3. /\ Good(b) /\ b.sessions = c.sessions /\ b.cseq = c.cseq
      /\ Quieter(c, b)
  BY ClearTimerGood, ClearTimerQuiet DEF Good
<1> HIDE DEF b, q
<1>4. /\ Good(w) /\ Header(b, w, q) /\ w.request = q /\ w.is_pending
      /\ w.cseq = b.cseq + 1 /\ w.spurious = b.spurious
      /\ w.sessions = b.sessions
  BY <1>1, <1>3, TakeSlotGood, TakeSlotView DEF Good
<1> HIDE DEF w
<1>5. /\ r \in Client /\ r.request = q /\ r.is_pending
      /\ r.cseq = w.cseq /\ r.spurious = w.spurious
      /\ r.sessions = w.sessions /\ r.owed = w.owed
  BY <1>1, <1>4 DEF Good, Client
<1> HIDE DEF r
<1>6. /\ e.request = q /\ e.is_pending /\ e.is_internal
      /\ e.cseq = r.cseq /\ e.spurious = r.spurious
      /\ e.sessions = r.sessions /\ e.owed = r.owed
      /\ s \in e.internal_teardown
  BY <1>5 DEF Client
<1> HIDE DEF e
<1>7. Own(c, e)
  BY <1>0, <1>1, <1>3, <1>4, <1>5, <1>6 DEF Own, Quieter, Header
<1> QED BY <1>2, <1>7

\* Giving a session up sends a TEARDOWN, or removes the session.
LEMMA GiveUpView ==
    ASSUME NEW c, Good(c), ~c.is_pending, NEW s \in SessionIds
    PROVE  LET d == GiveUp(c, s, "OK") IN Quieter(c, d) \/ Own(c, d)
<1> DEFINE d == send_teardown(c, NoMedia, s, "OK", TRUE, TRUE)
           b == clear_pending_keep_alive_timer(c)
<1>1. CASE send_teardown_ok(c, s, "OK")
  <2>1. GiveUp(c, s, "OK") = d
    BY <1>1 DEF GiveUp
  <2> QED BY <1>1, <2>1, OwnTeardownView DEF send_teardown_ok
<1>2. CASE ~send_teardown_ok(c, s, "OK")
  <2>1. GiveUp(c, s, "OK") = remove_session_internal(d, s)
    BY <1>2 DEF GiveUp
  <2>2. d = c \/ d = b
    BY <1>2 DEF send_teardown, send_teardown_ok
  <2>3. c \in Client /\ Quieter(c, c) /\ b \in Client /\ Quieter(c, b)
    BY ClearTimerGood, ClearTimerQuiet DEF Good, Quieter
  <2> HIDE DEF d, b
  <2> QED BY <2>1, <2>2, <2>3, RemoveQuiet, QuieterTrans
<1> QED BY <1>1, <1>2

\* The timeout of a keep-alive, once its slot is free.
LEMMA KeepAliveTimeoutView ==
    ASSUME NEW c, Good(c), ~c.is_pending, NEW s \in c.sessions
    PROVE  LET d == keep_alive_timeout(c, s, "OK") IN Quieter(c, d) \/ Own(c, d)
<1> DEFINE failed == c.failed_keep_alive[s] + 1
           d == [c EXCEPT !.failed_keep_alive[s] = failed]
           e == [d EXCEPT !.timer = @ \ {s}]
           Alike(x) == /\ Good(x) /\ Same(c, x) /\ x.spurious = c.spurious
                       /\ x.conn_state = c.conn_state
<1>1. s \in SessionIds /\ failed \in Nat
  BY DEF Good, Client
<1>2. keep_alive_timeout(c, s, "OK") =
          IF failed < MaxFailedKeepAlive THEN send_keep_alive(d, s, "OK")
          ELSE GiveUp(e, s, "OK")
  BY DEF keep_alive_timeout
<1> HIDE DEF failed
<1>3. Alike(d)
  <2> DEFINE g == [c.failed_keep_alive EXCEPT ![s] = failed]
             x == [c EXCEPT !.failed_keep_alive = g]
  <2>1. g \in [SessionIds -> Nat]
    BY <1>1, FunTypes DEF Good
  <2> HIDE DEF g
  <2>2. x \in Client
    BY <2>1 DEF Good, Client
  <2>3. Same(c, x) /\ x.spurious = c.spurious /\ x.conn_state = c.conn_state
    BY DEF Good, Client, Same
  <2> HIDE DEF x
  <2>4. Alike(x)
    BY <2>2, <2>3, SameGood
  <2> QED BY <2>4 DEF x, g
<1> HIDE DEF d
<1>4. Alike(e)
  <2>1. e \in Client
    BY <1>3 DEF Good, Client
  <2>2. Same(d, e) /\ e.spurious = d.spurious /\ e.conn_state = d.conn_state
    BY <1>3 DEF Good, Client, Same
  <2> HIDE DEF e
  <2> QED BY <1>3, <2>1, <2>2, SameGood DEF Same
<1> HIDE DEF e
<1>5. \A x, y : Alike(x) /\ (Quieter(x, y) \/ Own(x, y)) =>
                   Quieter(c, y) \/ Own(c, y)
  BY DEF Same, Quieter, Own
<1>6. CASE failed < MaxFailedKeepAlive
  <2>1. s \in d.sessions
    BY <1>3 DEF Same
  <2>2. LET k == send_keep_alive(d, s, "OK") IN Quieter(d, k) \/ Own(d, k)
    BY <1>3, <2>1, KeepAliveView
  <2> HIDE DEF Alike
  <2> QED BY <1>2, <1>3, <1>5, <1>6, <2>2
<1>7. CASE ~(failed < MaxFailedKeepAlive)
  <2>1. Good(e) /\ ~e.is_pending
    BY <1>4 DEF Same
  <2>2. LET k == GiveUp(e, s, "OK") IN Quieter(e, k) \/ Own(e, k)
    BY <1>1, <2>1, GiveUpView
  <2> HIDE DEF Alike
  <2> QED BY <1>2, <1>4, <1>5, <1>7, <2>2
<1> QED BY <1>6, <1>7

(***************************************************************************)
(* Completion                                                              *)
(***************************************************************************)

\* Only the answer to a SETUP creates a session, the one it names.
LEMMA SessionAliveView ==
    ASSUME NEW c, Good(c), NEW q, NEW sid \in SessionOrNone
    PROVE  LET d == SessionAlive(ClearSlot(c), q, sid)
           IN  /\ d.spurious = c.spurious
               /\ d.sessions = IF q.method = "SETUP" /\ sid # NoSession
                               THEN c.sessions \cup {sid} ELSE c.sessions
<1> DEFINE x == ClearSlot(c)
           g == [x EXCEPT !.sessions = @ \cup {sid}]
           y == IF q.method = "SETUP" /\ sid # NoSession
                THEN get_session_add(x, sid) ELSE x
           k == [y EXCEPT !.keep_alive = @ \ {sid}]
           z == [k EXCEPT !.timer = @ \cup {sid}]
<1>1. x \in Client /\ x.spurious = c.spurious /\ x.sessions = c.sessions
  <2>1. NoRequest \in Request
    BY DEF NoRequest, Request, SessionOrNone, MediaOrNone
  <2> QED BY <2>1 DEF ClearSlot, Good, Client
<1>2. SessionAlive(x, q, sid) = IF sid \notin y.sessions THEN y ELSE z
  BY DEF SessionAlive, RetryLater
<1> HIDE DEF x
<1>3. /\ y \in Client /\ y.spurious = x.spurious
      /\ y.sessions = IF q.method = "SETUP" /\ sid # NoSession
                      THEN x.sessions \cup {sid} ELSE x.sessions
  <2>1. sid # NoSession =>
            g \in Client /\ g.spurious = x.spurious
            /\ g.sessions = x.sessions \cup {sid}
    BY <1>1 DEF Client, SessionOrNone
  <2>2. y = IF q.method = "SETUP" /\ sid # NoSession /\ sid \notin x.sessions
            THEN g ELSE x
    BY DEF get_session_add
  <2> HIDE DEF g, y
  <2> QED BY <1>1, <2>1, <2>2
<1> HIDE DEF y
<1>4. k \in Client /\ k.spurious = y.spurious /\ k.sessions = y.sessions
  BY <1>3 DEF Client
<1> HIDE DEF k
<1>5. z.spurious = y.spurious /\ z.sessions = y.sessions
  BY <1>4 DEF Client
<1> HIDE DEF z
<1> QED BY <1>1, <1>2, <1>3, <1>5 DEF x

\* A callback that is owed is not spurious.
LEMMA CallbackView ==
    ASSUME NEW c \in Client, NEW n
    PROVE  LET d == Callback(c, n)
           IN  /\ n \in c.owed => d.spurious = c.spurious
               /\ d.sessions = c.sessions
BY DEF Callback, Client

\* Nor is that of a TEARDOWN, which a TEARDOWN of the client's own skips.
LEMMA TeardownView ==
    ASSUME NEW c, NEW q, NEW sid, Completing(c, q, sid), q.method = "TEARDOWN",
           Sound(c), c.is_pending,
           NEW d, Freed(c, d), d.owed = c.owed, d.is_internal = c.is_internal,
           d.internal_teardown = c.internal_teardown,
           d.spurious = c.spurious, d.sessions = c.sessions
    PROVE  LET e == teardown_request_complete(d, q, sid)
           IN  ~e.spurious /\ e.sessions = c.sessions
<1> DEFINE x == Callback(d, q.cseq)
           y == [x EXCEPT !.is_internal = FALSE]
           z == IF sid \in d.internal_teardown THEN d ELSE y
           f == [z.medias EXCEPT ![sid] = z.medias[sid] \ {q.media}]
           w == [z EXCEPT !.medias = f]
           p == Forget(d, q.cseq)
<1>1. teardown_request_complete(d, q, sid) =
          IF sid \notin d.sessions THEN IF d.is_internal THEN d ELSE y
          ELSE IF UnknownMedia(d, q, sid) THEN p ELSE w
  BY DEF teardown_request_complete
<1>2. ~d.spurious
  BY DEF Sound
<1>3. \/ q.cseq \in d.owed
      \/ /\ sid \notin d.sessions => d.is_internal
         /\ sid \in d.sessions => sid \in d.internal_teardown
  <2>1. CASE c.owed = {}
    <3>1. q.session \in SessionIds /\ sid = q.session
      BY <2>1, ClientAssumption DEF Sound, Completing
    <3> QED BY <2>1, <3>1 DEF Sound, Completing
  <2>2. CASE c.owed # {}
    BY <2>2 DEF Completing, Good, Slot
  <2> QED BY <2>1, <2>2
<1>4. p.spurious = d.spurious /\ p.sessions = d.sessions
  BY DEF Forget, Freed, Client
<1>5. /\ x \in Client /\ x.sessions = d.sessions
      /\ q.cseq \in d.owed => x.spurious = d.spurious
  BY CallbackView, CallbackFreed DEF Freed
<1> HIDE DEF x, p
<1>6. y \in Client /\ y.spurious = x.spurious /\ y.sessions = x.sessions
  BY <1>5 DEF Client
<1> HIDE DEF y
<1>7. /\ z \in Client /\ z.sessions = c.sessions
      /\ sid \in d.sessions => ~z.spurious
  BY <1>2, <1>3, <1>5, <1>6 DEF Freed
<1> HIDE DEF z, f
<1>8. w.spurious = z.spurious /\ w.sessions = z.sessions
  BY <1>7 DEF Client
<1> HIDE DEF w
<1> QED BY <1>1, <1>2, <1>3, <1>4, <1>5, <1>6, <1>7, <1>8

\* The completion of the request in the slot ends it.
LEMMA CompletedView ==
    ASSUME SomeSession, NEW c, NEW resp \in Response,
           Completing(c, c.request, SessionOf(c.request, resp)), NEW status,
           Sound(c), c.is_pending
    PROVE  Ended(c, Completed(c, resp, status))
<1> DEFINE q == c.request
           sid == SessionOf(q, resp)
           d == SessionAlive(ClearSlot(c), q, sid)
           b == Callback(d, q.cseq)
           e == Completed(c, resp, status)
           more == IF q.method = "SETUP" /\ sid # NoSession THEN {sid} ELSE {}
           Fine(x) == ~x.spurious /\ x.sessions = c.sessions \cup more
<1>1. Good(c) /\ sid \in SessionOrNone
  BY DEF Completing
<1>2. /\ Freed(c, d) /\ d.owed = c.owed /\ d.is_internal = c.is_internal
      /\ d.internal_teardown = c.internal_teardown /\ d.medias = c.medias
  BY <1>1, SessionAliveFreed
<1>3. d.spurious = c.spurious /\ Fine(d)
  <2>1. /\ d.spurious = c.spurious
        /\ d.sessions = IF q.method = "SETUP" /\ sid # NoSession
                        THEN c.sessions \cup {sid} ELSE c.sessions
    BY <1>1, SessionAliveView
  <2> HIDE DEF d, sid
  <2> QED BY <2>1 DEF Sound
<1>4. Freed(c, e) /\ e.owed = {}
  BY CompletedFreed
<1>5. \/ q.cseq \in d.owed
      \/ d.owed = {} /\ q.method \in {"GET_PARAMETER", "TEARDOWN"}
  BY <1>1, <1>2 DEF Good, Slot, Sound
<1>6. q.cseq \in d.owed => Fine(b)
  BY <1>2, <1>3, CallbackView DEF Freed
<1>7. SUFFICES Fine(e)
  <2>1. /\ ~e.is_pending /\ e.owed = {} /\ e.cseq = c.cseq /\ ~e.spurious
        /\ e.sessions = c.sessions \cup more
    BY <1>4, <1>7 DEF Freed
  <2>2. more # {} => sid \in SessionIds /\ more = {sid} /\ c.owed # {}
    BY <1>1, <1>2, <1>5 DEF SessionOrNone
  <2> SUFFICES Ended(c, e)
    OBVIOUS
  <2> HIDE DEF e, more, sid
  <2>3. CASE more = {}
    <3> PICK s \in SessionIds : TRUE
      BY DEF SomeSession
    <3> QED BY <2>1, <2>3 DEF Ended
  <2>4. CASE more # {}
    BY <2>1, <2>2, <2>4 DEF Ended
  <2> QED BY <2>3, <2>4
<1> HIDE DEF more
<1>8. CASE q.method = "OPTIONS"
  <2> DEFINE o == [d EXCEPT !.methods_allowed = resp.public]
  <2>1. e = Callback(o, q.cseq)
    BY <1>8 DEF Completed, Methods, SessionlessMethods, SessionMethods
  <2> HIDE DEF d, e
  <2>2. /\ o \in Client /\ o.owed = d.owed
        /\ o.spurious = d.spurious /\ o.sessions = d.sessions
    BY <1>2 DEF Freed, Client, Response
  <2> HIDE DEF o
  <2> QED BY <1>3, <1>5, <1>8, <2>1, <2>2, CallbackView
<1>9. CASE q.method = "SETUP"
  <2> DEFINE f == [b.medias EXCEPT ![sid] = b.medias[sid] \cup {q.media}]
             g == [b EXCEPT !.medias = f]
  <2>1. e = IF status = "OK" /\ sid \in d.sessions THEN g ELSE b
    BY <1>9 DEF Completed, setup_request_complete, Methods, SessionlessMethods,
           SessionMethods
  <2>2. b \in Client
    BY <1>2, CallbackFreed DEF Freed
  <2> HIDE DEF b, e, f
  <2>3. g.spurious = b.spurious /\ g.sessions = b.sessions
    BY <2>2 DEF Client
  <2> HIDE DEF g, d
  <2> QED BY <1>5, <1>6, <1>9, <2>1, <2>3
<1>10. CASE q.method = "TEARDOWN"
  <2>1. e = teardown_request_complete(d, q, sid) /\ more = {}
    BY <1>10 DEF Completed, Methods, SessionlessMethods, SessionMethods, more
  <2> HIDE DEF d, e
  <2>2. Completing(c, q, sid) /\ q.method = "TEARDOWN"
    BY <1>10
  <2>3. d.sessions = c.sessions
    BY <1>3, <2>1
  <2>4. ~e.spurious /\ e.sessions = c.sessions
    BY <1>2, <1>3, <2>1, <2>2, <2>3, TeardownView
  <2> QED BY <2>1, <2>4
<1>11. CASE q.method = "GET_PARAMETER"
  <2> DEFINE f == [d.failed_keep_alive EXCEPT ![sid] = 0]
             k == [d EXCEPT !.failed_keep_alive = f]
  <2>1. e = IF sid \in d.sessions /\ status # "TIMEOUT" THEN k ELSE d
    BY <1>11 DEF Completed, Methods, SessionlessMethods, SessionMethods
  <2> HIDE DEF d, e, f
  <2>2. k.spurious = d.spurious /\ k.sessions = d.sessions
    BY <1>2 DEF Freed, Client
  <2> HIDE DEF k
  <2> QED BY <1>3, <2>1, <2>2
<1>12. CASE q.method \in {"DESCRIBE", "ANNOUNCE", "PLAY", "PAUSE", "RECORD"}
  <2>1. e = b
    BY <1>12 DEF Completed, Methods, SessionlessMethods, SessionMethods
  <2> HIDE DEF b, d, e
  <2> QED BY <1>5, <1>6, <1>12, <2>1
<1>13. CASE q.method \notin Methods
  <2>1. e = d
    BY <1>13 DEF Completed, Methods, SessionlessMethods, SessionMethods
  <2> HIDE DEF d, e
  <2> QED BY <1>3, <2>1
<1>14. \/ q.method \in {"OPTIONS", "SETUP", "TEARDOWN", "GET_PARAMETER"}
       \/ q.method \in {"DESCRIBE", "ANNOUNCE", "PLAY", "PAUSE", "RECORD"}
       \/ q.method \notin Methods
  BY DEF Methods, SessionlessMethods, SessionMethods
<1> QED BY <1>8, <1>9, <1>10, <1>11, <1>12, <1>13, <1>14

\* d differs from c in nothing the application sees or the slot depends on.
Unseen(c, d) == Same(c, d) /\ d.spurious = c.spurious

\* Sound and Ended do not depend on the rest.
LEMMA UnseenViews ==
    ASSUME NEW c, NEW d, Unseen(c, d)
    PROVE  /\ Sound(c) => Sound(d)
           /\ \A e : Ended(d, e) => Ended(c, e)
           /\ \A e : Ended(e, c) => Ended(e, d)
           /\ Quieter(c, d)
BY DEF Unseen, Same, Sound, Ended, Quieter

\* With a free slot there is nothing to end.
LEMMA IdleEnded ==
    ASSUME SomeSession, NEW c, Good(c), Sound(c), ~c.is_pending,
           NEW d, Quieter(c, d)
    PROVE  Ended(c, d)
<1>1. c.owed = {}
  BY DEF Good, Slot
<1>2. PICK s \in SessionIds : TRUE
  BY DEF SomeSession
<1> QED BY <1>1, <1>2 DEF Quieter, Ended, Sound

\* Ending twice is ending once: nothing is owed any more.
LEMMA EndedTrans ==
    ASSUME NEW c, NEW d, NEW e, Ended(c, d), Ended(d, e)
    PROVE  Ended(c, e)
BY DEF Ended

\* request_complete() with a status other than TIMEOUT.
LEMMA CompleteView ==
    ASSUME SomeSession, NEW c, Good(c), Sound(c), NEW resp \in Response,
           NEW status,
           c.request.session # NoSession =>
               resp.session \in {c.request.session, NoSession}
    PROVE  Ended(c, request_complete(c, resp, status))
<1> DEFINE q == c.request
           sid == SessionOf(q, resp)
           final == IF status = "OK" /\ resp.code # "2xx" THEN "FAILED"
                    ELSE status
           d == Completed(c, resp, final)
           e == IF SessionRemoved(c, resp)
                THEN remove_session_internal(d, sid) ELSE d
           f == [e EXCEPT !.failed_requests = 0]
<1>1. CASE ~c.is_pending
  <2>1. request_complete(c, resp, status) = c /\ Quieter(c, c)
    BY <1>1 DEF request_complete, Quieter
  <2> QED BY <1>1, <2>1, IdleEnded
<1>2. CASE c.is_pending
  <2>1. request_complete(c, resp, status) = f
    BY <1>2 DEF request_complete
  <2>2. Completing(c, q, sid)
    BY DEF Completing, SessionOf, Good, Client, Request, Response
  <2>3. Ended(c, d) /\ Freed(c, d) /\ d.owed = {}
    BY <1>2, <2>2, CompletedView, CompletedFreed
  <2> HIDE DEF d, sid
  <2>4. Good(d)
    BY <2>3, FreedGood
  <2>5. e \in Client /\ Ended(c, e)
    BY <2>3, <2>4, RemoveQuiet, RemoveSessionInternal, EndedSound DEF Good
  <2> HIDE DEF e
  <2>6. Unseen(e, f)
    BY <2>5 DEF Client, Unseen, Same
  <2> QED BY <2>1, <2>5, <2>6, UnseenViews
<1> QED BY <1>1, <1>2

\* request_complete() with status ABORTED.
LEMMA AbortView ==
    ASSUME SomeSession, NEW c, Good(c), Sound(c)
    PROVE  Ended(c, abort_request(c))
BY DummyResponse, CompleteView DEF abort_request

\* set_connection_state() ends nothing more.
LEMMA SetStateEnded ==
    ASSUME NEW c, NEW d, Good(d), Ended(c, d), NEW st
    PROVE  Ended(c, set_connection_state(d, st))
BY SetStateQuiet, EndedSound DEF Good

\* The DISCONNECTED event ends the request.
LEMMA EventDisconnectedView ==
    ASSUME SomeSession, NEW c, Good(c), Sound(c),
           c.is_pending => c.conn_state \in {"CONNECTED", "DISCONNECTING"}
    PROVE  Ended(c, event_disconnected(c))
<1> DEFINE x == [c EXCEPT !.sock = FALSE, !.wire = {}]
           y == [x EXCEPT !.remote = FALSE]
           d == event_disconnected(c)
<1>1. Good(x) /\ Sound(x) /\ Unseen(c, x)
  <2>1. x \in Client /\ Unseen(c, x)
    BY DEF Good, Client, Unseen, Same
  <2> HIDE DEF x
  <2> QED BY <2>1, UnseenViews, SameGood DEF Unseen
<1>2. d = CASE c.conn_state = "DISCONNECTING" ->
                 set_connection_state(abort_request(y), "DISCONNECTED")
            [] c.conn_state = "CONNECTED" ->
                 set_connection_state(abort_request(x), "CONNECTING")
            [] c.conn_state \notin {"CONNECTED", "DISCONNECTING"} -> x
  BY DEF event_disconnected
<1> HIDE DEF x
<1>3. Good(y) /\ Sound(y) /\ Unseen(x, y)
  <2>1. y \in Client /\ Unseen(x, y)
    BY <1>1 DEF Good, Client, Unseen, Same
  <2> HIDE DEF y
  <2> QED BY <1>1, <2>1, UnseenViews, SameGood DEF Unseen
<1> HIDE DEF y
<1>4. Ended(c, set_connection_state(abort_request(y), "DISCONNECTED"))
  BY <1>1, <1>3, AbortView, AbortRequestGood, UnseenViews, SetStateEnded
<1>5. Ended(c, set_connection_state(abort_request(x), "CONNECTING"))
  BY <1>1, AbortView, AbortRequestGood, UnseenViews, SetStateEnded
<1>6. ~c.is_pending => Ended(c, x)
  BY <1>1, UnseenViews, IdleEnded
<1> QED BY <1>2, <1>4, <1>5, <1>6

\* So does stopping the transport client.
LEMMA TsktClientStopView ==
    ASSUME SomeSession, NEW c, Good(c), Sound(c),
           c.is_pending => /\ c.tskt = "connected"
                           /\ c.conn_state \in {"CONNECTED", "DISCONNECTING"}
    PROVE  Ended(c, tskt_client_stop(c))
<1> DEFINE x == [c EXCEPT !.tskt = "stopped"]
<1>1. tskt_client_stop(c) = IF c.tskt = "connected" THEN event_disconnected(x)
                            ELSE x
  BY DEF tskt_client_stop
<1>2. Good(x) /\ Sound(x) /\ Unseen(c, x) /\ x.conn_state = c.conn_state
  <2>1. x \in Client /\ Unseen(c, x) /\ x.conn_state = c.conn_state
    BY DEF Good, Client, Unseen, Same
  <2> HIDE DEF x
  <2> QED BY <2>1, UnseenViews, SameGood DEF Unseen
<1> HIDE DEF x
<1>3. x.is_pending = c.is_pending
  BY <1>2 DEF Unseen, Same
<1>4. CASE c.tskt = "connected"
  BY <1>1, <1>2, <1>3, <1>4, EventDisconnectedView, UnseenViews
<1>5. CASE c.tskt # "connected"
  BY <1>1, <1>2, <1>5, UnseenViews, IdleEnded
<1> QED BY <1>4, <1>5

\* The request in the slot of c ends, or it was the client's own and the
\* client sends another.
After(c, d) ==
    /\ Sound(d)
    /\ \/ Ended(c, d)
       \/ /\ c.owed = {} /\ d.owed = {} /\ d.cseq = c.cseq + 1
          /\ d.sessions \subseteq c.sessions

\* request_complete() with status TIMEOUT, up to the reconnection.
LEMMA RequestTimeoutView ==
    ASSUME SomeSession, NEW c, Good(c), Sound(c), Connection(c), c.is_pending,
           NEW connect_ok \in BOOLEAN
    PROVE  LET d == request_timeout(c, "OK", connect_ok)
           IN  After(c, d) /\ d.conn_state \in {c.conn_state, "CONNECTING"}
<1> DEFINE q == c.request
           resp == Dummy(c)
           sid == q.session
           d == Completed(c, resp, "TIMEOUT")
           r == remove_session_internal(d, sid)
           e == IF q.method = "GET_PARAMETER" /\ sid \in d.sessions
                THEN keep_alive_timeout(d, sid, "OK")
                ELSE IF SessionRemoved(c, resp) THEN r ELSE d
           f == [e EXCEPT !.failed_requests = @ + 1]
           g == tskt_client_stop(f)
           h == set_connection_state(g, "CONNECTING")
           i == [h EXCEPT !.tskt = IF connect_ok THEN "connecting" ELSE @]
<1>1. request_timeout(c, "OK", connect_ok) =
          IF f.failed_requests < MaxFailedRequests THEN f ELSE i
  BY DEF request_timeout
<1>2. Good(d) /\ SameConn(c, d) /\ Ended(c, d)
  <2>1. resp \in Response /\ SessionOf(q, resp) = sid /\ sid \in SessionOrNone
    BY DummyResponse DEF SessionOf, Good, Client, Request
  <2>2. Completing(c, q, SessionOf(q, resp))
    BY <2>1 DEF Completing
  <2>3. Freed(c, d) /\ d.owed = {} /\ Ended(c, d)
    BY <2>1, <2>2, CompletedFreed, CompletedView
  <2> HIDE DEF d
  <2> QED BY <2>3, FreedGood DEF Freed
<1> HIDE DEF d, sid
<1>3. Good(e) /\ SameConn(c, e) /\ After(c, e)
  <2>1. CASE q.method = "GET_PARAMETER" /\ sid \in d.sessions
    <3> DEFINE k == keep_alive_timeout(d, sid, "OK")
    <3>1. ~d.is_pending /\ Sound(d)
      BY <1>2, EndedSound DEF Ended
    <3>2. Local(d, k) /\ (Quieter(d, k) \/ Own(d, k))
      BY <1>2, <2>1, <3>1, KeepAliveTimeoutGood, KeepAliveTimeoutView
    <3>3. c.owed = {}
      BY <2>1 DEF Good, Slot
    <3> HIDE DEF k
    <3>4. Sound(k)
      BY <3>1, <3>2, QuieterSound, OwnSound
    <3>5. e = k
      BY <2>1 DEF k
    <3>6. Good(k) /\ SameConn(c, k)
      BY <1>2, <3>2 DEF Local, SameConn
    <3>7. After(c, k)
      BY <1>2, <3>2, <3>3, <3>4, EndedSound DEF Own, After, Ended
    <3> QED BY <3>5, <3>6, <3>7
  <2>2. CASE ~(q.method = "GET_PARAMETER" /\ sid \in d.sessions)
    <3>1. Good(r) /\ SameConn(d, r) /\ Ended(c, r)
      BY <1>2, RemoveSessionInternal, RemoveQuiet, EndedSound DEF Good
    <3>2. e = r \/ e = d
      BY <2>2
    <3> HIDE DEF r, e
    <3> QED BY <1>2, <3>1, <3>2, EndedSound DEF After, SameConn
  <2> QED BY <2>1, <2>2
<1> HIDE DEF e
<1>4. Good(f) /\ SameConn(c, f) /\ After(c, f)
  <2>1. e \in Client /\ e.failed_requests + 1 \in Nat
    BY <1>3 DEF Good, Client
  <2>2. f \in Client
    BY <2>1 DEF Client
  <2>3. Unseen(e, f) /\ SameConn(e, f)
    BY <2>1 DEF Client, Unseen, Same, SameConn
  <2> HIDE DEF f
  <2>4. Good(f) /\ SameConn(c, f)
    BY <1>3, <2>2, <2>3, SameGood DEF Unseen, SameConn
  <2> QED BY <1>3, <2>3, <2>4, UnseenViews DEF After, Unseen, Same
<1> HIDE DEF f
<1>5. Good(g) /\ Ended(f, g)
  <2>1. f.tskt = "connected" /\ f.conn_state = "CONNECTED"
    BY <1>4 DEF Connection, SameConn
  <2> QED BY <1>4, <2>1, TsktClientStopGood, TsktClientStopView DEF After
<1> HIDE DEF g
<1>6. Good(h) /\ Ended(f, h) /\ h.conn_state = "CONNECTING"
  <2>1. "CONNECTING" \in States
    BY DEF States
  <2> QED BY <1>5, <2>1, SetState, SetStateEnded
<1> HIDE DEF h
<1>7. Ended(f, i) /\ i.conn_state = "CONNECTING"
  <2>1. Unseen(h, i) /\ i.conn_state = h.conn_state
    BY <1>6 DEF Good, Client, Unseen, Same
  <2> HIDE DEF i
  <2> QED BY <1>6, <2>1, UnseenViews
<1> HIDE DEF i
<1>8. After(c, i)
  <2>1. Sound(i)
    BY <1>7, EndedSound
  <2>2. CASE Ended(c, f)
    BY <1>7, <2>1, <2>2, EndedTrans DEF After
  <2>3. CASE ~Ended(c, f)
    BY <1>4, <1>7, <2>1, <2>3 DEF After, Ended
  <2> QED BY <2>2, <2>3
<1> QED BY <1>1, <1>4, <1>7, <1>8 DEF SameConn

\* rtsp_client_disconnect() ends the request and all sessions.
LEMMA DisconnectView ==
    ASSUME SomeSession, NEW c, Good(c), Sound(c), Connection(c)
    PROVE  LET d == rtsp_client_disconnect(c)
           IN  \/ /\ c.conn_state \in {"CONNECTING", "CONNECTED"}
                  /\ Ended(c, d) /\ d.sessions = {}
                  /\ d.conn_state = "DISCONNECTED"
               \/ d = c
<1> DEFINE x == set_connection_state(c, "DISCONNECTING")
           d == tskt_client_stop(x)
           y == [d EXCEPT !.remote = FALSE]
           a == abort_request(y)
           z == set_connection_state(a, "DISCONNECTED")
           e == IF c.conn_state = "CONNECTING" THEN z ELSE d
           f == remove_all_sessions(e)
<1>1. CASE c.conn_state \in {"DISCONNECTED", "DISCONNECTING", "DESTROYED"}
  BY <1>1 DEF rtsp_client_disconnect
<1>2. CASE c.conn_state \notin {"DISCONNECTED", "DISCONNECTING", "DESTROYED"}
  <2>0. c.conn_state \in {"CONNECTING", "CONNECTED"}
    BY <1>2 DEF Good, Client, States
  <2>1. rtsp_client_disconnect(c) = f
    BY <1>2 DEF rtsp_client_disconnect
  <2>2. {"DISCONNECTING", "DISCONNECTED"} \subseteq States
    BY DEF States
  <2>3. /\ Good(x) /\ Quieter(c, x) /\ x.sessions = c.sessions
        /\ x.conn_state = "DISCONNECTING" /\ x.tskt = c.tskt
    BY <2>2, SetState, SetStateQuiet DEF Good
  <2>4. Sound(x) /\ \A v : Ended(x, v) => Ended(c, v)
    BY <2>3, QuieterSound DEF Quieter, Ended
  <2> HIDE DEF x
  <2>5. x.is_pending => x.tskt = "connected"
    BY <2>3 DEF Connection, Quieter
  <2>6. /\ Good(d) /\ Ended(c, d)
        /\ c.conn_state = "CONNECTED" => d.conn_state = "DISCONNECTED"
    BY <2>3, <2>4, <2>5, TsktClientStopGood, TsktClientStopView DEF Connection
  <2> HIDE DEF d
  <2>7. Good(y) /\ Ended(c, y) /\ Sound(y)
    <3>1. y \in Client /\ Unseen(d, y)
      BY <2>6 DEF Good, Client, Unseen, Same
    <3> HIDE DEF y
    <3> QED BY <2>6, <3>1, UnseenViews, SameGood, EndedSound DEF Unseen
  <2> HIDE DEF y
  <2>8. Good(a) /\ Ended(c, a)
    BY <2>7, AbortRequestGood, AbortView, EndedTrans
  <2> HIDE DEF a
  <2>9. Good(z) /\ Ended(c, z) /\ z.conn_state = "DISCONNECTED"
    BY <2>2, <2>8, SetState, SetStateEnded
  <2> HIDE DEF z
  <2>10. Good(e) /\ Ended(c, e) /\ e.conn_state = "DISCONNECTED"
    BY <2>0, <2>6, <2>9
  <2> HIDE DEF e
  <2>11. Ended(c, f) /\ f.sessions = {} /\ f.conn_state = "DISCONNECTED"
    BY <2>10, RemoveAllQuiet, RemoveAllSessions, EndedSound DEF Good, SameConn
  <2> QED BY <2>0, <2>1, <2>11
<1> QED BY <1>1, <1>2

(***************************************************************************)
(* Steps of the promise                                                    *)
(***************************************************************************)

Hypotheses == OneLookup /\ AlwaysSent /\ SomeSession

\* A step of the client that keeps its promise.
Promised ==
    /\ Sound(client') /\ Over(client')
    /\ [Promise!Next]_(Promise!vars)

\* Nothing the application sees changes.
LEMMA UnseenPromised ==
    ASSUME Sound(client), Quieter(client, client'),
           client'.conn_state = client.conn_state, Over(client')
    PROVE  Promised
<1>1. Sound(client')
  BY QuieterSound
<1>2. Promise!SessionLost
  BY DEF Promise!SessionLost, Quieter
<1> QED BY <1>1, <1>2 DEF Promised, Promise!Next

\* The end of the request of the application, or of the client's own.
LEMMA EndedPromised ==
    ASSUME Ended(client, client'), client'.conn_state = client.conn_state,
           Over(client')
    PROVE  Promised
<1>1. Sound(client')
  BY EndedSound
<1>2. Promise!RequestEnds
  BY DEF Promise!RequestEnds, Promise!EndOfRequest, Ended
<1> QED BY <1>1, <1>2 DEF Promised, Promise!Next

\* The client is disconnected or destroyed.
LEMMA ClosedPromised ==
    ASSUME Ended(client, client'), client'.sessions = {},
           client.conn_state \in {"CONNECTING", "CONNECTED", "DISCONNECTED"},
           client'.conn_state \in {"DISCONNECTED", "DESTROYED"}, Over(client')
    PROVE  Promised
<1>1. Sound(client')
  BY EndedSound
<1>2. Promise!Ends
  BY DEF Promise!Ends, Ended
<1> QED BY <1>1, <1>2 DEF Promised, Promise!Next

\* A timeout ends the request, sends another one, or closes the connection.
LEMMA AfterPromised ==
    ASSUME After(client, client'), client.conn_state = "CONNECTED",
           client'.conn_state \in {"CONNECTED", "CONNECTING"},
           SomeSession
    PROVE  Promised
<1>1. Sound(client') /\ Over(client')
  BY DEF After, Over
<1>2. CASE Ended(client, client') /\ client'.conn_state = "CONNECTED"
  <2>1. Promise!RequestEnds
    BY <1>2 DEF Promise!RequestEnds, Promise!EndOfRequest, Ended
  <2> QED BY <1>1, <2>1 DEF Promised, Promise!Next
<1>3. CASE Ended(client, client') /\ client'.conn_state = "CONNECTING"
  <2>1. Promise!Lost
    BY <1>3 DEF Promise!Lost, Promise!EndOfRequest, Ended
  <2> QED BY <1>1, <2>1 DEF Promised, Promise!Next
<1>4. CASE ~Ended(client, client') /\ client'.conn_state = "CONNECTED"
  <2>1. Promise!OwnRequest
    BY <1>4 DEF Promise!OwnRequest, After
  <2> QED BY <1>1, <2>1 DEF Promised, Promise!Next
<1>5. CASE ~Ended(client, client') /\ client'.conn_state = "CONNECTING"
  <2>1. PICK s \in SessionIds : TRUE
    BY DEF SomeSession
  <2>2. Promise!Lost
    BY <1>5, <2>1 DEF Promise!Lost, Promise!EndOfRequest, After
  <2> QED BY <1>1, <2>2 DEF Promised, Promise!Next
<1> QED BY <1>2, <1>3, <1>4, <1>5

(***************************************************************************)
(* The actions                                                             *)
(***************************************************************************)

Kept == IInv /\ Sound(client) /\ Over(client)

\* rtsp_client_connect()
LEMMA ConnectPromised ==
    ASSUME Kept, NEW res, Connect(res) PROVE Promised
<1> DEFINE c == client
           x == set_connection_state(c, "CONNECTING")
           y == [x EXCEPT !.remote = TRUE, !.resolv_timer = TRUE,
                          !.lookups = @ + 1]
           z == [c EXCEPT !.remote = FALSE,
                          !.resolv_timer = @ \/ res = "ERESOLV"]
<1>1. client' = IF res = "OK" THEN y ELSE z
  BY DEF Connect, Becomes
<1>2. Good(c) /\ c.conn_state = "DISCONNECTED"
  BY DEF Kept, IInv, Connect
<1>3. /\ Good(x) /\ Quieter(c, x) /\ x.sessions = c.sessions
      /\ x.conn_state = "CONNECTING"
  <2>1. "CONNECTING" \in States
    BY DEF States
  <2> QED BY <1>2, <2>1, SetState, SetStateQuiet DEF Good
<1> HIDE DEF x
<1>4. CASE res = "OK"
  <2>1. Unseen(x, y) /\ y.conn_state = x.conn_state
    BY <1>3 DEF Good, Client, Unseen, Same
  <2> HIDE DEF y
  <2>2. client' = y
    BY <1>1, <1>4
  <2>3. Sound(client') /\ Over(client')
    BY <1>3, <2>1, <2>2, QuieterSound, UnseenViews DEF Kept, Over
  <2>4. Promise!Connect
    BY <1>2, <1>3, <2>1, <2>2 DEF Promise!Connect, Unseen, Same, Quieter
  <2> QED BY <2>3, <2>4 DEF Promised, Promise!Next
<1>5. CASE res # "OK"
  <2>1. Unseen(c, z) /\ z.conn_state = c.conn_state
    BY <1>2 DEF Good, Client, Unseen, Same
  <2> HIDE DEF z
  <2> QED BY <1>1, <1>2, <1>5, <2>1, UnseenViews, UnseenPromised DEF Kept, Over
<1> QED BY <1>4, <1>5

\* tskt_resolv_cb(): a late failure ends nothing that has begun.
LEMMA ResolvDonePromised ==
    ASSUME SomeSession, Kept, NEW ok \in BOOLEAN, ResolvDone(ok) PROVE Promised
<1> DEFINE c == client
           x == [c EXCEPT !.lookups = @ - 1, !.resolv_timer = FALSE]
           y == [x EXCEPT !.tskt = "connecting"]
           z == set_connection_state(x, "DISCONNECTED")
<1>1. client' = IF ok THEN y ELSE z
  BY DEF ResolvDone, Becomes
<1>2. Good(c) /\ Sound(c) /\ Connection(c) /\ c.lookups > 0
  BY DEF Kept, IInv, ResolvDone
<1>3. c.conn_state \in {"CONNECTING", "DISCONNECTED"} /\ c.sessions = {}
  BY <1>2 DEF Kept, Over, Connection, Good, Client, States
<1>4. ~c.is_pending
  BY <1>2, <1>3 DEF Connection
<1>5. x \in Client /\ Unseen(c, x) /\ x.conn_state = c.conn_state
  <2>1. c \in Client /\ c.lookups - 1 \in Nat
    BY <1>2 DEF Good, Client
  <2> QED BY <2>1 DEF Client, Unseen, Same
<1> HIDE DEF x
<1>6. Good(x) /\ Sound(x) /\ Ended(c, x) /\ x.sessions = {}
  BY <1>2, <1>3, <1>4, <1>5, SameGood, UnseenViews, IdleEnded DEF Unseen, Same
<1>7. CASE ok
  <2>1. Unseen(x, y) /\ y.conn_state = x.conn_state
    BY <1>5 DEF Client, Unseen, Same
  <2> HIDE DEF y
  <2>2. Quieter(c, y)
    BY <1>5, <2>1, UnseenViews, QuieterTrans
  <2> QED BY <1>1, <1>2, <1>3, <1>5, <1>7, <2>1, <2>2, UnseenPromised DEF Over
<1>8. CASE ~ok
  <2>1. "DISCONNECTED" \in States
    BY DEF States
  <2>2. Ended(c, z) /\ z.sessions = {} /\ z.conn_state = "DISCONNECTED"
    BY <1>6, <2>1, SetState, SetStateEnded
  <2> HIDE DEF z
  <2> QED BY <1>1, <1>3, <1>8, <2>2, ClosedPromised DEF Over
<1> QED BY <1>7, <1>8

\* rtsp_client_disconnect(), by the application or resolv_timer_cb().
LEMMA DisconnectPromised ==
    ASSUME SomeSession, Sound(client), NEW c, Good(c), Connection(c), Over(c),
           Unseen(client, c), c.conn_state = client.conn_state,
           client' = rtsp_client_disconnect(c)
    PROVE  Promised
<1>1. Sound(c)
  BY UnseenViews
<1> DEFINE d == rtsp_client_disconnect(c)
<1>2. \/ /\ c.conn_state \in {"CONNECTING", "CONNECTED"}
         /\ Ended(c, d) /\ d.sessions = {} /\ d.conn_state = "DISCONNECTED"
      \/ d = c
  BY <1>1, DisconnectView
<1> HIDE DEF d
<1>3. CASE d = c
  BY <1>3, UnseenViews, UnseenPromised DEF d
<1>4. CASE d # c
  <2>1. Ended(client, d) /\ Over(d)
    BY <1>2, <1>4, UnseenViews DEF Over
  <2> QED BY <1>2, <1>4, <2>1, ClosedPromised DEF d
<1> QED BY <1>3, <1>4

\* resolv_timer_cb()
LEMMA ResolvTimeoutPromised ==
    ASSUME SomeSession, Kept, ResolvTimeout PROVE Promised
<1> DEFINE c == client
           n == IF c.lookups > 0 THEN c.lookups - 1 ELSE c.lookups
           x == [c EXCEPT !.resolv_timer = FALSE, !.lookups = n]
<1>1. client' = rtsp_client_disconnect(x)
  BY DEF ResolvTimeout, Becomes
<1>2. Good(c) /\ Connection(c) /\ Sound(c) /\ Over(c)
  BY DEF Kept, IInv
<1>3. /\ c \in Client /\ n \in Nat /\ (n > 0 => c.lookups > 0) /\ n <= 1
      /\ c.lookups = 0 => n = 0
  BY <1>2 DEF Good, Client, Connection
<1> HIDE DEF n
<1>4. x \in Client
  BY <1>3 DEF Client
<1>5. /\ Unseen(c, x) /\ x.conn_state = c.conn_state /\ x.sock = c.sock
      /\ x.tskt = c.tskt /\ x.lookups = n /\ x.remote = c.remote
  BY <1>3 DEF Client, Unseen, Same
<1> HIDE DEF x
<1>6. Good(x) /\ Over(x)
  BY <1>2, <1>3, <1>4, <1>5, SameGood DEF Unseen, Over
<1>7. Connection(x)
  BY <1>2, <1>3, <1>5 DEF Connection, Unseen, Same
<1> QED BY <1>1, <1>2, <1>5, <1>6, <1>7, DisconnectPromised

\* The keep-alives of the CONNECTED event: none fails, so the first session
\* that is ready takes the slot.
LEMMA KeepAliveAllView ==
    ASSUME NEW c, Good(c), c.conn_state = "CONNECTED", NEW first,
           first # NoSession => first \in c.sessions,
           first = NoSession => c.sessions \ c.keep_alive = {}
    PROVE  LET d == keep_alive_all(c, {}, first, "OK")
           IN  (Quieter(c, d) \/ Own(c, d)) /\ d.sessions = c.sessions
<1> DEFINE ready == IF Allowed(c, "GET_PARAMETER")
                    THEN c.sessions \ c.keep_alive ELSE {}
           later == IF c.is_pending THEN ready ELSE ready \ ({} \cup {first})
           d == [c EXCEPT !.timer = @ \cup later]
           k == send_keep_alive(d, first, "OK")
<1>1. \/ keep_alive_all(c, {}, first, "OK") = d
      \/ /\ keep_alive_all(c, {}, first, "OK") = k
         /\ first \in c.sessions
  BY DEF keep_alive_all
<1>2. later \subseteq c.sessions
  OBVIOUS
<1> HIDE DEF later
<1>3. /\ Good(d) /\ Quieter(c, d) /\ d.sessions = c.sessions
      /\ d.conn_state = c.conn_state
      /\ d.internal_teardown = c.internal_teardown
  <2>1. d \in Client
    BY <1>2 DEF Good, Client
  <2>2. /\ SameSlot(c, d) /\ d.sessions = c.sessions
        /\ Flags(d) /\ Quieter(c, d) /\ d.conn_state = c.conn_state
        /\ d.internal_teardown = c.internal_teardown
    BY <1>2 DEF Good, Client, SameSlot, Flags, Quieter
  <2> HIDE DEF d
  <2> QED BY <2>1, <2>2, SlotFrame DEF Good
<1> HIDE DEF d
<1>4. ASSUME first \in c.sessions
      PROVE  (Quieter(c, k) \/ Own(c, k)) /\ k.sessions = c.sessions
  <2>1. (Quieter(d, k) \/ Own(d, k)) /\ k.sessions = d.sessions
    BY <1>3, <1>4, KeepAliveView
  <2> HIDE DEF k
  <2> QED BY <1>3, <2>1 DEF Quieter, Own
<1> HIDE DEF k
<1> QED BY <1>1, <1>3, <1>4

\* TSKT_CLIENT_EVENT_CONNECTED
LEMMA SocketConnectedPromised ==
    ASSUME AlwaysSent, Kept, NEW failed, NEW first \in SessionOrNone,
           NEW res \in SendResults, SocketConnected(failed, first, res)
    PROVE  Promised
<1> DEFINE c == client
           x == [c EXCEPT !.sock = TRUE, !.tskt = "connected"]
           y == set_connection_state(x, "CONNECTED")
           z == keep_alive_all(y, {}, first, "OK")
<1>1. failed = {} /\ res = "OK"
  BY DEF SocketConnected, AlwaysSent
<1>2. client' = z
  BY <1>1 DEF SocketConnected, Becomes
<1>3. Good(c) /\ Connection(c) /\ Sound(c) /\ c.tskt = "connecting"
  BY DEF Kept, IInv, SocketConnected
<1>4. c.conn_state = "CONNECTING" /\ ~c.is_pending /\ c.owed = {}
  <2>1. c.conn_state = "CONNECTING" /\ ~c.is_pending
    BY <1>3 DEF Connection, Good, Client, States
  <2> QED BY <1>3, <2>1 DEF Good, Slot
<1>5. /\ first # NoSession => first \in c.sessions
      /\ first = NoSession => c.sessions \ c.keep_alive = {}
  BY <1>1 DEF SocketConnected
<1>6. Good(x) /\ Unseen(c, x) /\ x.keep_alive = c.keep_alive
  <2>1. x \in Client /\ Unseen(c, x) /\ x.keep_alive = c.keep_alive
    BY <1>3 DEF Good, Client, Unseen, Same
  <2> HIDE DEF x
  <2> QED BY <1>3, <2>1, SameGood DEF Unseen
<1> HIDE DEF x
<1>7. /\ Good(y) /\ Quieter(x, y) /\ y.sessions = x.sessions
      /\ y.conn_state = "CONNECTED" /\ y.keep_alive = x.keep_alive
  <2>1. "CONNECTED" \in States
    BY DEF States
  <2>2. y.keep_alive = x.keep_alive
    BY <1>6 DEF set_connection_state, Good, Client
  <2> QED BY <1>6, <2>1, <2>2, SetState, SetStateQuiet DEF Good
<1> HIDE DEF y
<1>8. (Quieter(y, z) \/ Own(y, z)) /\ z.sessions = y.sessions
  BY <1>5, <1>6, <1>7, KeepAliveAllView DEF Unseen, Same
<1>9. z.conn_state = "CONNECTED"
  <2>1. {} \in SUBSET y.sessions /\ (first # NoSession => first \in y.sessions)
        /\ (first = NoSession => {} = y.sessions \ y.keep_alive)
    BY <1>5, <1>6, <1>7 DEF Unseen, Same
  <2>2. Local(y, z)
    BY <1>7, <2>1, KeepAliveAllGood
  <2> QED BY <1>7, <2>2 DEF Local, SameConn
<1> HIDE DEF z
<1>10. Sound(z) /\ Over(z)
  BY <1>3, <1>6, <1>7, <1>8, <1>9, UnseenViews, QuieterSound, OwnSound DEF Over
<1>11. /\ y.owed = {} /\ y.cseq = c.cseq
  BY <1>4, <1>6, <1>7 DEF Unseen, Same, Quieter
<1>12. z.owed = {} /\ z.cseq \in {c.cseq, c.cseq + 1} /\ z.sessions = c.sessions
  BY <1>6, <1>7, <1>8, <1>11 DEF Unseen, Same, Quieter, Own
<1>13. Promise!Connected
  BY <1>2, <1>4, <1>9, <1>12 DEF Promise!Connected
<1> QED BY <1>2, <1>10, <1>13 DEF Promised, Promise!Next

\* TSKT_CLIENT_EVENT_DISCONNECTED, by the network.
LEMMA SocketDisconnectedPromised ==
    ASSUME SomeSession, Kept, SocketDisconnected PROVE Promised
<1> DEFINE c == client
           x == [c EXCEPT !.tskt = "connecting"]
           y == event_disconnected(x)
<1>1. client' = y
  BY DEF SocketDisconnected, Becomes
<1>2. /\ Good(c) /\ Connection(c) /\ Sound(c)
      /\ c.conn_state = "CONNECTED"
  BY DEF Kept, IInv, SocketDisconnected, Connection
<1>3. Good(x) /\ Unseen(c, x) /\ x.conn_state = "CONNECTED"
  <2>1. x \in Client /\ Unseen(c, x) /\ x.conn_state = "CONNECTED"
    BY <1>2 DEF Good, Client, Unseen, Same
  <2> HIDE DEF x
  <2> QED BY <1>2, <2>1, SameGood DEF Unseen
<1> HIDE DEF x
<1>4. Ended(c, y) /\ y.conn_state = "CONNECTING"
  BY <1>2, <1>3, UnseenViews, EventDisconnectedView, EventDisconnectedGood
<1> HIDE DEF y
<1> QED BY <1>1, <1>2, <1>4, EndedSound, AfterPromised DEF After

\* rtsp_client_destroy()
LEMMA DestroyPromised ==
    ASSUME SomeSession, Kept, Destroy PROVE Promised
<1> DEFINE x == [client EXCEPT !.req_timer = FALSE]
           y == tskt_client_stop(x)
           c == remove_all_sessions(y)
           d == [c EXCEPT !.conn_state = "DESTROYED", !.lookups = 0,
                          !.resolv_timer = FALSE, !.remote = FALSE,
                          !.request = NoRequest]
<1>1. client' = d
  BY DEF Destroy, Becomes
<1>2. /\ Good(client) /\ Connection(client) /\ Sound(client)
      /\ client.conn_state \in {"CONNECTING", "CONNECTED", "DISCONNECTED"}
  BY DEF Kept, IInv, Destroy, Good, Connection, Client, States
<1>3. /\ Good(x) /\ Unseen(client, x) /\ x.tskt = client.tskt
      /\ x.conn_state = client.conn_state
  <2>1. /\ x \in Client /\ Unseen(client, x) /\ x.tskt = client.tskt
        /\ x.conn_state = client.conn_state
    BY <1>2 DEF Good, Client, Unseen, Same
  <2> HIDE DEF x
  <2> QED BY <1>2, <2>1, SameGood DEF Unseen
<1> HIDE DEF x
<1>4. x.is_pending => x.tskt = "connected" /\ x.conn_state = "CONNECTED"
  BY <1>2, <1>3 DEF Connection, Unseen, Same
<1>5. Good(y) /\ Ended(client, y)
  BY <1>2, <1>3, <1>4, UnseenViews, TsktClientStopGood, TsktClientStopView
<1> HIDE DEF y
<1>6. c \in Client /\ Ended(client, c) /\ c.sessions = {}
  BY <1>5, RemoveAllQuiet, RemoveAllSessions, EndedSound DEF Good
<1> HIDE DEF c
<1>7. /\ d.conn_state = "DESTROYED" /\ d.lookups = 0
      /\ d.is_pending = c.is_pending /\ d.sessions = c.sessions
      /\ d.owed = c.owed /\ d.cseq = c.cseq /\ d.spurious = c.spurious
  BY <1>6 DEF Client
<1> HIDE DEF d
<1>8. Ended(client, d) /\ Over(d)
  BY <1>6, <1>7 DEF Ended, Over
<1> QED BY <1>1, <1>2, <1>6, <1>7, <1>8, ClosedPromised

\* d is c after the application called for a request that is sent or refused.
Asked(c, d) ==
    /\ Requested(c, d) /\ d.spurious = c.spurious
    /\ d.cseq = c.cseq => Quieter(c, d)
    /\ d.cseq # c.cseq => d.cseq = c.cseq + 1

\* A request that is sent uses one CSeq.
LEMMA SendRequestView ==
    ASSUME NEW c, Good(c), NEW m \in Methods, NEW s \in SessionOrNone,
           NEW md \in MediaOrNone, NEW timed \in BOOLEAN
    PROVE  LET d == SendRequest(c, m, s, md, "OK", timed)
           IN  d.spurious = c.spurious /\ d.cseq = c.cseq + 1
<1> DEFINE b == clear_pending_keep_alive_timer(c)
           q == [method |-> m, cseq |-> c.cseq, session |-> s, media |-> md]
           w == TakeSlot(b, q)
           e == [w EXCEPT !.req_timer = timed \/ @, !.wire = @ \cup {q}]
<1>1. SendRequest(c, m, s, md, "OK", timed) = e
  BY DEF SendRequest
<1>2. /\ Good(b) /\ b.cseq = c.cseq /\ b.spurious = c.spurious
  BY ClearTimerGood, ClearTimerQuiet DEF Good, Quieter
<1> HIDE DEF b, q
<1>3. w.cseq = c.cseq + 1 /\ w.spurious = c.spurious
  BY <1>2, TakeSlotView DEF Good
<1>4. w = [SetHeader(b, q) EXCEPT !.is_pending = TRUE, !.cseq = @ + 1]
  BY DEF TakeSlot
<1>5. e.cseq = w.cseq /\ e.spurious = w.spurious
  BY <1>2, <1>4 DEF SetHeader, Forget, Good, Client
<1> HIDE DEF e, w
<1> QED BY <1>1, <1>3, <1>5

\* Requests without a session.
LEMMA SendRequestAsked ==
    ASSUME NEW c, Good(c), NEW m \in Methods \ {"GET_PARAMETER", "TEARDOWN"},
           NEW s \in SessionOrNone, NEW md \in MediaOrNone,
           NEW timed \in BOOLEAN, m = "SETUP" => md \in Medias
    PROVE  Asked(c, SendRequest(c, m, s, md, "OK", timed))
<1> DEFINE d == SendRequest(c, m, s, md, "OK", timed)
<1>1. Requested(c, d) /\ d.spurious = c.spurious /\ d.cseq = c.cseq + 1
  BY SendRequestRequested, SendRequestView
<1>2. c.cseq \in Nat
  BY DEF Good, Client
<1> HIDE DEF d
<1>3. Asked(c, d)
  BY <1>1, <1>2 DEF Asked
<1> QED BY <1>3 DEF d

\* A request that is refused clears a timer at most.
LEMMA RefusedAsked ==
    ASSUME NEW c, Good(c)
    PROVE  Asked(c, clear_pending_keep_alive_timer(c))
<1> DEFINE b == clear_pending_keep_alive_timer(c)
<1>1. /\ Good(b) /\ SameConn(c, b) /\ b.sessions = c.sessions
      /\ b.cseq = c.cseq /\ Quieter(c, b)
  BY ClearTimerGood, ClearTimerQuiet DEF Good
<1> HIDE DEF b
<1>2. Asked(c, b)
  BY <1>1 DEF Asked, Requested, Quieter
<1> QED BY <1>2 DEF b

\* Requests for a session.
LEMMA ForSessionAsked ==
    ASSUME NEW c, Good(c), NEW m \in Methods \ {"GET_PARAMETER", "TEARDOWN"},
           NEW s \in SessionIds, NEW md \in MediaOrNone,
           NEW timed \in BOOLEAN, m = "SETUP" => md \in Medias
    PROVE  Asked(c, ForSession(c, m, s, md, "OK", timed))
<1>1. Asked(c, SendRequest(c, m, s, md, "OK", timed))
  BY SendRequestAsked DEF SessionOrNone
<1> QED BY <1>1, RefusedAsked DEF ForSession

\* TEARDOWN of the application.
LEMMA TeardownAsked ==
    ASSUME NEW c, Good(c), NEW s \in SessionIds, NEW md \in MediaOrNone,
           NEW timed \in BOOLEAN, CanRequest(c, "TEARDOWN")
    PROVE  Asked(c, send_teardown(c, md, s, "OK", timed, FALSE))
<1> DEFINE r == SendRequest(c, "TEARDOWN", s, md, "OK", timed)
           d == [r EXCEPT !.is_internal = FALSE, !.internal_teardown = @ \ {s}]
<1>1. CASE s \notin c.sessions
  BY <1>1, RefusedAsked DEF send_teardown
<1>2. CASE s \in c.sessions
  <2>1. send_teardown(c, md, s, "OK", timed, FALSE) = d
    BY <1>2 DEF send_teardown
  <2>2. Requested(c, d)
    <3> HIDE DEF d
    <3>1. \A res : Requested(c, send_teardown(c, md, s, res, timed, FALSE))
      BY TeardownRequested, Zenon
    <3> QED BY <2>1, <3>1, Zenon
  <2>3. "TEARDOWN" \in Methods /\ s \in SessionOrNone
    BY DEF Methods, SessionMethods, SessionOrNone
  <2>4. r.spurious = c.spurious /\ r.cseq = c.cseq + 1
    BY <2>3, SendRequestView
  <2>5. r \in Client
    BY <2>3, SendRequestGood DEF Sent, Good
  <2> HIDE DEF r
  <2>6. d.spurious = r.spurious /\ d.cseq = r.cseq
    BY <2>5 DEF Client
  <2>7. c.cseq \in Nat
    BY DEF Good, Client
  <2> HIDE DEF d
  <2>8. Asked(c, d)
    BY <2>2, <2>4, <2>6, <2>7 DEF Asked
  <2> QED BY <2>1, <2>8, Zenon
<1> QED BY <1>1, <1>2

\* A request of the application is accepted or refused.
LEMMA AcceptedPromised ==
    ASSUME Kept, client.conn_state = "CONNECTED", NEW d, Asked(client, d),
           client' = Accepted(client, d)
    PROVE  Promised
<1> DEFINE a == [d EXCEPT !.owed = @ \cup {client.cseq}]
<1>0. Good(d) /\ Sound(client) /\ d.conn_state = "CONNECTED"
  BY DEF Asked, Requested, SameConn, Kept
<1>1. CASE d.cseq = client.cseq
  <2>1. client' = d /\ Quieter(client, d)
    BY <1>1 DEF Accepted, Asked
  <2> QED BY <1>0, <2>1, UnseenPromised DEF Over
<1>2. CASE d.cseq # client.cseq
  <2>1. client' = a
    BY <1>2 DEF Accepted
  <2>2. /\ a.sessions = d.sessions /\ a.cseq = d.cseq
        /\ a.conn_state = d.conn_state /\ a.spurious = d.spurious
        /\ a.owed = d.owed \cup {client.cseq}
    BY <1>0 DEF Good, Client
  <2> HIDE DEF a
  <2>3. /\ a.owed = {client.cseq} /\ a.cseq = client.cseq + 1
        /\ a.sessions = client.sessions /\ a.conn_state = "CONNECTED"
    BY <1>0, <1>2, <2>2 DEF Asked, Requested
  <2>4. Sound(a) /\ Over(a)
    BY <1>0, <2>2, <2>3 DEF Sound, Over, Asked
  <2>5. Promise!Request
    BY <2>1, <2>3 DEF Promise!Request
  <2> QED BY <2>1, <2>4, <2>5 DEF Promised, Promise!Next
<1> QED BY <1>1, <1>2

\* Every request function of the API.
LEMMA RequestPromised ==
    ASSUME AlwaysSent, Kept, RequestNext PROVE Promised
<1>0. Good(client)
  BY DEF Kept, IInv
<1> PICK res \in SendResults, timed \in BOOLEAN :
        \/ Options(res, timed) \/ Describe(res, timed) \/ Announce(res, timed)
        \/ \E s \in SessionOrNone, md \in Medias : Setup(s, md, res, timed)
        \/ \E s \in SessionIds : Play(s, res, timed)
        \/ \E s \in SessionIds : Pause(s, res, timed)
        \/ \E s \in SessionIds : Record(s, res, timed)
        \/ \E s \in SessionIds, md \in MediaOrNone : Teardown(s, md, res, timed)
  BY DEF RequestNext
<1>r. res = "OK"
  BY DEF AlwaysSent
<1> SUFFICES \E d : /\ client.conn_state = "CONNECTED" /\ Asked(client, d)
                    /\ client' = Accepted(client, d)
  BY AcceptedPromised
<1>1. /\ {"OPTIONS", "DESCRIBE", "ANNOUNCE", "SETUP", "PLAY", "PAUSE", "RECORD"}
             \subseteq Methods \ {"GET_PARAMETER", "TEARDOWN"}
      /\ NoSession \in SessionOrNone /\ NoMedia \in MediaOrNone
      /\ Medias \subseteq MediaOrNone
  BY DEF Methods, SessionlessMethods, SessionMethods, SessionOrNone, MediaOrNone
<1>2. \A m : CanRequest(client, m) => client.conn_state = "CONNECTED"
  BY DEF CanRequest, CanSend
<1>3. CanSend(client) => client.conn_state = "CONNECTED"
  BY DEF CanSend
<1>4. CASE Options(res, timed)
  <2> DEFINE d == rtsp_client_options(client, res, timed)
  <2>1. Asked(client, d)
    BY <1>0, <1>r, <1>1, SendRequestAsked DEF rtsp_client_options
  <2> HIDE DEF d
  <2> QED BY <1>3, <1>4, <2>1 DEF Options, Becomes, d
<1>5. CASE Describe(res, timed)
  <2> DEFINE d == rtsp_client_describe(client, res, timed)
  <2>1. Asked(client, d)
    BY <1>0, <1>r, <1>1, SendRequestAsked DEF rtsp_client_describe
  <2> HIDE DEF d
  <2> QED BY <1>2, <1>5, <2>1 DEF Describe, Becomes, d
<1>6. CASE Announce(res, timed)
  <2> DEFINE d == rtsp_client_announce(client, res, timed)
  <2>1. Asked(client, d)
    BY <1>0, <1>r, <1>1, SendRequestAsked DEF rtsp_client_announce
  <2> HIDE DEF d
  <2> QED BY <1>2, <1>6, <2>1 DEF Announce, Becomes, d
<1>7. CASE \E s \in SessionOrNone, md \in Medias : Setup(s, md, res, timed)
  <2> PICK s \in SessionOrNone, md \in Medias : Setup(s, md, res, timed)
    BY <1>7
  <2> DEFINE d == rtsp_client_setup(client, s, md, res, timed)
  <2>1. Asked(client, d)
    <3>1. CASE s = NoSession
      <4>1. Asked(client, SendRequest(client, "SETUP", s, md, "OK", timed))
        BY <1>0, <1>1, SendRequestAsked
      <4> QED BY <1>r, <3>1, <4>1 DEF rtsp_client_setup
    <3>2. CASE s # NoSession
      <4>1. s \in SessionIds
        BY <3>2 DEF SessionOrNone
      <4>2. Asked(client, ForSession(client, "SETUP", s, md, "OK", timed))
        BY <1>0, <1>1, <4>1, ForSessionAsked
      <4> QED BY <1>r, <3>2, <4>2 DEF rtsp_client_setup
    <3> QED BY <3>1, <3>2
  <2> HIDE DEF d
  <2> QED BY <1>2, <2>1 DEF Setup, Becomes, d
<1>8. CASE \E s \in SessionIds : Play(s, res, timed)
  <2> PICK s \in SessionIds : Play(s, res, timed)
    BY <1>8
  <2> DEFINE d == rtsp_client_play(client, s, res, timed)
  <2>1. Asked(client, d)
    BY <1>0, <1>r, <1>1, ForSessionAsked DEF rtsp_client_play
  <2> HIDE DEF d
  <2> QED BY <1>2, <2>1 DEF Play, Becomes, d
<1>9. CASE \E s \in SessionIds : Pause(s, res, timed)
  <2> PICK s \in SessionIds : Pause(s, res, timed)
    BY <1>9
  <2> DEFINE d == rtsp_client_pause(client, s, res, timed)
  <2>1. Asked(client, d)
    BY <1>0, <1>r, <1>1, ForSessionAsked DEF rtsp_client_pause
  <2> HIDE DEF d
  <2> QED BY <1>2, <2>1 DEF Pause, Becomes, d
<1>10. CASE \E s \in SessionIds : Record(s, res, timed)
  <2> PICK s \in SessionIds : Record(s, res, timed)
    BY <1>10
  <2> DEFINE d == rtsp_client_record(client, s, res, timed)
  <2>1. Asked(client, d)
    BY <1>0, <1>r, <1>1, ForSessionAsked DEF rtsp_client_record
  <2> HIDE DEF d
  <2> QED BY <1>2, <2>1 DEF Record, Becomes, d
<1>11. CASE \E s \in SessionIds, md \in MediaOrNone : Teardown(s, md, res, timed)
  <2> PICK s \in SessionIds, md \in MediaOrNone : Teardown(s, md, res, timed)
    BY <1>11
  <2> DEFINE d == send_teardown(client, md, s, "OK", timed, FALSE)
  <2>1. client' = Accepted(client, d) /\ CanRequest(client, "TEARDOWN")
    BY <1>r DEF Teardown, Becomes
  <2>2. Asked(client, d)
    BY <1>0, <2>1, TeardownAsked
  <2> HIDE DEF d
  <2> QED BY <1>2, <2>1, <2>2
<1> QED BY <1>4, <1>5, <1>6, <1>7, <1>8, <1>9, <1>10, <1>11

\* Completion of the request in the slot, by an answer or by the application.
LEMMA CompletePromised ==
    ASSUME SomeSession, Kept, NEW resp \in Response, NEW status,
           client.request.session # NoSession =>
               resp.session \in {client.request.session, NoSession},
           NEW d, Unseen(request_complete(client, resp, status), d),
           d.conn_state = request_complete(client, resp, status).conn_state,
           d.lookups = request_complete(client, resp, status).lookups,
           client' = d
    PROVE  Promised
<1> DEFINE c == request_complete(client, resp, status)
<1>1. Ended(client, c) /\ SameConn(client, c)
  BY CompleteView, RequestCompleteGood DEF Kept, IInv
<1> HIDE DEF c
<1>2. Ended(client, d)
  BY <1>1, UnseenViews DEF c
<1>3. d.conn_state = client.conn_state /\ d.lookups = client.lookups
  BY <1>1 DEF SameConn, c
<1> QED BY <1>2, <1>3, EndedPromised DEF Kept, Over

\* rtsp_client_response_process(): the answer to the request in the slot, or
\* to a keep-alive that was overtaken.
LEMMA ResponsePromised ==
    ASSUME SomeSession, Kept, NEW cseq, NEW resp \in Response, NEW s, NEW m,
           s # NoSession => s \in client.keep_alive,
           cseq = client.request.cseq /\ client.request.session # NoSession =>
               resp.session \in {client.request.session, NoSession},
           client' = [response_process(client, cseq, resp, s)
                        EXCEPT !.wire = @ \ {m}]
    PROVE  Promised
<1> DEFINE c == response_process(client, cseq, resp, s)
           d == [c EXCEPT !.wire = @ \ {m}]
           x == [client EXCEPT !.keep_alive = @ \ {s}]
           y == [x EXCEPT !.timer = @ \cup {s}]
<1>0. Good(client) /\ Connection(client) /\ Sound(client) /\ Over(client)
  BY DEF Kept, IInv
<1>1. c \in Client
  BY <1>0, ResponseProcessGood DEF Good
<1>2. c = IF cseq = client.request.cseq THEN request_complete(client, resp, "OK")
          ELSE IF s = NoSession THEN client ELSE y
  BY DEF response_process, RetryLater
<1> HIDE DEF c
<1>3. Unseen(c, d) /\ d.conn_state = c.conn_state /\ d.lookups = c.lookups
  BY <1>1 DEF Client, Unseen, Same
<1>4. client' = d
  BY DEF c
<1> HIDE DEF d
<1>5. CASE cseq = client.request.cseq
  <2>1. c = request_complete(client, resp, "OK")
    BY <1>2, <1>5
  <2> QED BY <1>3, <1>4, <1>5, <2>1, CompletePromised
<1>6. CASE cseq # client.request.cseq
  <2>1. /\ x \in Client /\ Quieter(client, x)
        /\ x.conn_state = client.conn_state /\ x.lookups = client.lookups
    BY <1>0 DEF Good, Client, Quieter
  <2> HIDE DEF x
  <2>2. /\ Quieter(x, y)
        /\ y.conn_state = x.conn_state /\ y.lookups = x.lookups
    BY <2>1 DEF Client, Quieter
  <2> HIDE DEF y
  <2>3. /\ Quieter(client, c)
        /\ c.conn_state = client.conn_state /\ c.lookups = client.lookups
    <3>1. Quieter(client, client)
      BY DEF Quieter
    <3> QED BY <1>2, <1>6, <2>1, <2>2, <3>1, QuieterTrans
  <2>4. Quieter(client, d)
    BY <1>3, <2>3, UnseenViews, QuieterTrans
  <2> QED BY <1>0, <1>3, <1>4, <2>3, <2>4, UnseenPromised DEF Over
<1> QED BY <1>5, <1>6

\* An answer with a CSeq.
LEMMA ReceiveResponsePromised ==
    ASSUME SomeSession, Kept, NEW m, NEW resp \in Response,
           NEW s \in SessionOrNone, ReceiveResponse(m, resp, s)
    PROVE  Promised
<1>1. client' = [response_process(client, m.cseq, resp, s)
                    EXCEPT !.wire = @ \ {m}]
  BY DEF ReceiveResponse, Becomes
<1>2. /\ m \in client.wire /\ (s # NoSession => s \in client.keep_alive)
      /\ m.session # NoSession => resp.session \in {m.session, NoSession}
  BY DEF ReceiveResponse
<1>3. m.cseq = client.request.cseq => m = client.request
  BY <1>2 DEF Kept, IInv, Good, Slot
<1> QED BY <1>1, <1>2, <1>3, ResponsePromised

\* An answer without one.
LEMMA ReceiveNoCseqPromised ==
    ASSUME SomeSession, Kept, NEW m, NEW s \in SessionOrNone,
           ReceiveNoCseq(m, s)
    PROVE  Promised
<1> DEFINE resp == [code |-> "other", session |-> NoSession, public |-> {}]
<1>1. client' = [response_process(client, 0, resp, s) EXCEPT !.wire = @ \ {m}]
  BY DEF ReceiveNoCseq, Becomes
<1>2. s # NoSession => s \in client.keep_alive
  BY DEF ReceiveNoCseq
<1>3. resp \in Response /\ resp.session = NoSession
  BY DEF Response, SessionOrNone
<1> HIDE DEF resp
<1> QED BY <1>1, <1>2, <1>3, ResponsePromised

\* teardown_request_process() loses a session, or a media of it.
LEMMA ServerTeardownPromised ==
    ASSUME Kept, NEW s, NEW md, ServerTeardown(s, md) PROVE Promised
<1> DEFINE f == [client.medias EXCEPT ![s] = client.medias[s] \ {md}]
           x == [client EXCEPT !.medias = f]
           y == remove_session_internal(client, s)
<1>0. client \in Client /\ Good(client) /\ Sound(client) /\ Over(client)
  BY DEF Kept, IInv, Good
<1>1. client' = x \/ client' = y
  BY DEF ServerTeardown, Becomes
<1>2. Quieter(client, y) /\ SameConn(client, y)
  BY <1>0, RemoveQuiet, RemoveSessionInternal
<1> HIDE DEF f, y
<1>3. Quieter(client, x) /\ SameConn(client, x)
  BY <1>0 DEF Client, Quieter, SameConn
<1> HIDE DEF x
<1> QED BY <1>0, <1>1, <1>2, <1>3, UnseenPromised DEF SameConn, Over

\* rtsp_client_resp_timeout_cb()
LEMMA ResponseTimeoutPromised ==
    ASSUME SomeSession, Kept, NEW connect_ok \in BOOLEAN,
           ResponseTimeout("OK", connect_ok)
    PROVE  Promised
<1> DEFINE x == [client EXCEPT !.req_timer = FALSE]
<1>0. Good(client) /\ Connection(client) /\ Sound(client)
  BY DEF Kept, IInv
<1>1. client' = request_timeout(x, "OK", connect_ok) /\ client.req_timer
  BY DEF ResponseTimeout, Becomes
<1>2. x \in Client /\ Unseen(client, x) /\ SameConn(client, x)
  BY <1>0 DEF Good, Client, Unseen, Same, SameConn
<1> HIDE DEF x
<1>3. Good(x) /\ Sound(x)
  BY <1>0, <1>2, SameGood, UnseenViews DEF Unseen
<1>4. Connection(x)
  BY <1>0, <1>2, <1>3, LocalConnection DEF Local, Unseen, Same
<1>5. x.is_pending /\ client.conn_state = "CONNECTED"
  BY <1>0, <1>1, <1>2 DEF Good, Slot, Connection, Unseen, Same
<1>6. After(x, client') /\ client'.conn_state \in {x.conn_state, "CONNECTING"}
  BY <1>1, <1>3, <1>4, <1>5, RequestTimeoutView
<1>7. After(client, client')
  BY <1>2, <1>6, UnseenViews DEF After, Unseen, Same
<1> QED BY <1>2, <1>5, <1>6, <1>7, AfterPromised DEF SameConn

\* rtsp_client_pomp_timer_cb()
LEMMA KeepAliveTimerPromised ==
    ASSUME Kept, NEW s, KeepAliveTimer(s, "OK") PROVE Promised
<1> DEFINE x == [client EXCEPT !.timer = @ \ {s}]
           y == send_keep_alive(x, s, "OK")
<1>0. Good(client) /\ Sound(client) /\ Over(client) /\ s \in client.sessions
  BY DEF Kept, IInv, KeepAliveTimer, Good, Flags
<1>1. client' = y
  BY DEF KeepAliveTimer, Becomes
<1>2. x \in Client /\ Unseen(client, x) /\ SameConn(client, x)
  BY <1>0 DEF Good, Client, Unseen, Same, SameConn
<1> HIDE DEF x
<1>3. Good(x) /\ s \in x.sessions
  BY <1>0, <1>2, SameGood DEF Unseen, Same
<1>4. (Quieter(x, y) \/ Own(x, y)) /\ SameConn(x, y)
  BY <1>3, KeepAliveView, SendKeepAliveGood
<1> HIDE DEF y
<1>5. (Quieter(client, y) \/ Own(client, y)) /\ SameConn(client, y)
  BY <1>2, <1>4 DEF Quieter, Own, SameConn, Unseen, Same
<1>6. Over(y)
  BY <1>0, <1>5 DEF SameConn, Over
<1>7. CASE Quieter(client, y)
  BY <1>0, <1>1, <1>5, <1>6, <1>7, UnseenPromised DEF SameConn
<1>8. CASE Own(client, y)
  <2>1. client.owed = {}
    BY <1>0, <1>8 DEF Own, Good, Slot
  <2>2. Promise!OwnRequest
    BY <1>1, <1>5, <1>8, <2>1 DEF Promise!OwnRequest, Own, SameConn
  <2> QED BY <1>0, <1>1, <1>6, <1>8, <2>2, OwnSound DEF Promised, Promise!Next
<1> QED BY <1>5, <1>7, <1>8

\* Messages of the server, timers, and the remaining calls.
LEMMA EventPromised ==
    ASSUME AlwaysSent, SomeSession, Kept, EventNext PROVE Promised
<1>0. Good(client) /\ Sound(client) /\ Over(client)
  BY DEF Kept, IInv
<1>1. CASE \E s \in SessionIds : RemoveSession(s)
  <2> PICK s \in SessionIds : RemoveSession(s)
    BY <1>1
  <2> DEFINE y == remove_session_internal(client, s)
  <2>1. client' = y
    BY DEF RemoveSession, Becomes
  <2>2. Quieter(client, y) /\ SameConn(client, y)
    BY <1>0, RemoveQuiet, RemoveSessionInternal DEF Good
  <2> HIDE DEF y
  <2> QED BY <1>0, <2>1, <2>2, UnseenPromised DEF SameConn, Over
<1>2. CASE Cancel
  <2> DEFINE d == request_complete(client, Dummy(client), "CANCELED")
  <2>1. client' = d
    BY <1>2 DEF Cancel, Becomes
  <2>2. /\ Dummy(client) \in Response
        /\ Dummy(client).session = client.request.session
    BY <1>0, DummyResponse
  <2>3. Unseen(d, d)
    BY DEF Unseen, Same
  <2> QED BY <2>1, <2>2, <2>3, CompletePromised
<1>3. CASE \E m \in client.wire, code \in {"2xx", "454", "other"},
              sid \in SessionOrNone, pub \in PublicMethods \cup {{}},
              s \in SessionOrNone :
              ReceiveResponse(m, [code |-> code, session |-> sid,
                                  public |-> pub], s)
  <2> PICK m \in client.wire, code \in {"2xx", "454", "other"},
           sid \in SessionOrNone, pub \in PublicMethods \cup {{}},
           s \in SessionOrNone :
           ReceiveResponse(m, [code |-> code, session |-> sid,
                               public |-> pub], s)
    BY <1>3
  <2>1. [code |-> code, session |-> sid, public |-> pub] \in Response
    BY ClientAssumption DEF Response
  <2> QED BY <2>1, ReceiveResponsePromised
<1>4. CASE \E m \in client.wire, s \in SessionOrNone : ReceiveNoCseq(m, s)
  BY <1>4, ReceiveNoCseqPromised
<1>5. CASE \E s \in SessionIds, md \in MediaOrNone : ServerTeardown(s, md)
  BY <1>5, ServerTeardownPromised
<1>6. CASE \E res \in SendResults, connect_ok \in BOOLEAN :
              ResponseTimeout(res, connect_ok)
  BY <1>6, ResponseTimeoutPromised DEF AlwaysSent
<1>7. CASE \E s \in SessionIds, res \in SendResults : KeepAliveTimer(s, res)
  BY <1>7, KeepAliveTimerPromised DEF AlwaysSent
<1>8. CASE Destroyed
  <2>1. client' = client /\ Quieter(client, client')
    BY <1>8 DEF Destroyed, Quieter
  <2> QED BY <1>0, <2>1, UnseenPromised
<1> QED BY <1>1, <1>2, <1>3, <1>4, <1>5, <1>6, <1>7, <1>8 DEF EventNext

\* Calls and events of the connection.
LEMMA ConnectionPromised ==
    ASSUME AlwaysSent, SomeSession, Kept, ConnectionNext PROVE Promised
<1>1. CASE \E res \in {"OK", "EINVAL", "ERESOLV"} : Connect(res)
  BY <1>1, ConnectPromised
<1>2. CASE \E ok \in BOOLEAN : ResolvDone(ok)
  BY <1>2, ResolvDonePromised
<1>3. CASE ResolvTimeout
  BY <1>3, ResolvTimeoutPromised
<1>4. CASE \E failed \in SUBSET client.sessions, first \in SessionOrNone,
              res \in SendResults : SocketConnected(failed, first, res)
  BY <1>4, SocketConnectedPromised
<1>5. CASE SocketDisconnected
  BY <1>5, SocketDisconnectedPromised
<1>6. CASE Disconnect
  <2>1. client' = rtsp_client_disconnect(client)
    BY <1>6 DEF Disconnect, Becomes
  <2>2. Unseen(client, client)
    BY DEF Unseen, Same
  <2> QED BY <2>1, <2>2, DisconnectPromised DEF Kept, IInv
<1>7. CASE Destroy
  BY <1>7, DestroyPromised
<1> QED BY <1>1, <1>2, <1>3, <1>4, <1>5, <1>6, <1>7 DEF ConnectionNext

(***************************************************************************)
(* Theorems                                                                *)
(***************************************************************************)

\* Every step of a client that is as it should be is a step of the promise, or
\* none, and leaves it so.
LEMMA StepPromised ==
    Hypotheses => (Kept /\ [Next]_client => Kept' /\ [Promise!Next]_(Promise!vars))
<1> SUFFICES ASSUME Hypotheses, Kept, [Next]_client
             PROVE  Kept' /\ [Promise!Next]_(Promise!vars)
  OBVIOUS
<1>1. CASE UNCHANGED client
  BY <1>1 DEF Kept, IInv, Promise!vars
<1>2. CASE Next
  <2>1. IInv'
    BY <1>2, ConnectionStep, RequestStep, EventStep DEF Next, Kept, Hypotheses
  <2>2. Promised
    BY <1>2, ConnectionPromised, RequestPromised, EventPromised
       DEF Next, Hypotheses
  <2> QED BY <2>1, <2>2 DEF Promised, Kept
<1> QED BY <1>1, <1>2

\* rtsp_client_new() starts as it should.
LEMMA InitKept == Init => Kept
<1> SUFFICES ASSUME Init PROVE Kept
  OBVIOUS
<1>1. /\ ~client.is_pending /\ ~client.spurious
      /\ client.conn_state = "DISCONNECTED"
  BY DEF Init, NewClient
<1> QED BY <1>1, InitIInv DEF Kept, Sound, Over

\* No response callback runs for a request that is not owed one: not for a
\* keep-alive or TEARDOWN of the client's own, and never twice for a request
\* of the application.
THEOREM CallbacksAreOwed == Hypotheses => (Spec => []NoSpuriousCallback)
<1> SUFFICES ASSUME Hypotheses PROVE Spec => []NoSpuriousCallback
  OBVIOUS
<1>1. Kept /\ [Next]_client => Kept'
  BY StepPromised
<1>2. Kept => NoSpuriousCallback
  BY DEF Kept, Sound, NoSpuriousCallback
<1> QED BY <1>1, <1>2, InitKept, PTL DEF Spec

\* The client implements its promise: of what the application sees, every
\* callback, timer and call is one step of RtspClientPromise or none.
THEOREM Refinement == Hypotheses => (Spec => KeepsPromise)
<1> SUFFICES ASSUME Hypotheses PROVE Spec => KeepsPromise
  OBVIOUS
<1>1. Kept /\ [Next]_client => Kept' /\ [Promise!Next]_(Promise!vars)
  BY StepPromised
<1>2. Init => Promise!Init
  BY DEF Init, NewClient, Promise!Init
<1> QED BY <1>1, <1>2, InitKept, PTL DEF Spec, KeepsPromise, Promise!Spec

=============================================================================
