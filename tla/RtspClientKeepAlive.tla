------------------------- MODULE RtspClientKeepAlive -------------------------
(***************************************************************************)
(* The keep-alives of RtspClient: no session is forgotten by them, and one *)
(* that does not answer is given up.  For one session, which requests      *)
(* cannot overwrite in the slot, of a server that lists GET_PARAMETER if   *)
(* it lists anything; a socket may be full, but sending does not otherwise *)
(* fail.                                                                   *)
(*                                                                         *)
(* Neither property is inductive.  A session that is not given up has its  *)
(* timer armed or waits for an answer, and has failures left (ArmedAt);    *)
(* one that is given up waits for the answer to the client's own TEARDOWN  *)
(* of all its medias, whose completion removes it, and for no keep-alive,  *)
(* so that no request can take the slot from that TEARDOWN (GivenUp).      *)
(***************************************************************************)
EXTENDS RtspClientProofs

\* A socket may be full; there is no other send error.
Sendable == SendResults \subseteq {"OK", "EAGAIN"}

\* There is one session.
OneSession == \A s, t \in SessionIds : s = t

\* A server that lists its methods lists GET_PARAMETER.
Probeable == \A p \in PublicMethods : p = {} \/ "GET_PARAMETER" \in p

\* s is not in the list and its counter is reset, or s is armed or waits for
\* an answer, with failures left.
ArmedAt(c, s) ==
    IF s \notin c.sessions THEN c.failed_keep_alive[s] = 0
    ELSE /\ s \in c.timer \cup c.keep_alive
         /\ c.failed_keep_alive[s] < MaxFailedKeepAlive

\* The client's own TEARDOWN of all of s is in the slot, and cannot be taken
\* from it: s waits for no keep-alive.
GivenUp(c, s) ==
    /\ s \in c.sessions /\ s \in c.internal_teardown /\ s \notin c.keep_alive
    /\ c.is_pending /\ c.request.method = "TEARDOWN"
    /\ c.request.session = s /\ c.request.media = NoMedia

\* Keep-alives are allowed, and every session is armed.
Armed(c) ==
    /\ Allowed(c, "GET_PARAMETER")
    /\ \A s \in SessionIds : ArmedAt(c, s)

\* ... or given up.
Scheduled(c) ==
    /\ Allowed(c, "GET_PARAMETER")
    /\ \A s \in SessionIds : ArmedAt(c, s) \/ GivenUp(c, s)

\* What ArmedAt depends on.
Timing(c, d) ==
    /\ d.methods_allowed = c.methods_allowed /\ d.sessions = c.sessions
    /\ d.timer = c.timer /\ d.keep_alive = c.keep_alive
    /\ d.failed_keep_alive = c.failed_keep_alive

\* What GivenUp depends on besides.
Slotting(c, d) ==
    /\ d.is_pending = c.is_pending /\ d.request = c.request
    /\ d.internal_teardown = c.internal_teardown

\* ArmedAt and Armed depend on nothing else, nor does Scheduled.
LEMMA TimingFrame ==
    ASSUME NEW c, NEW d, Timing(c, d)
    PROVE  /\ \A s : ArmedAt(c, s) => ArmedAt(d, s)
           /\ Armed(c) => Armed(d)
           /\ Scheduled(c) /\ Slotting(c, d) => Scheduled(d)
<1>1. \A s : ArmedAt(c, s) => ArmedAt(d, s)
  BY DEF Timing, ArmedAt
<1>2. Allowed(c, "GET_PARAMETER") => Allowed(d, "GET_PARAMETER")
  BY DEF Timing, Allowed
<1>3. ASSUME Slotting(c, d) PROVE \A s : GivenUp(c, s) => GivenUp(d, s)
  BY <1>3 DEF Timing, Slotting, GivenUp
<1> QED BY <1>1, <1>2, <1>3 DEF Armed, Scheduled

\* With a free slot nothing is given up; what is armed is scheduled.
LEMMA ArmedScheduled ==
    ASSUME NEW c
    PROVE  /\ Armed(c) => Scheduled(c)
           /\ Scheduled(c) /\ ~c.is_pending => Armed(c)
BY DEF Armed, Scheduled, GivenUp

(***************************************************************************)
(* Sessions                                                                *)
(***************************************************************************)

\* A session that is removed starts afresh; the others are left alone.
LEMMA RemoveArmed ==
    ASSUME NEW c \in Client, NEW s
    PROVE  LET d == remove_session_internal(c, s)
           IN  /\ d.methods_allowed = c.methods_allowed
               /\ \A t \in SessionIds :
                     ArmedAt(c, t) \/ (t = s /\ s \in c.sessions) => ArmedAt(d, t)
               /\ \A t \in SessionIds :
                     GivenUp(c, t) => ArmedAt(d, t) \/ GivenUp(d, t)
<1> DEFINE f == [c.failed_keep_alive EXCEPT ![s] = 0]
           m == [c.medias EXCEPT ![s] = {}]
           e == [c EXCEPT !.sessions = @ \ {s}, !.keep_alive = @ \ {s},
                          !.timer = @ \ {s}, !.internal_teardown = @ \ {s},
                          !.failed_keep_alive = f, !.medias = m]
           d == remove_session_internal(c, s)
<1>1. CASE s \notin c.sessions
  <2>1. d = c
    BY <1>1 DEF remove_session_internal
  <2> QED BY <1>1, <2>1
<1>2. CASE s \in c.sessions
  <2>1. d = e
    BY <1>2 DEF remove_session_internal
  <2>2. f[s] = 0 /\ \A t \in SessionIds : t # s => f[t] = c.failed_keep_alive[t]
    BY <1>2 DEF Client
  <2> HIDE DEF f, m
  <2>3. /\ e.methods_allowed = c.methods_allowed
        /\ e.sessions = c.sessions \ {s} /\ e.keep_alive = c.keep_alive \ {s}
        /\ e.timer = c.timer \ {s}
        /\ e.internal_teardown = c.internal_teardown \ {s}
        /\ e.failed_keep_alive = f
        /\ e.is_pending = c.is_pending /\ e.request = c.request
    BY DEF Client
  <2> HIDE DEF e
  <2>4. ASSUME NEW t \in SessionIds, ArmedAt(c, t) \/ (t = s /\ s \in c.sessions)
        PROVE  ArmedAt(e, t)
    BY <2>2, <2>3, <2>4 DEF ArmedAt
  <2>5. ASSUME NEW t \in SessionIds, GivenUp(c, t)
        PROVE  ArmedAt(e, t) \/ GivenUp(e, t)
    BY <2>2, <2>3, <2>5 DEF ArmedAt, GivenUp
  <2> QED BY <2>1, <2>3, <2>4, <2>5
<1> QED BY <1>1, <1>2

\* With all sessions removed, none is left to schedule.
LEMMA RemoveAllArmed ==
    ASSUME NEW c \in Client, Allowed(c, "GET_PARAMETER")
    PROVE  Armed(remove_all_sessions(c))
<1> DEFINE f == [s \in SessionIds |-> 0]
           d == remove_all_sessions(c)
<1>1. /\ d.methods_allowed = c.methods_allowed /\ d.sessions = {}
      /\ d.failed_keep_alive = f
  BY DEF remove_all_sessions, Client
<1> HIDE DEF d
<1> QED BY <1>1 DEF Armed, ArmedAt, Allowed, d

\* reset_keep_alive_timer() arms a session that has failures left.
LEMMA RetryArmed ==
    ASSUME NEW c \in Client, NEW s
    PROVE  LET d == RetryLater(c, s)
           IN  /\ d.methods_allowed = c.methods_allowed
               /\ \A t : ArmedAt(c, t) => ArmedAt(d, t)
               /\ \A t : GivenUp(c, t) => GivenUp(d, t)
               /\ c.failed_keep_alive[s] < MaxFailedKeepAlive
                     /\ s \in c.sessions => ArmedAt(d, s)
<1> DEFINE d == RetryLater(c, s)
<1>1. /\ d.methods_allowed = c.methods_allowed /\ d.sessions = c.sessions
      /\ d.timer = c.timer \cup {s} /\ d.keep_alive = c.keep_alive
      /\ d.failed_keep_alive = c.failed_keep_alive /\ Slotting(c, d)
  BY DEF RetryLater, Client, Slotting
<1> HIDE DEF d
<1> QED BY <1>1 DEF ArmedAt, GivenUp, Slotting, d

(***************************************************************************)
(* Sending                                                                 *)
(***************************************************************************)

\* The slot does not matter to the timers.
LEMMA SlotTiming ==
    ASSUME NEW c \in Client, NEW q
    PROVE  /\ Timing(c, SetHeader(c, q)) /\ Timing(c, TakeSlot(c, q))
           /\ TakeSlot(c, q).request = q /\ TakeSlot(c, q).is_pending
           /\ Timing(c, clear_pending_keep_alive_timer(c))
           /\ Slotting(c, clear_pending_keep_alive_timer(c))
<1>1. Timing(c, SetHeader(c, q))
  BY DEF SetHeader, Forget, Client, Timing
<1>2. /\ Timing(c, TakeSlot(c, q))
      /\ TakeSlot(c, q).request = q /\ TakeSlot(c, q).is_pending
  BY DEF TakeSlot, SetHeader, Forget, Client, Timing
<1>3. /\ Timing(c, clear_pending_keep_alive_timer(c))
      /\ Slotting(c, clear_pending_keep_alive_timer(c))
  BY DEF clear_pending_keep_alive_timer, Client, Timing, Slotting
<1> QED BY <1>1, <1>2, <1>3

\* All but s are scheduled, and s has failures left: its timer has run out.
Due(c, s) ==
    /\ Allowed(c, "GET_PARAMETER") /\ s \in c.sessions
    /\ \A t \in SessionIds :
          \/ ArmedAt(c, t) \/ GivenUp(c, t)
          \/ t = s /\ c.failed_keep_alive[s] < MaxFailedKeepAlive

\* send_keep_alive() schedules the session anew, or removes it.
LEMMA KeepAliveScheduledAnew ==
    ASSUME NEW c, Good(c), Connection(c), NEW s, Due(c, s),
           NEW res \in {"OK", "EAGAIN"}
    PROVE  Scheduled(send_keep_alive(c, s, res))
<1> DEFINE q == [method |-> "GET_PARAMETER", cseq |-> c.cseq,
                 session |-> IF res = "EAUTH" THEN NoSession ELSE s,
                 media |-> NoMedia]
           n == c.failed_keep_alive[s] + 1
           g == [c.failed_keep_alive EXCEPT ![s] = n]
           f == [c EXCEPT !.failed_keep_alive = g]
           d == send_keep_alive(c, s, res)
<1>0. /\ c \in Client /\ s \in SessionIds /\ s \in c.sessions
      /\ Allowed(c, "GET_PARAMETER")
  BY DEF Good, Client, Due
<1>1. CASE c.conn_state # "CONNECTED"
  <2>1. d = IF n >= MaxFailedKeepAlive THEN remove_session_internal(c, s)
            ELSE RetryLater(f, s)
    BY <1>0, <1>1 DEF send_keep_alive
  <2>2. ~c.is_pending
    BY <1>1 DEF Connection
  <2>3. \A t \in SessionIds : t # s => ArmedAt(c, t)
    BY <2>2 DEF Due, GivenUp
  <2>4. /\ f \in Client /\ f.methods_allowed = c.methods_allowed
        /\ f.sessions = c.sessions /\ f.timer = c.timer
        /\ f.keep_alive = c.keep_alive /\ f.failed_keep_alive = g
        /\ g[s] = n /\ \A t \in SessionIds : t # s => g[t] = c.failed_keep_alive[t]
    <3>1. /\ g \in [SessionIds -> Nat] /\ g[s] = n
          /\ \A t \in SessionIds : t # s => g[t] = c.failed_keep_alive[t]
      BY <1>0 DEF Client
    <3> HIDE DEF g
    <3> QED BY <1>0, <3>1 DEF Client
  <2> HIDE DEF f, g, n
  <2>5. CASE n >= MaxFailedKeepAlive
    <3>1. d = remove_session_internal(c, s)
      BY <2>1, <2>5
    <3>2. /\ d.methods_allowed = c.methods_allowed
          /\ \A t \in SessionIds : ArmedAt(d, t)
      BY <1>0, <2>3, <3>1, RemoveArmed
    <3> HIDE DEF d
    <3> QED BY <1>0, <3>2 DEF Scheduled, Allowed, d
  <2>6. CASE ~(n >= MaxFailedKeepAlive)
    <3>1. d = RetryLater(f, s)
      BY <2>1, <2>6
    <3>2. f.failed_keep_alive[s] < MaxFailedKeepAlive /\ s \in f.sessions
      <4>1. n \in Nat
        BY <1>0 DEF Client, n
      <4> QED BY <1>0, <2>4, <2>6, <4>1, ClientAssumption
    <3>3. \A t \in SessionIds : t # s => ArmedAt(f, t)
      BY <2>3, <2>4 DEF ArmedAt
    <3>4. /\ d.methods_allowed = f.methods_allowed
          /\ \A t \in SessionIds : ArmedAt(d, t)
      BY <2>4, <3>1, <3>2, <3>3, RetryArmed
    <3> HIDE DEF d
    <3> QED BY <1>0, <2>4, <3>4 DEF Scheduled, Allowed, d
  <2> QED BY <2>5, <2>6
<1>2. CASE c.conn_state = "CONNECTED"
  <2> DEFINE w == TakeSlot(c, q)
             e == [w EXCEPT !.keep_alive = @ \cup {s}, !.req_timer = TRUE,
                            !.wire = IF res = "OK" THEN @ \cup {q} ELSE @]
  <2>1. d = IF s \in c.keep_alive THEN c
            ELSE IF c.is_pending THEN RetryLater(c, s) ELSE e
    BY <1>0, <1>2 DEF send_keep_alive
  <2>2. CASE s \in c.keep_alive
    <3>1. d = c
      BY <2>1, <2>2
    <3>2. ArmedAt(c, s) \/ GivenUp(c, s)
      BY <1>0, <2>2 DEF Due, ArmedAt
    <3> HIDE DEF d
    <3> QED BY <1>0, <3>1, <3>2 DEF Due, Scheduled, d
  <2>3. CASE s \notin c.keep_alive /\ c.is_pending
    <3>1. d = RetryLater(c, s)
      BY <2>1, <2>3
    <3>2. /\ d.methods_allowed = c.methods_allowed
          /\ \A t \in SessionIds : ArmedAt(d, t) \/ GivenUp(d, t)
      BY <1>0, <3>1, RetryArmed DEF Due
    <3> HIDE DEF d
    <3> QED BY <1>0, <3>2 DEF Scheduled, Allowed, d
  <2>4. CASE s \notin c.keep_alive /\ ~c.is_pending
    <3>1. d = e
      BY <2>1, <2>4
    <3>2. w \in Client /\ Timing(c, w)
      <4>1. q \in Request /\ q.cseq = c.cseq /\ q.method # "SETUP"
        BY <1>0 DEF Request, Methods, SessionMethods, SessionOrNone,
                    MediaOrNone, Client
      <4> HIDE DEF q
      <4> QED BY <1>0, <4>1, TakeSlotGood, SlotTiming DEF Good
    <3> HIDE DEF w, q
    <3>3. /\ e.methods_allowed = w.methods_allowed /\ e.sessions = w.sessions
          /\ e.timer = w.timer /\ e.keep_alive = w.keep_alive \cup {s}
          /\ e.failed_keep_alive = w.failed_keep_alive
      BY <3>2 DEF Client
    <3> HIDE DEF e
    <3>4. ASSUME NEW t \in SessionIds PROVE ArmedAt(e, t)
      <4>1. \/ ArmedAt(c, t)
            \/ t = s /\ c.failed_keep_alive[s] < MaxFailedKeepAlive
        BY <2>4 DEF Due, GivenUp
      <4> QED BY <1>0, <3>2, <3>3, <4>1 DEF Timing, ArmedAt
    <3> HIDE DEF d
    <3> QED BY <1>0, <3>1, <3>2, <3>3, <3>4 DEF Scheduled, Allowed, Timing, d
  <2> QED BY <2>2, <2>3, <2>4
<1> QED BY <1>1, <1>2

\* The client's own TEARDOWN, or the removal in its stead: the session is
\* given up or gone.
LEMMA GiveUpScheduled ==
    ASSUME NEW c, Good(c), ~c.is_pending, NEW s \in c.sessions, NEW res,
           s \notin c.keep_alive, Allowed(c, "GET_PARAMETER"),
           \A t \in SessionIds : t # s => ArmedAt(c, t)
    PROVE  Scheduled(GiveUp(c, s, res))
<1> DEFINE q == [method |-> "TEARDOWN", cseq |-> c.cseq,
                 session |-> IF res = "EAUTH" THEN NoSession ELSE s,
                 media |-> NoMedia]
           b == clear_pending_keep_alive_timer(c)
           h == SetHeader(b, q)
           w == TakeSlot(b, q)
           v == [w EXCEPT !.req_timer = TRUE \/ @, !.wire = @ \cup {q}]
           e == [v EXCEPT !.is_internal = TRUE,
                          !.internal_teardown = @ \cup {s}]
           r == remove_session_internal(c, s)
<1>0. c \in Client /\ s \in SessionIds
  BY DEF Good, Client
<1>1. q \in Request /\ q.cseq = c.cseq /\ q.method = "TEARDOWN" /\ q.media = NoMedia
      /\ (res = "OK" => q.session = s)
  BY <1>0 DEF Request, Methods, SessionMethods, SessionOrNone, MediaOrNone, Client
<1>2. GiveUp(c, s, res) =
          IF send_teardown_ok(c, s, res) THEN e
          ELSE IF ~CanRequest(c, "TEARDOWN") THEN r
          ELSE remove_session_internal(h, s)
  BY DEF GiveUp, send_teardown, SendRequest, send_teardown_ok
<1>3. Good(b) /\ b.cseq = c.cseq /\ Timing(c, b) /\ Slotting(c, b)
  BY <1>0, ClearTimerGood, SlotTiming
<1> HIDE DEF b, q
<1>4. Good(h) /\ Good(w) /\ Timing(b, h) /\ Timing(b, w)
      /\ w.request = q /\ w.is_pending
  BY <1>1, <1>3, SetHeaderGood, TakeSlotGood, SlotTiming DEF Good
<1>5. \A d : d \in Client /\ Timing(c, d) => Scheduled(remove_session_internal(d, s))
  <2> SUFFICES ASSUME NEW d \in Client, Timing(c, d)
               PROVE  Scheduled(remove_session_internal(d, s))
    OBVIOUS
  <2> DEFINE x == remove_session_internal(d, s)
  <2>1. s \in d.sessions /\ \A t \in SessionIds : t # s => ArmedAt(d, t)
    BY TimingFrame DEF Timing
  <2>2. /\ x.methods_allowed = d.methods_allowed
        /\ \A t \in SessionIds : ArmedAt(x, t)
    BY <2>1, RemoveArmed
  <2> HIDE DEF x
  <2>3. Scheduled(x)
    BY <2>2 DEF Scheduled, Allowed, Timing
  <2> QED BY <2>3 DEF x
<1>6. Scheduled(r)
  <2>1. Timing(c, c)
    BY DEF Timing
  <2> QED BY <1>0, <1>5, <2>1
<1>7. Scheduled(remove_session_internal(h, s))
  <2>1. Timing(c, h) /\ h \in Client
    BY <1>3, <1>4 DEF Timing, Good
  <2> HIDE DEF h
  <2> QED BY <1>5, <2>1
<1>8. ASSUME send_teardown_ok(c, s, res) PROVE Scheduled(e)
  <2> HIDE DEF w
  <2>1. v \in Client /\ Timing(w, v) /\ v.request = w.request /\ v.is_pending
    <3>1. w \in Client /\ (TRUE \/ w.req_timer) \in BOOLEAN
          /\ w.wire \cup {q} \in SUBSET Request
      BY <1>1, <1>4 DEF Good, Client
    <3>2. v \in Client
      BY <3>1 DEF Client
    <3>3. Timing(w, v) /\ v.request = w.request /\ v.is_pending = w.is_pending
      BY <3>1 DEF Client, Timing
    <3> QED BY <1>4, <3>2, <3>3
  <2> HIDE DEF v
  <2>2. /\ Timing(v, e) /\ e.request = v.request /\ e.is_pending
        /\ s \in e.internal_teardown
    BY <2>1 DEF Client, Timing
  <2> HIDE DEF e
  <2>3. Timing(c, e)
    BY <1>3, <1>4, <2>1, <2>2 DEF Timing
  <2>4. GivenUp(e, s)
    BY <1>1, <1>4, <1>8, <2>1, <2>2, <2>3 DEF GivenUp, Timing, send_teardown_ok
  <2>5. \A t \in SessionIds : t # s => ArmedAt(e, t)
    BY <2>3, TimingFrame
  <2> QED BY <2>3, <2>4, <2>5 DEF Scheduled, Allowed, Timing
<1> HIDE DEF e, r, h
<1> QED BY <1>2, <1>6, <1>7, <1>8

\* The timeout of a keep-alive whose slot is free again: the session is tried
\* once more, or given up.
LEMMA KeepAliveTimeoutScheduled ==
    ASSUME NEW c, Good(c), Connection(c), ~c.is_pending, Armed(c),
           NEW s \in c.sessions, s \notin c.keep_alive,
           NEW res \in {"OK", "EAGAIN"}
    PROVE  Scheduled(keep_alive_timeout(c, s, res))
<1> DEFINE n == c.failed_keep_alive[s] + 1
           g == [c.failed_keep_alive EXCEPT ![s] = n]
           d == [c EXCEPT !.failed_keep_alive = g]
           e == [d EXCEPT !.timer = @ \ {s}]
<1>0. c \in Client /\ s \in SessionIds
  BY DEF Good, Client
<1>1. keep_alive_timeout(c, s, res) =
          IF n < MaxFailedKeepAlive THEN send_keep_alive(d, s, res)
          ELSE GiveUp(e, s, res)
  BY DEF keep_alive_timeout
<1>2. /\ g \in [SessionIds -> Nat] /\ g[s] = n
      /\ \A t \in SessionIds : t # s => g[t] = c.failed_keep_alive[t]
  BY <1>0 DEF Client
<1> HIDE DEF g, n
<1>3. /\ d \in Client /\ Same(c, d) /\ SameConn(c, d)
      /\ d.methods_allowed = c.methods_allowed /\ d.failed_keep_alive = g
      /\ d.timer = c.timer /\ d.keep_alive = c.keep_alive
  BY <1>0, <1>2 DEF Client, Same, SameConn
<1> HIDE DEF d
<1>4. Good(d) /\ d.sessions = c.sessions /\ ~d.is_pending
      /\ Allowed(d, "GET_PARAMETER")
  BY <1>3, SameGood DEF Same, Armed, Allowed
<1>5. Connection(d)
  BY <1>3, <1>4, LocalConnection DEF Local
<1>6. \A t \in SessionIds : t # s => ArmedAt(d, t)
  BY <1>2, <1>3, <1>4 DEF Armed, ArmedAt
<1>7. CASE n < MaxFailedKeepAlive
  <2>1. Due(d, s)
    BY <1>2, <1>3, <1>4, <1>6, <1>7 DEF Due
  <2> QED BY <1>1, <1>4, <1>5, <1>7, <2>1, KeepAliveScheduledAnew
<1>8. CASE ~(n < MaxFailedKeepAlive)
  <2>1. /\ e \in Client /\ Same(d, e) /\ e.timer = d.timer \ {s}
        /\ e.methods_allowed = d.methods_allowed
        /\ e.keep_alive = d.keep_alive
        /\ e.failed_keep_alive = d.failed_keep_alive
    BY <1>3 DEF Client, Same
  <2> HIDE DEF e
  <2>2. Good(e) /\ ~e.is_pending /\ s \in e.sessions /\ s \notin e.keep_alive
        /\ Allowed(e, "GET_PARAMETER")
    BY <1>3, <1>4, <2>1, SameGood DEF Same, Allowed
  <2>3. \A t \in SessionIds : t # s => ArmedAt(e, t)
    BY <1>6, <2>1 DEF ArmedAt, Same
  <2>4. Scheduled(GiveUp(e, s, res))
    BY <2>2, <2>3, GiveUpScheduled
  <2> QED BY <1>1, <1>8, <2>4
<1> QED BY <1>7, <1>8

(***************************************************************************)
(* Completion of the request in the slot                                   *)
(***************************************************************************)

\* d is c with the request of its slot completed, but for the removal of the
\* session: the one that was given up is still there.
Half(c, d) ==
    /\ Allowed(d, "GET_PARAMETER") /\ ~d.is_pending
    /\ \A t \in SessionIds :
          ArmedAt(d, t) \/ (GivenUp(c, t) /\ t \in d.sessions)

\* Half depends on the timers alone, once the slot is free.
LEMMA HalfFrame ==
    ASSUME NEW c, NEW d, NEW e, Half(c, d), Timing(d, e), ~e.is_pending
    PROVE  Half(c, e)
<1>1. \A t \in SessionIds : ArmedAt(d, t) => ArmedAt(e, t)
  BY TimingFrame
<1> QED BY <1>1 DEF Half, Timing, Allowed

\* The callbacks do not touch the timers.
LEMMA CallbackTiming ==
    ASSUME NEW d \in Client, NEW n
    PROVE  /\ Callback(d, n) \in Client /\ Timing(d, Callback(d, n))
           /\ Timing(d, Forget(d, n))
BY DEF Callback, Forget, Client, Timing

\* Nor does a change of the medias.
LEMMA MediasTiming ==
    ASSUME NEW d \in Client, NEW s, NEW ms
    PROVE  Timing(d, [d EXCEPT !.medias[s] = ms])
<1> DEFINE f == [d.medias EXCEPT ![s] = ms]
           e == [d EXCEPT !.medias = f]
<1> HIDE DEF f
<1>1. Timing(d, e)
  BY DEF Client, Timing
<1> QED BY <1>1 DEF f

\* setup_request_complete() does not touch the timers.
LEMMA SetupTiming ==
    ASSUME NEW d \in Client, NEW q, NEW sid, NEW status
    PROVE  Timing(d, setup_request_complete(d, q, sid, status))
<1> DEFINE x == Callback(d, q.cseq)
           ms == x.medias[sid] \cup {q.media}
           y == [x EXCEPT !.medias[sid] = ms]
<1>1. setup_request_complete(d, q, sid, status) =
          IF status = "OK" /\ sid \in d.sessions THEN y ELSE x
  BY DEF setup_request_complete
<1>2. x \in Client /\ Timing(d, x)
  BY CallbackTiming
<1> HIDE DEF x
<1>3. Timing(x, y)
  BY <1>2, MediasTiming
<1> HIDE DEF y
<1> QED BY <1>1, <1>2, <1>3 DEF Timing

\* Nor does teardown_request_complete(): the session is removed later.
LEMMA TeardownTiming ==
    ASSUME NEW d \in Client, NEW q, NEW sid
    PROVE  Timing(d, teardown_request_complete(d, q, sid))
<1> DEFINE x == Callback(d, q.cseq)
           y == [x EXCEPT !.is_internal = FALSE]
           z == IF sid \in d.internal_teardown THEN d ELSE y
           ms == z.medias[sid] \ {q.media}
           w == [z EXCEPT !.medias[sid] = ms]
           p == Forget(d, q.cseq)
<1>1. teardown_request_complete(d, q, sid) =
          IF sid \notin d.sessions THEN IF d.is_internal THEN d ELSE y
          ELSE IF UnknownMedia(d, q, sid) THEN p ELSE w
  BY DEF teardown_request_complete
<1>2. Timing(d, p) /\ Timing(d, d)
  BY CallbackTiming DEF Timing
<1>3. x \in Client /\ Timing(d, x)
  BY CallbackTiming
<1> HIDE DEF x
<1>4. y \in Client /\ Timing(x, y)
  BY <1>3 DEF Client, Timing
<1> HIDE DEF y
<1>5. z \in Client /\ Timing(d, z)
  BY <1>2, <1>3, <1>4 DEF Timing
<1> HIDE DEF z
<1>6. Timing(z, w)
  BY <1>5, MediasTiming
<1> HIDE DEF p, w
<1> QED BY <1>1, <1>2, <1>3, <1>4, <1>5, <1>6 DEF Timing

\* The first half of request_complete(): the session the answer is about no
\* longer waits, and its timer is armed.
LEMMA AliveHalf ==
    ASSUME NEW c, Good(c), Scheduled(c), NEW sid,
           Completing(c, c.request, sid)
    PROVE  LET d == SessionAlive(ClearSlot(c), c.request, sid)
           IN  /\ Half(c, d) /\ c.sessions \subseteq d.sessions
               /\ sid \in d.sessions => sid \notin d.keep_alive
<1> DEFINE q == c.request
           x == ClearSlot(c)
           y == IF q.method = "SETUP" /\ sid # NoSession
                THEN get_session_add(x, sid) ELSE x
           v == [y EXCEPT !.keep_alive = @ \ {sid}]
           z == RetryLater(v, sid)
           d == SessionAlive(x, q, sid)
<1>0. c \in Client /\ sid \in SessionOrNone
  BY DEF Good, Completing
<1>1. x \in Client /\ Timing(c, x)
  <2>1. NoRequest \in Request
    BY DEF NoRequest, Request, SessionOrNone, MediaOrNone
  <2> QED BY <1>0, <2>1 DEF ClearSlot, Client, Timing
<1>2. d = IF sid \notin y.sessions THEN y ELSE z
  BY DEF SessionAlive
<1>3. ~d.is_pending
  BY <1>0, SessionAliveFreed DEF Freed
<1> HIDE DEF x
<1>4. /\ y \in Client /\ y.methods_allowed = x.methods_allowed
      /\ y.timer = x.timer /\ y.keep_alive = x.keep_alive
      /\ y.failed_keep_alive = x.failed_keep_alive
      /\ y.sessions = x.sessions \/ y.sessions = x.sessions \cup {sid}
  <2> DEFINE g == [x EXCEPT !.sessions = @ \cup {sid}]
  <2>1. CASE y = x
    BY <1>1, <2>1
  <2>2. CASE y = g /\ sid # NoSession
    <3>1. sid \in SessionIds
      BY <1>0, <2>2 DEF SessionOrNone
    <3>2. /\ g \in Client /\ g.methods_allowed = x.methods_allowed
          /\ g.timer = x.timer /\ g.keep_alive = x.keep_alive
          /\ g.failed_keep_alive = x.failed_keep_alive
          /\ g.sessions = x.sessions \cup {sid}
      BY <1>1, <3>1 DEF Client
    <3> HIDE DEF g, y
    <3> QED BY <2>2, <3>2
  <2> QED BY <2>1, <2>2 DEF get_session_add
<1> HIDE DEF y
<1>5. /\ z.methods_allowed = y.methods_allowed
      /\ z.timer = y.timer \cup {sid} /\ z.keep_alive = y.keep_alive \ {sid}
      /\ z.failed_keep_alive = y.failed_keep_alive
      /\ z.sessions = y.sessions
  <2>1. v \in Client /\ v.keep_alive = y.keep_alive \ {sid}
        /\ v.methods_allowed = y.methods_allowed
        /\ v.timer = y.timer /\ v.failed_keep_alive = y.failed_keep_alive
        /\ v.sessions = y.sessions
    BY <1>4 DEF Client
  <2> HIDE DEF v
  <2> QED BY <2>1 DEF RetryLater, Client
<1> HIDE DEF z, v
<1>6. Allowed(d, "GET_PARAMETER")
  BY <1>1, <1>2, <1>4, <1>5 DEF Scheduled, Allowed, Timing
<1>7. /\ d.failed_keep_alive = c.failed_keep_alive
      /\ c.sessions \subseteq d.sessions
      /\ d.sessions \subseteq c.sessions \cup {sid}
  BY <1>1, <1>2, <1>4, <1>5 DEF Timing
<1>8. ASSUME NEW t \in SessionIds
      PROVE  ArmedAt(d, t) \/ (GivenUp(c, t) /\ t \in d.sessions)
  <2>1. ArmedAt(c, t) \/ GivenUp(c, t)
    BY DEF Scheduled
  <2>2. GivenUp(c, t) => t = sid
    BY ClientAssumption DEF GivenUp, Completing
  <2>3. CASE GivenUp(c, t)
    BY <1>7, <2>3 DEF GivenUp
  <2>4. CASE ArmedAt(c, t) /\ t # sid
    <3>1. t \in c.timer \cup c.keep_alive => t \in d.timer \cup d.keep_alive
      BY <1>1, <1>2, <1>4, <1>5, <2>4 DEF Timing
    <3> QED BY <1>7, <2>4, <3>1 DEF ArmedAt
  <2>5. CASE ArmedAt(c, t) /\ t = sid
    <3>1. t \in d.sessions => t \in d.timer
      BY <1>2, <1>5, <2>5
    <3>2. c.failed_keep_alive[t] < MaxFailedKeepAlive
      BY <2>5, ClientAssumption DEF ArmedAt
    <3>3. t \notin d.sessions => c.failed_keep_alive[t] = 0
      BY <1>7, <2>5 DEF ArmedAt
    <3> QED BY <1>7, <3>1, <3>2, <3>3 DEF ArmedAt
  <2> QED BY <2>1, <2>3, <2>4, <2>5
<1>9. sid \in d.sessions => sid \notin d.keep_alive
  BY <1>2, <1>5
<1>10. Half(c, d) /\ c.sessions \subseteq d.sessions
      /\ (sid \in d.sessions => sid \notin d.keep_alive)
  <2> HIDE DEF d
  <2> QED BY <1>3, <1>6, <1>7, <1>8, <1>9 DEF Half
<1> QED BY <1>10 DEF x

\* Whatever the method, the other sessions stay scheduled, and the one of the
\* answer no longer waits.  A list of methods without GET_PARAMETER would end
\* the keep-alives.
LEMMA CompletedHalf ==
    ASSUME NEW c, Good(c), Scheduled(c), NEW resp \in Response,
           Completing(c, c.request, SessionOf(c.request, resp)), NEW status,
           resp.public = {} \/ "GET_PARAMETER" \in resp.public
    PROVE  LET e == Completed(c, resp, status)
               sid == SessionOf(c.request, resp)
           IN  /\ Half(c, e) /\ c.sessions \subseteq e.sessions
               /\ sid \in e.sessions => sid \notin e.keep_alive
<1> DEFINE q == c.request
           sid == SessionOf(q, resp)
           d == SessionAlive(ClearSlot(c), q, sid)
           e == Completed(c, resp, status)
<1>1. /\ Half(c, d) /\ c.sessions \subseteq d.sessions
      /\ sid \in d.sessions => sid \notin d.keep_alive
  BY AliveHalf
<1>2. d \in Client
  BY SessionAliveFreed DEF Completing, Freed
<1>3. ~e.is_pending
  BY CompletedFreed DEF Freed
<1> SUFFICES Half(c, e) /\ e.sessions = d.sessions /\ e.keep_alive = d.keep_alive
  BY <1>1
<1>4. ASSUME Timing(d, e)
      PROVE  Half(c, e) /\ e.sessions = d.sessions /\ e.keep_alive = d.keep_alive
  <2> HIDE DEF d, e
  <2> QED BY <1>1, <1>3, <1>4, HalfFrame DEF Timing
<1>5. CASE q.method = "OPTIONS"
  <2> DEFINE o == [d EXCEPT !.methods_allowed = resp.public]
  <2>1. e = Callback(o, q.cseq)
    BY <1>5 DEF Completed, Methods, SessionlessMethods, SessionMethods
  <2> HIDE DEF d, e
  <2>2. /\ o \in Client /\ o.methods_allowed = resp.public
        /\ o.sessions = d.sessions /\ o.timer = d.timer
        /\ o.keep_alive = d.keep_alive
        /\ o.failed_keep_alive = d.failed_keep_alive
        /\ o.is_pending = d.is_pending
    BY <1>2 DEF Client, Response
  <2> HIDE DEF o
  <2>3. \A t \in SessionIds : ArmedAt(d, t) => ArmedAt(o, t)
    BY <2>2 DEF ArmedAt
  <2>4. Half(c, o)
    BY <1>1, <2>2, <2>3 DEF Half, Allowed
  <2>5. Timing(o, e)
    BY <2>1, <2>2, CallbackTiming
  <2> QED BY <1>3, <2>2, <2>4, <2>5, HalfFrame DEF Timing
<1>6. CASE q.method = "SETUP"
  <2>1. e = setup_request_complete(d, q, sid, status)
    BY <1>6 DEF Completed, Methods, SessionlessMethods, SessionMethods
  <2> HIDE DEF d, e
  <2> QED BY <1>2, <1>4, <2>1, SetupTiming
<1>7. CASE q.method = "TEARDOWN"
  <2>1. e = teardown_request_complete(d, q, sid)
    BY <1>7 DEF Completed, Methods, SessionlessMethods, SessionMethods
  <2> HIDE DEF d, e
  <2> QED BY <1>2, <1>4, <2>1, TeardownTiming
<1>8. CASE q.method = "GET_PARAMETER"
  <2> DEFINE f == [d.failed_keep_alive EXCEPT ![sid] = 0]
             k == [d EXCEPT !.failed_keep_alive = f]
  <2>1. e = IF sid \in d.sessions /\ status # "TIMEOUT" THEN k ELSE d
    BY <1>8 DEF Completed, Methods, SessionlessMethods, SessionMethods
  <2>2. Timing(d, d)
    BY DEF Timing
  <2> HIDE DEF d, e
  <2>3. \A t \in SessionIds : f[t] = 0 \/ f[t] = d.failed_keep_alive[t]
    BY <1>2 DEF Client
  <2> HIDE DEF f
  <2>4. /\ k.methods_allowed = d.methods_allowed
        /\ k.sessions = d.sessions /\ k.timer = d.timer
        /\ k.keep_alive = d.keep_alive
        /\ k.failed_keep_alive = f /\ k.is_pending = d.is_pending
    BY <1>2 DEF Client
  <2> HIDE DEF k
  <2>5. \A t \in SessionIds : ArmedAt(d, t) => ArmedAt(k, t)
    BY <2>3, <2>4, ClientAssumption DEF ArmedAt
  <2>6. Half(c, k)
    BY <1>1, <2>4, <2>5 DEF Half, Allowed
  <2> QED BY <1>4, <2>1, <2>2, <2>4, <2>6
<1>9. CASE q.method \in {"DESCRIBE", "ANNOUNCE", "PLAY", "PAUSE", "RECORD"}
  <2>1. e = Callback(d, q.cseq)
    BY <1>9 DEF Completed, Methods, SessionlessMethods, SessionMethods
  <2> HIDE DEF d, e
  <2> QED BY <1>2, <1>4, <2>1, CallbackTiming
<1>10. CASE q.method \notin Methods
  <2>1. e = d
    BY <1>10 DEF Completed, Methods, SessionlessMethods, SessionMethods
  <2> HIDE DEF d, e
  <2> QED BY <1>1, <2>1
<1>11. \/ q.method \in {"OPTIONS", "SETUP", "TEARDOWN", "GET_PARAMETER"}
       \/ q.method \in {"DESCRIBE", "ANNOUNCE", "PLAY", "PAUSE", "RECORD"}
       \/ q.method \notin Methods
  BY DEF Methods, SessionlessMethods, SessionMethods
<1> HIDE DEF d, e
<1> QED BY <1>5, <1>6, <1>7, <1>8, <1>9, <1>10, <1>11

\* The removal at the end of request_complete() takes the session that was
\* given up.
LEMMA HalfArmed ==
    ASSUME NEW c, Good(c), NEW resp \in Response,
           Completing(c, c.request, SessionOf(c.request, resp)),
           NEW d \in Client, Half(c, d)
    PROVE  Armed(IF SessionRemoved(c, resp)
                 THEN remove_session_internal(d, SessionOf(c.request, resp))
                 ELSE d)
<1> DEFINE sid == SessionOf(c.request, resp)
           r == remove_session_internal(d, sid)
<1>1. ASSUME NEW t, GivenUp(c, t), t \in SessionIds
      PROVE  t = sid /\ SessionRemoved(c, resp)
  <2>1. t = sid
    BY <1>1, ClientAssumption DEF GivenUp, Completing
  <2> HIDE DEF sid
  <2> QED BY <1>1, <2>1 DEF GivenUp, SessionRemoved, UnknownMedia,
                            TeardownRemoves, sid
<1> HIDE DEF sid
<1>2. /\ r.methods_allowed = d.methods_allowed
      /\ \A t \in SessionIds :
            ArmedAt(d, t) \/ (t = sid /\ sid \in d.sessions) => ArmedAt(r, t)
  BY RemoveArmed
<1> HIDE DEF r
<1>3. Armed(r)
  BY <1>1, <1>2 DEF Half, Armed, Allowed
<1>4. ~SessionRemoved(c, resp) => Armed(d)
  BY <1>1 DEF Half, Armed
<1> QED BY <1>3, <1>4 DEF r, sid

\* request_complete() with a status other than TIMEOUT arms every session.
LEMMA CompleteArmed ==
    ASSUME NEW c, Good(c), Scheduled(c), NEW resp \in Response, NEW status,
           c.request.session # NoSession =>
               resp.session \in {c.request.session, NoSession},
           resp.public = {} \/ "GET_PARAMETER" \in resp.public
    PROVE  Armed(request_complete(c, resp, status))
<1> DEFINE q == c.request
           sid == SessionOf(q, resp)
           final == IF status = "OK" /\ resp.code # "2xx" THEN "FAILED"
                    ELSE status
           d == Completed(c, resp, final)
           e == IF SessionRemoved(c, resp)
                THEN remove_session_internal(d, sid) ELSE d
           f == [e EXCEPT !.failed_requests = 0]
<1>1. CASE ~c.is_pending
  BY <1>1, ArmedScheduled DEF request_complete
<1>2. CASE c.is_pending
  <2>1. request_complete(c, resp, status) = f
    BY <1>2 DEF request_complete
  <2>2. Completing(c, q, sid)
    BY DEF Completing, SessionOf, Good, Client, Request, Response
  <2>3. Freed(c, d) /\ d.owed = {} /\ Half(c, d)
    BY <2>2, CompletedFreed, CompletedHalf
  <2> HIDE DEF d
  <2>4. Armed(e)
    BY <2>2, <2>3, HalfArmed DEF Freed
  <2>5. e \in Client
    <3>1. Good(d)
      BY <2>3, FreedGood
    <3> QED BY <3>1, RemoveSessionInternal DEF Good
  <2> HIDE DEF e
  <2>6. Timing(e, f)
    BY <2>5 DEF Client, Timing
  <2> HIDE DEF f
  <2> QED BY <2>1, <2>4, <2>6, TimingFrame
<1> QED BY <1>1, <1>2

\* request_complete() with a made-up response.
LEMMA DummyArmed ==
    ASSUME NEW c, Good(c), Scheduled(c), NEW status
    PROVE  Armed(request_complete(c, Dummy(c), status))
<1>1. /\ Dummy(c) \in Response /\ Dummy(c).session = c.request.session
      /\ Dummy(c).public = {}
  BY DummyResponse DEF Dummy
<1> QED BY <1>1, CompleteArmed

(***************************************************************************)
(* Connection                                                              *)
(***************************************************************************)

\* set_connection_state() touches neither timers nor slot.
LEMMA StateTiming ==
    ASSUME NEW c \in Client, NEW st
    PROVE  LET d == set_connection_state(c, st)
           IN  Timing(c, d) /\ Slotting(c, d)
BY DEF set_connection_state, Client, Timing, Slotting

\* A client that is disconnected has no request in its slot.
LEMMA EventDisconnectedArmed ==
    ASSUME NEW c, Good(c), Scheduled(c),
           c.is_pending => c.conn_state \in {"CONNECTED", "DISCONNECTING"}
    PROVE  Armed(event_disconnected(c))
<1> DEFINE x == [c EXCEPT !.sock = FALSE, !.wire = {}]
           y == [x EXCEPT !.remote = FALSE]
           d == event_disconnected(c)
<1>1. Good(x) /\ Scheduled(x) /\ x.is_pending = c.is_pending
  <2>1. x \in Client
    BY DEF Good, Client
  <2>2. Same(c, x) /\ Timing(c, x) /\ Slotting(c, x)
    BY DEF Good, Client, Same, Timing, Slotting
  <2> HIDE DEF x
  <2> QED BY <2>1, <2>2, SameGood, TimingFrame DEF Same
<1>2. Good(y) /\ Scheduled(y)
  <2> HIDE DEF x
  <2>1. y \in Client
    BY <1>1 DEF Good, Client
  <2>2. Same(x, y) /\ Timing(x, y) /\ Slotting(x, y)
    BY <1>1 DEF Good, Client, Same, Timing, Slotting
  <2> HIDE DEF y
  <2> QED BY <1>1, <2>1, <2>2, SameGood, TimingFrame
<1>3. ASSUME NEW z, Good(z), Scheduled(z), NEW st
      PROVE  Armed(set_connection_state(abort_request(z), st))
  <2> DEFINE a == abort_request(z)
  <2>1. Good(a) /\ Armed(a)
    BY <1>3, AbortRequestGood, DummyArmed DEF abort_request
  <2> HIDE DEF a
  <2>2. Timing(a, set_connection_state(a, st))
    BY <2>1, StateTiming DEF Good
  <2>3. Armed(set_connection_state(a, st))
    BY <2>1, <2>2, TimingFrame
  <2> QED BY <2>3 DEF a
<1>4. CASE c.conn_state = "DISCONNECTING"
  <2>1. d = set_connection_state(abort_request(y), "DISCONNECTED")
    BY <1>4 DEF event_disconnected
  <2> HIDE DEF y
  <2> QED BY <1>2, <1>3, <2>1
<1>5. CASE c.conn_state = "CONNECTED"
  <2>1. d = set_connection_state(abort_request(x), "CONNECTING")
    BY <1>5 DEF event_disconnected
  <2> HIDE DEF x
  <2> QED BY <1>1, <1>3, <2>1
<1>6. CASE c.conn_state \notin {"CONNECTED", "DISCONNECTING"}
  <2>1. d = x
    BY <1>6 DEF event_disconnected
  <2> HIDE DEF x
  <2> QED BY <1>1, <1>6, <2>1, ArmedScheduled
<1> QED BY <1>4, <1>5, <1>6

\* tskt_client_stop(), with the event it delivers.
LEMMA TsktClientStopArmed ==
    ASSUME NEW c, Good(c), Scheduled(c),
           c.is_pending => /\ c.tskt = "connected"
                           /\ c.conn_state \in {"CONNECTED", "DISCONNECTING"}
    PROVE  Armed(tskt_client_stop(c))
<1> DEFINE x == [c EXCEPT !.tskt = "stopped"]
           d == tskt_client_stop(c)
<1>1. d = IF c.tskt = "connected" THEN event_disconnected(x) ELSE x
  BY DEF tskt_client_stop
<1>2. Good(x) /\ Scheduled(x) /\ x.is_pending = c.is_pending
      /\ x.conn_state = c.conn_state
  <2>1. x \in Client
    BY DEF Good, Client
  <2>2. /\ Same(c, x) /\ Timing(c, x) /\ Slotting(c, x)
        /\ x.conn_state = c.conn_state
    BY DEF Good, Client, Same, Timing, Slotting
  <2> HIDE DEF x
  <2> QED BY <2>1, <2>2, SameGood, TimingFrame DEF Same
<1> HIDE DEF x
<1>3. c.tskt = "connected" => Armed(event_disconnected(x))
  BY <1>2, EventDisconnectedArmed
<1>4. c.tskt # "connected" => Armed(x)
  BY <1>2, ArmedScheduled
<1> QED BY <1>1, <1>3, <1>4

\* rtsp_client_disconnect() leaves no session.
LEMMA DisconnectScheduled ==
    ASSUME NEW c, Good(c), Connection(c), Scheduled(c)
    PROVE  Scheduled(rtsp_client_disconnect(c))
<1> DEFINE x == set_connection_state(c, "DISCONNECTING")
           d == tskt_client_stop(x)
           y == [d EXCEPT !.remote = FALSE]
           a == abort_request(y)
           z == set_connection_state(a, "DISCONNECTED")
           e == IF c.conn_state = "CONNECTING" THEN z ELSE d
           f == remove_all_sessions(e)
<1>1. CASE c.conn_state \in {"DISCONNECTED", "DISCONNECTING", "DESTROYED"}
  BY <1>1 DEF rtsp_client_disconnect
<1>2. CASE c.conn_state \notin {"DISCONNECTED", "DISCONNECTING", "DESTROYED"}
  <2>1. rtsp_client_disconnect(c) = f
    BY <1>2 DEF rtsp_client_disconnect
  <2>2. /\ Good(x) /\ Scheduled(x) /\ x.conn_state = "DISCONNECTING"
        /\ x.tskt = c.tskt /\ x.is_pending = c.is_pending
    <3>1. "DISCONNECTING" \in States
      BY DEF States
    <3>2. /\ Good(x) /\ SameSlot(c, x) /\ x.conn_state = "DISCONNECTING"
          /\ x.tskt = c.tskt
      BY <3>1, SetState
    <3>3. Timing(c, x) /\ Slotting(c, x)
      BY StateTiming DEF Good
    <3> HIDE DEF x
    <3> QED BY <3>2, <3>3, TimingFrame DEF SameSlot
  <2> HIDE DEF x
  <2>3. x.is_pending => x.tskt = "connected"
    BY <2>2 DEF Connection
  <2>4. Good(d) /\ Armed(d)
    BY <2>2, <2>3, TsktClientStopGood, TsktClientStopArmed
  <2> HIDE DEF d
  <2>5. Good(y) /\ Scheduled(y)
    <3>1. y \in Client
      BY <2>4 DEF Good, Client
    <3>2. Same(d, y) /\ Timing(d, y)
      BY <2>4 DEF Good, Client, Same, Timing
    <3> HIDE DEF y
    <3> QED BY <2>4, <3>1, <3>2, SameGood, TimingFrame, ArmedScheduled
  <2> HIDE DEF y
  <2>6. Good(a) /\ Armed(a)
    BY <2>5, AbortRequestGood, DummyArmed DEF abort_request
  <2> HIDE DEF a
  <2>7. Good(z) /\ Armed(z)
    <3>1. "DISCONNECTED" \in States
      BY DEF States
    <3>2. Good(z) /\ Timing(a, z)
      BY <2>6, <3>1, SetState, StateTiming DEF Good
    <3> HIDE DEF z
    <3> QED BY <2>6, <3>2, TimingFrame
  <2> HIDE DEF z
  <2>8. Good(e) /\ Armed(e)
    BY <2>4, <2>7
  <2> HIDE DEF e
  <2>9. Armed(f)
    BY <2>8, RemoveAllArmed DEF Good, Armed
  <2> HIDE DEF f
  <2> QED BY <2>1, <2>9, ArmedScheduled
<1> QED BY <1>1, <1>2

\* request_complete() with status TIMEOUT: a keep-alive is tried again or its
\* session given up, any other request arms its session; then the connection
\* may be closed.
LEMMA RequestTimeoutScheduled ==
    ASSUME NEW c, Good(c), Connection(c), Scheduled(c),
           NEW res \in {"OK", "EAGAIN"}, NEW connect_ok \in BOOLEAN
    PROVE  Scheduled(request_timeout(c, res, connect_ok))
<1> DEFINE q == c.request
           resp == Dummy(c)
           sid == q.session
           d == Completed(c, resp, "TIMEOUT")
           k == keep_alive_timeout(d, sid, res)
           r == IF SessionRemoved(c, resp)
                THEN remove_session_internal(d, sid) ELSE d
           e == IF q.method = "GET_PARAMETER" /\ sid \in d.sessions
                THEN k ELSE r
           f == [e EXCEPT !.failed_requests = @ + 1]
           g == tskt_client_stop(f)
           h == set_connection_state(g, "CONNECTING")
           i == [h EXCEPT !.tskt = IF connect_ok THEN "connecting" ELSE @]
<1>1. CASE ~c.is_pending
  BY <1>1 DEF request_timeout
<1>2. CASE c.is_pending
  <2>1. request_timeout(c, res, connect_ok) =
            IF f.failed_requests < MaxFailedRequests THEN f ELSE i
    BY <1>2 DEF request_timeout
  <2>2. /\ resp \in Response /\ SessionOf(q, resp) = sid /\ resp.public = {}
        /\ Completing(c, q, SessionOf(q, resp))
    <3>1. resp \in Response /\ SessionOf(q, resp) = sid /\ sid \in SessionOrNone
      BY DummyResponse DEF SessionOf, Good, Client, Request
    <3>2. resp.public = {}
      BY DEF Dummy
    <3> HIDE DEF resp
    <3> QED BY <3>1, <3>2 DEF Completing
  <2> HIDE DEF resp
  <2>3. /\ Freed(c, d) /\ d.owed = {} /\ Half(c, d)
        /\ sid \in d.sessions => sid \notin d.keep_alive
    BY <2>2, CompletedFreed, CompletedHalf
  <2> HIDE DEF d, sid
  <2>4. Good(d) /\ SameConn(c, d) /\ ~d.is_pending
    BY <2>3, FreedGood DEF Freed
  <2>5. /\ c.conn_state = "CONNECTED" /\ c.tskt = "connected"
        /\ Connection(d)
    <3>1. c.conn_state = "CONNECTED" /\ c.tskt = "connected"
      BY <1>2 DEF Connection
    <3> QED BY <2>4, <3>1, ConnectedConnection
  <2>6. ASSUME q.method = "GET_PARAMETER" /\ sid \in d.sessions
        PROVE  Scheduled(k) /\ Good(k) /\ SameConn(c, k)
    <3>1. Armed(d)
      BY <2>3, <2>6 DEF Half, GivenUp, Armed
    <3>2. Scheduled(k)
      BY <2>3, <2>4, <2>5, <2>6, <3>1, KeepAliveTimeoutScheduled
    <3>3. Local(d, k)
      BY <2>4, <2>6, KeepAliveTimeoutGood
    <3> HIDE DEF k
    <3> QED BY <2>4, <3>2, <3>3 DEF Local, SameConn
  <2> HIDE DEF k
  <2>7. Scheduled(r) /\ Good(r) /\ SameConn(c, r)
    <3>1. Armed(r)
      BY <2>2, <2>3, HalfArmed DEF Freed
    <3>2. Good(r) /\ SameConn(d, r)
      <4>1. SameConn(d, d)
        BY DEF SameConn
      <4> QED BY <2>4, <4>1, RemoveSessionInternal
    <3> HIDE DEF r
    <3> QED BY <2>4, <3>1, <3>2, ArmedScheduled DEF SameConn
  <2> HIDE DEF r
  <2>8. Scheduled(e) /\ Good(e) /\ SameConn(c, e)
    BY <2>6, <2>7
  <2> HIDE DEF e
  <2>9. Scheduled(f) /\ Good(f) /\ SameConn(c, f)
    <3>1. e \in Client /\ e.failed_requests + 1 \in Nat
      BY <2>8 DEF Good, Client
    <3>2. f \in Client
      BY <3>1 DEF Client
    <3>3. Same(e, f) /\ SameConn(e, f) /\ Timing(e, f) /\ Slotting(e, f)
      BY <3>1 DEF Client, Same, SameConn, Timing, Slotting
    <3> HIDE DEF f
    <3> QED BY <2>8, <3>2, <3>3, SameGood, TimingFrame DEF SameConn
  <2> HIDE DEF f
  <2>10. Good(g) /\ Armed(g)
    BY <2>5, <2>9, TsktClientStopGood, TsktClientStopArmed DEF SameConn
  <2> HIDE DEF g
  <2>11. Good(h) /\ Armed(h)
    <3>1. "CONNECTING" \in States
      BY DEF States
    <3>2. Good(h) /\ Timing(g, h)
      BY <2>10, <3>1, SetState, StateTiming DEF Good
    <3> HIDE DEF h
    <3> QED BY <2>10, <3>2, TimingFrame
  <2> HIDE DEF h
  <2>12. Timing(h, i)
    BY <2>11 DEF Good, Client, Timing
  <2> HIDE DEF i
  <2> QED BY <2>1, <2>9, <2>11, <2>12, TimingFrame, ArmedScheduled
<1> QED BY <1>1, <1>2

(***************************************************************************)
(* The actions                                                             *)
(***************************************************************************)

\* rtsp_client_connect() and the resolver.
LEMMA ResolverScheduled ==
    ASSUME IInv, Scheduled(client),
           \/ \E res \in {"OK", "EINVAL", "ERESOLV"} : Connect(res)
           \/ \E ok \in BOOLEAN : ResolvDone(ok)
    PROVE  Scheduled(client')
<1>0. client \in Client
  BY DEF IInv, Good
<1>1. CASE \E res \in {"OK", "EINVAL", "ERESOLV"} : Connect(res)
  <2> PICK res \in {"OK", "EINVAL", "ERESOLV"} : Connect(res)
    BY <1>1
  <2> DEFINE x == set_connection_state(client, "CONNECTING")
             y == [x EXCEPT !.remote = TRUE, !.resolv_timer = TRUE,
                            !.lookups = @ + 1]
             z == [client EXCEPT !.remote = FALSE,
                                 !.resolv_timer = @ \/ res = "ERESOLV"]
  <2>1. client' = IF res = "OK" THEN y ELSE z
    BY DEF Connect, Becomes
  <2>2. Timing(client, z) /\ Slotting(client, z)
    BY <1>0 DEF Client, Timing, Slotting
  <2>3. x \in Client /\ Timing(client, x) /\ Slotting(client, x)
    <3>1. "CONNECTING" \in States
      BY DEF States
    <3> QED BY <3>1, SetState, StateTiming DEF IInv, Good
  <2> HIDE DEF x, z
  <2>4. Timing(x, y) /\ Slotting(x, y)
    BY <2>3 DEF Client, Timing, Slotting
  <2> HIDE DEF y
  <2> QED BY <2>1, <2>2, <2>3, <2>4, TimingFrame
<1>2. CASE \E ok \in BOOLEAN : ResolvDone(ok)
  <2> PICK ok \in BOOLEAN : ResolvDone(ok)
    BY <1>2
  <2> DEFINE x == [client EXCEPT !.lookups = @ - 1, !.resolv_timer = FALSE]
             y == [x EXCEPT !.tskt = "connecting"]
             z == set_connection_state(x, "DISCONNECTED")
  <2>1. client' = IF ok THEN y ELSE z
    BY DEF ResolvDone, Becomes
  <2>2. x \in Client /\ Timing(client, x) /\ Slotting(client, x)
    <3>1. client.lookups - 1 \in Nat
      BY <1>0 DEF ResolvDone, Client
    <3> QED BY <1>0, <3>1 DEF Client, Timing, Slotting
  <2> HIDE DEF x
  <2>3. Timing(x, y) /\ Slotting(x, y)
    BY <2>2 DEF Client, Timing, Slotting
  <2>4. Timing(x, z) /\ Slotting(x, z)
    BY <2>2, StateTiming
  <2> HIDE DEF y, z
  <2> QED BY <2>1, <2>2, <2>3, <2>4, TimingFrame
<1> QED BY <1>1, <1>2

\* resolv_timer_cb()
LEMMA ResolvTimeoutScheduled ==
    ASSUME IInv, Scheduled(client), ResolvTimeout
    PROVE  Scheduled(client')
<1> DEFINE n == IF client.lookups > 0 THEN client.lookups - 1 ELSE client.lookups
           x == [client EXCEPT !.resolv_timer = FALSE, !.lookups = n]
<1>1. client' = rtsp_client_disconnect(x)
  BY DEF ResolvTimeout, Becomes
<1>2. Good(client) /\ Connection(client)
  BY DEF IInv
<1>3. client \in Client /\ n \in Nat /\ (n > 0 => client.lookups > 0) /\ n <= 1
  BY <1>2 DEF Good, Client, Connection
<1> HIDE DEF n
<1>4. x \in Client
  BY <1>3 DEF Client
<1>5. /\ Same(client, x) /\ x.conn_state = client.conn_state
      /\ x.sock = client.sock /\ x.tskt = client.tskt /\ x.lookups = n
      /\ x.remote = client.remote
      /\ Timing(client, x) /\ Slotting(client, x)
  BY <1>3 DEF Client, Same, Timing, Slotting
<1> HIDE DEF x
<1>6. Good(x) /\ Scheduled(x)
  BY <1>2, <1>4, <1>5, SameGood, TimingFrame
<1>7. Connection(x)
  BY <1>2, <1>3, <1>5 DEF Connection, Same
<1> QED BY <1>1, <1>6, <1>7, DisconnectScheduled

\* The keep-alives of the CONNECTED event: with a socket that can be sent to,
\* the first session sends one, the others retry later.
LEMMA KeepAliveAllScheduled ==
    ASSUME NEW c, Good(c), Connection(c), Scheduled(c), ~c.is_pending,
           NEW first, first # NoSession => first \in c.sessions \ c.keep_alive,
           first = NoSession => c.sessions \ c.keep_alive = {},
           NEW res \in {"OK", "EAGAIN"}
    PROVE  Scheduled(keep_alive_all(c, {}, first, res))
<1> DEFINE ready == c.sessions \ c.keep_alive
           later == ready \ ({} \cup {first})
           d == [c EXCEPT !.timer = @ \cup later]
           any == CHOOSE s \in {} : TRUE
<1>1. keep_alive_all(c, {}, first, res) =
          IF ready = {} THEN d
          ELSE IF first # NoSession THEN send_keep_alive(d, first, res)
          ELSE send_keep_alive(d, any, "ERR")
  BY DEF keep_alive_all, Scheduled
<1>2. later \subseteq c.sessions /\ Armed(c)
  BY ArmedScheduled
<1> HIDE DEF later, any
<1>3. /\ d \in Client /\ SameSlot(c, d) /\ SameConn(c, d)
      /\ d.sessions = c.sessions /\ d.timer = c.timer \cup later
      /\ d.keep_alive = c.keep_alive /\ d.methods_allowed = c.methods_allowed
      /\ d.failed_keep_alive = c.failed_keep_alive
  BY <1>2 DEF Good, Client, SameSlot, SameConn
<1> HIDE DEF d
<1>4. Good(d) /\ ~d.is_pending
  BY <1>2, <1>3, SlotFrame DEF Good, Flags, SameSlot
<1>5. Connection(d)
  BY <1>3, <1>4, LocalConnection DEF Local
<1>6. Armed(d)
  BY <1>2, <1>3 DEF Armed, ArmedAt, Allowed
<1>7. CASE ready = {}
  BY <1>1, <1>6, <1>7, ArmedScheduled
<1>8. CASE ready # {}
  <2>1. first \in c.sessions /\ first # NoSession
    BY <1>8
  <2>2. Due(d, first)
    BY <1>3, <1>6, <2>1 DEF Due, Armed
  <2> QED BY <1>1, <1>4, <1>5, <1>8, <2>1, <2>2, KeepAliveScheduledAnew
<1> QED BY <1>7, <1>8

\* TSKT_CLIENT_EVENT_CONNECTED
LEMMA SocketConnectedScheduled ==
    ASSUME IInv, Scheduled(client), Sendable, NEW failed,
           NEW first \in SessionOrNone, NEW res,
           SocketConnected(failed, first, res)
    PROVE  Scheduled(client')
<1> DEFINE c == client
           x == [c EXCEPT !.sock = TRUE, !.tskt = "connected"]
           y == set_connection_state(x, "CONNECTED")
<1>0. failed = {}
  BY DEF SocketConnected, Sendable
<1>1. client' = keep_alive_all(y, {}, first, res) /\ res \in {"OK", "EAGAIN"}
  BY <1>0 DEF SocketConnected, Becomes
<1>2. Good(c) /\ Connection(c) /\ c.tskt = "connecting"
  BY DEF IInv, SocketConnected
<1>3. /\ first # NoSession => first \in c.sessions \ c.keep_alive
      /\ first = NoSession => c.sessions \ c.keep_alive = {}
  BY <1>0 DEF SocketConnected
<1>4. /\ Good(x) /\ x.sock /\ x.tskt = "connected" /\ x.lookups = c.lookups
      /\ Timing(c, x) /\ Slotting(c, x)
  <2>1. x \in Client
    BY <1>2 DEF Good, Client
  <2>2. /\ Same(c, x) /\ x.sock /\ x.tskt = "connected"
        /\ x.lookups = c.lookups /\ Timing(c, x) /\ Slotting(c, x)
    BY <1>2 DEF Good, Client, Same, Timing, Slotting
  <2> HIDE DEF x
  <2> QED BY <1>2, <2>1, <2>2, SameGood
<1> HIDE DEF x
<1>5. /\ Good(y) /\ y.conn_state = "CONNECTED"
      /\ y.sock = x.sock /\ y.tskt = x.tskt /\ y.lookups = x.lookups
  <2>1. "CONNECTED" \in States
    BY DEF States
  <2> QED BY <1>4, <2>1, SetState
<1>6. Timing(x, y) /\ Slotting(x, y)
  BY <1>4, StateTiming DEF Good
<1> HIDE DEF y
<1>7. /\ Connection(y) /\ ~y.is_pending /\ Scheduled(y)
      /\ y.sessions = c.sessions /\ y.keep_alive = c.keep_alive
  <2>1. /\ y.is_pending = c.is_pending /\ y.sessions = c.sessions
        /\ y.keep_alive = c.keep_alive
    BY <1>4, <1>6 DEF Timing, Slotting
  <2>2. Connection(y) /\ ~y.is_pending
    BY <1>2, <1>4, <1>5, <2>1 DEF Connection
  <2>3. Scheduled(y)
    BY <1>4, <1>6, TimingFrame
  <2> QED BY <2>1, <2>2, <2>3
<1> QED BY <1>1, <1>3, <1>5, <1>7, KeepAliveAllScheduled

\* TSKT_CLIENT_EVENT_DISCONNECTED, by the network.
LEMMA SocketDisconnectedScheduled ==
    ASSUME IInv, Scheduled(client), SocketDisconnected
    PROVE  Scheduled(client')
<1> DEFINE c == client
           x == [c EXCEPT !.tskt = "connecting"]
<1>1. client' = event_disconnected(x)
  BY DEF SocketDisconnected, Becomes
<1>2. Good(c) /\ c.conn_state = "CONNECTED"
  BY DEF IInv, Connection, SocketDisconnected
<1>3. x \in Client
  BY <1>2 DEF Good, Client
<1>4. /\ Same(c, x) /\ x.conn_state = c.conn_state
      /\ Timing(c, x) /\ Slotting(c, x)
  BY <1>2 DEF Good, Client, Same, Timing, Slotting
<1> HIDE DEF x
<1>5. Good(x) /\ Scheduled(x)
  BY <1>2, <1>3, <1>4, SameGood, TimingFrame
<1>6. Armed(event_disconnected(x))
  BY <1>2, <1>4, <1>5, EventDisconnectedArmed
<1> QED BY <1>1, <1>6, ArmedScheduled

\* rtsp_client_destroy()
LEMMA DestroyScheduled ==
    ASSUME IInv, Scheduled(client), Destroy
    PROVE  Scheduled(client')
<1> DEFINE x == [client EXCEPT !.req_timer = FALSE]
           y == tskt_client_stop(x)
           c == remove_all_sessions(y)
           d == [c EXCEPT !.conn_state = "DESTROYED", !.lookups = 0,
                          !.resolv_timer = FALSE, !.remote = FALSE,
                          !.request = NoRequest]
<1>1. client' = d
  BY DEF Destroy, Becomes
<1>2. Good(client) /\ Connection(client)
  BY DEF IInv
<1>3. x \in Client
  BY <1>2 DEF Good, Client
<1>4. /\ Same(client, x) /\ x.tskt = client.tskt
      /\ x.conn_state = client.conn_state /\ x.is_pending = client.is_pending
      /\ Timing(client, x) /\ Slotting(client, x)
  BY <1>2 DEF Good, Client, Same, Timing, Slotting
<1> HIDE DEF x
<1>5. Good(x) /\ Scheduled(x)
  BY <1>2, <1>3, <1>4, SameGood, TimingFrame
<1>6. x.is_pending => x.tskt = "connected" /\ x.conn_state = "CONNECTED"
  BY <1>2, <1>4 DEF Connection
<1>7. Good(y) /\ Armed(y)
  BY <1>5, <1>6, TsktClientStopGood, TsktClientStopArmed
<1> HIDE DEF y
<1>8. Good(c) /\ Armed(c)
  BY <1>7, RemoveAllSessions, RemoveAllArmed DEF Armed, Good
<1> HIDE DEF c
<1>9. Timing(c, d)
  BY <1>8 DEF Good, Client, Timing
<1> HIDE DEF d
<1> QED BY <1>1, <1>8, <1>9, TimingFrame, ArmedScheduled

\* A request is accepted only while every session is armed: a session that is
\* given up is the only one, and waits for no keep-alive that would let the
\* request through.
LEMMA CanSendArmed ==
    ASSUME NEW c, Good(c), Scheduled(c), OneSession, CanSend(c)
    PROVE  Armed(c)
<1>1. ASSUME NEW s \in SessionIds, GivenUp(c, s) PROVE FALSE
  <2>1. c.is_pending /\ s \notin c.keep_alive
    BY <1>1 DEF GivenUp
  <2>2. PICK t : t \in c.keep_alive
    BY <2>1 DEF CanSend
  <2>3. t \in SessionIds
    BY <2>2 DEF Good, Client
  <2> QED BY <2>1, <2>2, <2>3 DEF OneSession
<1> QED BY <1>1 DEF Scheduled, Armed

\* Sending a request does not touch the keep-alive timers.
LEMMA SendRequestTiming ==
    ASSUME NEW c, Good(c), NEW m \in Methods, NEW s \in SessionOrNone,
           NEW md \in MediaOrNone, NEW res, NEW timed \in BOOLEAN,
           m = "SETUP" => md \in Medias
    PROVE  /\ Timing(c, SendRequest(c, m, s, md, res, timed))
           /\ Timing(c, ForSession(c, m, s, md, res, timed))
<1> DEFINE b == clear_pending_keep_alive_timer(c)
           q == [method |-> m, cseq |-> c.cseq,
                 session |-> IF res = "EAUTH" THEN NoSession ELSE s,
                 media |-> md]
           h == SetHeader(b, q)
           w == TakeSlot(b, q)
           e == [w EXCEPT !.req_timer = timed \/ @, !.wire = @ \cup {q}]
           d == SendRequest(c, m, s, md, res, timed)
<1>1. d = IF res # "OK" THEN h ELSE e
  BY DEF SendRequest
<1>2. ForSession(c, m, s, md, res, timed) = IF s \notin c.sessions THEN b ELSE d
  BY DEF ForSession
<1>3. q \in Request /\ q.cseq = c.cseq /\ q.method = m /\ q.media = md
  BY DEF Request, SessionOrNone, Good, Client
<1>4. Good(b) /\ Timing(c, b) /\ b.cseq = c.cseq
  BY ClearTimerGood, SlotTiming DEF Good
<1> HIDE DEF b, q
<1>5. Timing(b, h) /\ Good(w) /\ Timing(b, w)
  BY <1>3, <1>4, SlotTiming, TakeSlotGood DEF Good
<1> HIDE DEF h, w
<1>6. Timing(w, e)
  BY <1>5 DEF Good, Client, Timing
<1> HIDE DEF e
<1>7. Timing(c, d)
  BY <1>1, <1>4, <1>5, <1>6 DEF Timing
<1> HIDE DEF d
<1> QED BY <1>2, <1>4, <1>7 DEF d

\* Nor does a TEARDOWN.
LEMMA SendTeardownTiming ==
    ASSUME NEW c, Good(c), NEW md \in MediaOrNone, NEW s \in SessionIds,
           NEW res, NEW timed \in BOOLEAN
    PROVE  Timing(c, send_teardown(c, md, s, res, timed, FALSE))
<1>1. \A internal \in BOOLEAN :
          Timing(c, send_teardown(c, md, s, res, timed, internal))
  <2> SUFFICES ASSUME NEW internal \in BOOLEAN
               PROVE  Timing(c, send_teardown(c, md, s, res, timed, internal))
    OBVIOUS
  <2> DEFINE b == clear_pending_keep_alive_timer(c)
             r == SendRequest(c, "TEARDOWN", s, md, res, timed)
             it == IF internal THEN r.internal_teardown \cup {s}
                   ELSE r.internal_teardown \ {s}
             e == [r EXCEPT !.is_internal = internal, !.internal_teardown = it]
             d == send_teardown(c, md, s, res, timed, internal)
  <2>1. d = IF ~CanRequest(c, "TEARDOWN") THEN c
            ELSE IF s \notin c.sessions THEN b
            ELSE IF res # "OK" THEN r ELSE e
    BY DEF send_teardown
  <2>2. Timing(c, c) /\ Timing(c, b)
    BY SlotTiming DEF Timing, Good
  <2>3. Timing(c, r) /\ r \in Client
    <3>1. "TEARDOWN" \in Methods /\ s \in SessionOrNone
      BY DEF Methods, SessionMethods, SessionOrNone
    <3> QED BY <3>1, SendRequestTiming, SendRequestGood DEF Sent, Good
  <2> HIDE DEF b, r, it
  <2>4. Timing(r, e)
    BY <2>3 DEF Client, Timing
  <2> HIDE DEF e, d
  <2>5. Timing(c, d)
    BY <2>1, <2>2, <2>3, <2>4 DEF Timing
  <2> QED BY <2>5 DEF d
<1>2. FALSE \in BOOLEAN
  OBVIOUS
<1> QED BY <1>1, <1>2, Zenon

\* Every request function of the API.
LEMMA RequestScheduled ==
    ASSUME IInv, Scheduled(client), OneSession, RequestNext
    PROVE  Scheduled(client')
<1>0. Good(client)
  BY DEF IInv
<1> PICK res \in SendResults, timed \in BOOLEAN :
        \/ Options(res, timed) \/ Describe(res, timed) \/ Announce(res, timed)
        \/ \E s \in SessionOrNone, md \in Medias : Setup(s, md, res, timed)
        \/ \E s \in SessionIds : Play(s, res, timed)
        \/ \E s \in SessionIds : Pause(s, res, timed)
        \/ \E s \in SessionIds : Record(s, res, timed)
        \/ \E s \in SessionIds, md \in MediaOrNone : Teardown(s, md, res, timed)
  BY DEF RequestNext
<1> DEFINE Asks(d) == /\ CanSend(client) /\ Requested(client, d)
                      /\ Timing(client, d) /\ client' = Accepted(client, d)
<1> SUFFICES \E d : Asks(d)
  <2> PICK d : Asks(d)
    OBVIOUS
  <2>1. Armed(client) /\ d \in Client
    BY <1>0, CanSendArmed DEF Requested, Good
  <2>2. Timing(d, Accepted(client, d))
    BY <2>1 DEF Accepted, Client, Timing
  <2> QED BY <2>1, <2>2, TimingFrame, ArmedScheduled
<1>1. /\ {"OPTIONS", "DESCRIBE", "ANNOUNCE", "SETUP", "PLAY", "PAUSE", "RECORD"}
             \subseteq Methods \ {"GET_PARAMETER", "TEARDOWN"}
      /\ NoSession \in SessionOrNone /\ NoMedia \in MediaOrNone
      /\ Medias \subseteq MediaOrNone /\ SessionIds \subseteq SessionOrNone
  BY DEF Methods, SessionlessMethods, SessionMethods, SessionOrNone, MediaOrNone
<1>2. \A m : CanRequest(client, m) => CanSend(client)
  BY DEF CanRequest
<1>3. CASE Options(res, timed)
  <2> DEFINE d == rtsp_client_options(client, res, timed)
  <2>1. Requested(client, d) /\ Timing(client, d)
    BY <1>0, <1>1, SendRequestRequested, SendRequestTiming
    DEF rtsp_client_options
  <2>2. Asks(d)
    BY <1>3, <2>1 DEF Options, Becomes
  <2> QED BY <2>2
<1>4. CASE Describe(res, timed)
  <2> DEFINE d == rtsp_client_describe(client, res, timed)
  <2>1. Requested(client, d) /\ Timing(client, d)
    BY <1>0, <1>1, SendRequestRequested, SendRequestTiming
    DEF rtsp_client_describe
  <2>2. Asks(d)
    BY <1>2, <1>4, <2>1 DEF Describe, Becomes
  <2> QED BY <2>2
<1>5. CASE Announce(res, timed)
  <2> DEFINE d == rtsp_client_announce(client, res, timed)
  <2>1. Requested(client, d) /\ Timing(client, d)
    BY <1>0, <1>1, SendRequestRequested, SendRequestTiming
    DEF rtsp_client_announce
  <2>2. Asks(d)
    BY <1>2, <1>5, <2>1 DEF Announce, Becomes
  <2> QED BY <2>2
<1>6. CASE \E s \in SessionOrNone, md \in Medias : Setup(s, md, res, timed)
  <2> PICK s \in SessionOrNone, md \in Medias : Setup(s, md, res, timed)
    BY <1>6
  <2> DEFINE d == rtsp_client_setup(client, s, md, res, timed)
  <2>1. Requested(client, d) /\ Timing(client, d)
    <3>1. CASE s = NoSession
      BY <1>0, <1>1, <3>1, SendRequestRequested, SendRequestTiming
      DEF rtsp_client_setup
    <3>2. CASE s # NoSession
      <4>1. s \in SessionIds
        BY <3>2 DEF SessionOrNone
      <4> QED BY <1>0, <1>1, <3>2, <4>1, ForSessionRequested, SendRequestTiming
          DEF rtsp_client_setup
    <3> QED BY <3>1, <3>2
  <2>2. Asks(d)
    BY <1>2, <2>1 DEF Setup, Becomes
  <2> QED BY <2>2
<1>7. CASE \E s \in SessionIds : Play(s, res, timed)
  <2> PICK s \in SessionIds : Play(s, res, timed)
    BY <1>7
  <2> DEFINE d == rtsp_client_play(client, s, res, timed)
  <2>1. Requested(client, d) /\ Timing(client, d)
    BY <1>0, <1>1, ForSessionRequested, SendRequestTiming DEF rtsp_client_play
  <2>2. Asks(d)
    BY <1>2, <2>1 DEF Play, Becomes
  <2> QED BY <2>2
<1>8. CASE \E s \in SessionIds : Pause(s, res, timed)
  <2> PICK s \in SessionIds : Pause(s, res, timed)
    BY <1>8
  <2> DEFINE d == rtsp_client_pause(client, s, res, timed)
  <2>1. Requested(client, d) /\ Timing(client, d)
    BY <1>0, <1>1, ForSessionRequested, SendRequestTiming DEF rtsp_client_pause
  <2>2. Asks(d)
    BY <1>2, <2>1 DEF Pause, Becomes
  <2> QED BY <2>2
<1>9. CASE \E s \in SessionIds : Record(s, res, timed)
  <2> PICK s \in SessionIds : Record(s, res, timed)
    BY <1>9
  <2> DEFINE d == rtsp_client_record(client, s, res, timed)
  <2>1. Requested(client, d) /\ Timing(client, d)
    BY <1>0, <1>1, ForSessionRequested, SendRequestTiming DEF rtsp_client_record
  <2>2. Asks(d)
    BY <1>2, <2>1 DEF Record, Becomes
  <2> QED BY <2>2
<1>10. CASE \E s \in SessionIds, md \in MediaOrNone : Teardown(s, md, res, timed)
  <2> PICK s \in SessionIds, md \in MediaOrNone : Teardown(s, md, res, timed)
    BY <1>10
  <2> DEFINE d == send_teardown(client, md, s, res, timed, FALSE)
  <2>1. Requested(client, d) /\ Timing(client, d)
    BY <1>0, TeardownRequested, SendTeardownTiming
  <2>2. client' = Accepted(client, d) /\ CanRequest(client, "TEARDOWN")
    BY DEF Teardown, Becomes
  <2> HIDE DEF d
  <2>3. Asks(d)
    BY <1>2, <2>1, <2>2
  <2> QED BY <2>3
<1> QED BY <1>3, <1>4, <1>5, <1>6, <1>7, <1>8, <1>9, <1>10

\* rtsp_client_response_process(): the answer to the request in the slot, or
\* to a keep-alive, whose session is armed again.
LEMMA ResponseProcessScheduled ==
    ASSUME NEW c, Good(c), Connection(c), Scheduled(c), NEW cseq,
           NEW resp \in Response, NEW s, s # NoSession => s \in c.keep_alive,
           cseq = c.request.cseq /\ c.request.session # NoSession =>
               resp.session \in {c.request.session, NoSession},
           resp.public = {} \/ "GET_PARAMETER" \in resp.public, NEW m
    PROVE  Scheduled([response_process(c, cseq, resp, s) EXCEPT !.wire = @ \ {m}])
<1> DEFINE d == response_process(c, cseq, resp, s)
           x == [c EXCEPT !.keep_alive = @ \ {s}]
           y == RetryLater(x, s)
           e == [d EXCEPT !.wire = @ \ {m}]
<1>1. d = IF cseq = c.request.cseq THEN request_complete(c, resp, "OK")
          ELSE IF s = NoSession THEN c ELSE y
  BY DEF response_process
<1>2. Good(d)
  BY ResponseProcessGood
<1>3. Scheduled(d)
  <2>1. CASE cseq = c.request.cseq
    BY <1>1, <2>1, CompleteArmed, ArmedScheduled
  <2>2. CASE cseq # c.request.cseq /\ s = NoSession
    BY <1>1, <2>2
  <2>3. CASE cseq # c.request.cseq /\ s # NoSession
    <3>1. /\ x \in Client /\ x.methods_allowed = c.methods_allowed
          /\ x.sessions = c.sessions /\ x.timer = c.timer
          /\ x.keep_alive = c.keep_alive \ {s} /\ Slotting(c, x)
          /\ x.failed_keep_alive = c.failed_keep_alive
      BY DEF Good, Client, Slotting
    <3> HIDE DEF x
    <3>2. /\ y.methods_allowed = x.methods_allowed /\ y.sessions = x.sessions
          /\ y.timer = x.timer \cup {s} /\ y.keep_alive = x.keep_alive
          /\ y.failed_keep_alive = x.failed_keep_alive /\ Slotting(x, y)
      BY <3>1 DEF RetryLater, Client, Slotting
    <3> HIDE DEF y
    <3>3. \A t \in SessionIds : ArmedAt(c, t) => ArmedAt(y, t)
      BY <3>1, <3>2 DEF ArmedAt
    <3>4. \A t \in SessionIds : GivenUp(c, t) => GivenUp(y, t)
      BY <3>1, <3>2 DEF GivenUp, Slotting
    <3>5. Scheduled(y)
      BY <3>1, <3>2, <3>3, <3>4 DEF Scheduled, Allowed
    <3> QED BY <1>1, <2>3, <3>5
  <2> QED BY <2>1, <2>2, <2>3
<1> HIDE DEF d
<1>4. Timing(d, e) /\ Slotting(d, e)
  BY <1>2 DEF Good, Client, Timing, Slotting
<1> HIDE DEF e
<1>5. Scheduled(e)
  BY <1>3, <1>4, TimingFrame
<1> QED BY <1>5 DEF e, d

\* An answer, with a CSeq or without.
LEMMA ReceiveScheduled ==
    ASSUME IInv, Scheduled(client), Probeable, NEW m \in client.wire,
           NEW s \in SessionOrNone,
           \/ \E code \in {"2xx", "454", "other"}, sid \in SessionOrNone,
                 pub \in PublicMethods \cup {{}} :
                 ReceiveResponse(m, [code |-> code, session |-> sid,
                                     public |-> pub], s)
           \/ ReceiveNoCseq(m, s)
    PROVE  Scheduled(client')
<1>0. Good(client) /\ Connection(client)
  BY DEF IInv
<1>1. m.cseq = client.request.cseq => m = client.request
  BY <1>0 DEF Good, Slot
<1>2. CASE \E code \in {"2xx", "454", "other"}, sid \in SessionOrNone,
              pub \in PublicMethods \cup {{}} :
              ReceiveResponse(m, [code |-> code, session |-> sid,
                                  public |-> pub], s)
  <2> PICK code \in {"2xx", "454", "other"}, sid \in SessionOrNone,
           pub \in PublicMethods \cup {{}} :
           ReceiveResponse(m, [code |-> code, session |-> sid,
                               public |-> pub], s)
    BY <1>2
  <2> DEFINE resp == [code |-> code, session |-> sid, public |-> pub]
  <2>1. resp \in Response /\ (resp.public = {} \/ "GET_PARAMETER" \in resp.public)
    BY ClientAssumption DEF Response, Probeable
  <2>2. ReceiveResponse(m, resp, s)
    OBVIOUS
  <2> HIDE DEF resp
  <2>3. /\ s # NoSession => s \in client.keep_alive
        /\ m.session # NoSession => resp.session \in {m.session, NoSession}
        /\ client' = [response_process(client, m.cseq, resp, s)
                          EXCEPT !.wire = @ \ {m}]
    BY <2>2 DEF ReceiveResponse, Becomes
  <2> QED BY <1>0, <1>1, <2>1, <2>3, ResponseProcessScheduled
<1>3. CASE ReceiveNoCseq(m, s)
  <2> DEFINE resp == [code |-> "other", session |-> NoSession, public |-> {}]
  <2>1. resp \in Response /\ resp.public = {} /\ resp.session = NoSession
    BY DEF Response, SessionOrNone
  <2>2. /\ s # NoSession => s \in client.keep_alive
        /\ client' = [response_process(client, 0, resp, s)
                          EXCEPT !.wire = @ \ {m}]
    BY <1>3 DEF ReceiveNoCseq, Becomes
  <2> HIDE DEF resp
  <2> QED BY <1>0, <2>1, <2>2, ResponseProcessScheduled
<1> QED BY <1>2, <1>3

\* rtsp_client_remove_session() and a TEARDOWN of the server.
LEMMA RemovalScheduled ==
    ASSUME IInv, Scheduled(client), NEW s \in SessionIds,
           RemoveSession(s) \/ (\E md \in MediaOrNone : ServerTeardown(s, md))
    PROVE  Scheduled(client')
<1> DEFINE r == remove_session_internal(client, s)
<1>0. client \in Client
  BY DEF IInv, Good
<1>1. Scheduled(r)
  <2>1. /\ r.methods_allowed = client.methods_allowed
        /\ \A t \in SessionIds : ArmedAt(client, t) => ArmedAt(r, t)
        /\ \A t \in SessionIds :
              GivenUp(client, t) => ArmedAt(r, t) \/ GivenUp(r, t)
    BY <1>0, RemoveArmed
  <2> HIDE DEF r
  <2> QED BY <2>1 DEF Scheduled, Allowed
<1>2. ASSUME NEW md, ServerTeardown(s, md) PROVE Scheduled(client')
  <2> DEFINE f == [client.medias EXCEPT ![s] = @ \ {md}]
             x == [client EXCEPT !.medias = f]
  <2>1. client' = x \/ client' = r
    BY <1>2 DEF ServerTeardown, Becomes
  <2> HIDE DEF f, r
  <2>2. Timing(client, x) /\ Slotting(client, x)
    BY <1>0 DEF Client, Timing, Slotting
  <2> HIDE DEF x
  <2>3. Scheduled(x)
    BY <2>2, TimingFrame
  <2> QED BY <1>1, <2>1, <2>3
<1>3. ASSUME RemoveSession(s) PROVE Scheduled(client')
  BY <1>1, <1>3 DEF RemoveSession, Becomes
<1> QED BY <1>2, <1>3

\* rtsp_client_resp_timeout_cb() and rtsp_client_pomp_timer_cb()
LEMMA TimerScheduled ==
    ASSUME IInv, Scheduled(client), NEW res \in {"OK", "EAGAIN"},
           \/ \E connect_ok \in BOOLEAN : ResponseTimeout(res, connect_ok)
           \/ \E s \in SessionIds : KeepAliveTimer(s, res)
    PROVE  Scheduled(client')
<1>0. Good(client) /\ Connection(client)
  BY DEF IInv
<1>1. CASE \E connect_ok \in BOOLEAN : ResponseTimeout(res, connect_ok)
  <2> PICK connect_ok \in BOOLEAN : ResponseTimeout(res, connect_ok)
    BY <1>1
  <2> DEFINE x == [client EXCEPT !.req_timer = FALSE]
  <2>1. client' = request_timeout(x, res, connect_ok)
    BY DEF ResponseTimeout, Becomes
  <2>2. x \in Client
    BY <1>0 DEF Good, Client
  <2>3. /\ Same(client, x) /\ SameConn(client, x)
        /\ Timing(client, x) /\ Slotting(client, x)
    BY <1>0 DEF Good, Client, Same, SameConn, Timing, Slotting
  <2> HIDE DEF x
  <2>4. Good(x) /\ Scheduled(x)
    BY <1>0, <2>2, <2>3, SameGood, TimingFrame
  <2>5. Connection(x)
    BY <1>0, <2>3, <2>4, LocalConnection DEF Local, Same
  <2> QED BY <2>1, <2>4, <2>5, RequestTimeoutScheduled
<1>2. CASE \E s \in SessionIds : KeepAliveTimer(s, res)
  <2> PICK s \in SessionIds : KeepAliveTimer(s, res)
    BY <1>2
  <2> DEFINE x == [client EXCEPT !.timer = @ \ {s}]
  <2>1. client' = send_keep_alive(x, s, res) /\ s \in client.sessions
    BY <1>0 DEF KeepAliveTimer, Becomes, Good, Flags
  <2>2. x \in Client
    BY <1>0 DEF Good, Client
  <2>3. /\ Same(client, x) /\ SameConn(client, x) /\ Slotting(client, x)
        /\ x.methods_allowed = client.methods_allowed
        /\ x.timer = client.timer \ {s} /\ x.keep_alive = client.keep_alive
        /\ x.failed_keep_alive = client.failed_keep_alive
    BY <1>0 DEF Good, Client, Same, SameConn, Slotting
  <2> HIDE DEF x
  <2>4. Good(x)
    BY <1>0, <2>2, <2>3, SameGood
  <2>5. Connection(x)
    BY <1>0, <2>3, <2>4, LocalConnection DEF Local, Same
  <2>6. \A t \in SessionIds : GivenUp(client, t) => GivenUp(x, t)
    BY <2>3 DEF GivenUp, Slotting, Same
  <2>7. \A t \in SessionIds : ArmedAt(client, t) =>
            ArmedAt(x, t) \/ (t = s /\ x.failed_keep_alive[s] < MaxFailedKeepAlive)
    BY <2>1, <2>3 DEF ArmedAt, Same
  <2>8. Due(x, s)
    BY <2>1, <2>3, <2>6, <2>7 DEF Due, Scheduled, Allowed, Same
  <2> QED BY <2>1, <2>4, <2>5, <2>8, KeepAliveScheduledAnew
<1> QED BY <1>1, <1>2

(***************************************************************************)
(* Theorems                                                                *)
(***************************************************************************)

\* What the keep-alives are proved for.
KeepAliveHypotheses == OneLookup /\ Sendable /\ OneSession /\ Probeable

\* The inductive invariant.
Tended == IInv /\ Scheduled(client)

\* The sessions stay scheduled, whatever the order of timers, answers, socket
\* events and calls.
THEOREM ScheduledInvariant ==
    KeepAliveHypotheses => (Spec => []Tended)
<1> SUFFICES ASSUME OneLookup, Sendable, OneSession, Probeable
             PROVE  Spec => []Tended
  BY DEF KeepAliveHypotheses
<1>1. Init => Tended
  <2> DEFINE f == [s \in SessionIds |-> 0]
  <2>1. Init => /\ client.methods_allowed = {} /\ client.sessions = {}
                /\ client.failed_keep_alive = f
    BY DEF Init, NewClient
  <2>2. \A s \in SessionIds : f[s] = 0
    OBVIOUS
  <2> HIDE DEF f
  <2> QED BY <2>1, <2>2, InitIInv DEF Tended, Scheduled, ArmedAt, Allowed
<1>2. Tended /\ IInv' /\ [Next]_client => Tended'
  <2> SUFFICES ASSUME IInv, Scheduled(client), [Next]_client
               PROVE  Scheduled(client')
    BY DEF Tended
  <2>0. \A res \in SendResults : res \in {"OK", "EAGAIN"}
    BY DEF Sendable
  <2>1. CASE UNCHANGED client
    BY <2>1
  <2>2. CASE ConnectionNext
    <3>1. ASSUME Disconnect PROVE Scheduled(client')
      BY <3>1, DisconnectScheduled DEF IInv, Disconnect, Becomes
    <3> QED BY <2>2, <3>1, ResolverScheduled, ResolvTimeoutScheduled,
               SocketConnectedScheduled, SocketDisconnectedScheduled,
               DestroyScheduled DEF ConnectionNext
  <2>3. CASE RequestNext
    BY <2>3, RequestScheduled
  <2>4. CASE EventNext
    <3>1. ASSUME Cancel PROVE Scheduled(client')
      BY <3>1, DummyArmed, ArmedScheduled DEF IInv, Cancel, Becomes
    <3>2. ASSUME Destroyed PROVE Scheduled(client')
      BY <3>2 DEF Destroyed
    <3> QED BY <2>0, <2>4, <3>1, <3>2, RemovalScheduled, ReceiveScheduled,
               TimerScheduled DEF EventNext
  <2> QED BY <2>1, <2>2, <2>3, <2>4 DEF Next
<1>3. Spec => []IInv
  BY Inductive
<1> QED BY <1>1, <1>2, <1>3, PTL DEF Spec

\* send_keep_alive(), request_complete() and the timers never forget a
\* session: its timer is armed, or it waits for the answer to a keep-alive,
\* or the answer to its TEARDOWN is awaited.
THEOREM NoSessionForgotten ==
    KeepAliveHypotheses => (Spec => []KeepAliveScheduled)
<1>1. Tended => KeepAliveScheduled
  <2> SUFFICES ASSUME IInv, Scheduled(client), NEW s \in client.sessions
               PROVE  \/ s \in client.timer \cup client.keep_alive
                      \/ /\ client.is_pending
                         /\ client.request.method = "TEARDOWN"
                         /\ client.request.session = s
    BY DEF Tended, KeepAliveScheduled
  <2>1. s \in SessionIds
    BY DEF IInv, Good, Client
  <2> QED BY <2>1 DEF Scheduled, ArmedAt, GivenUp
<1> QED BY <1>1, ScheduledInvariant, PTL

\* A session that did not answer MaxFailedKeepAlive keep-alives is being torn
\* down by the client itself until it is removed.
THEOREM SpentSessionIsTornDown ==
    KeepAliveHypotheses => (Spec => []GivenUpIsTornDown)
<1>1. Tended => GivenUpIsTornDown
  <2> SUFFICES ASSUME IInv, Scheduled(client), NEW s \in client.sessions,
                      client.failed_keep_alive[s] >= MaxFailedKeepAlive
               PROVE  GivenUp(client, s)
    BY DEF Tended, GivenUpIsTornDown, GivenUp
  <2>1. s \in SessionIds /\ client.failed_keep_alive[s] \in Nat
    BY DEF IInv, Good, Client
  <2>2. ~ArmedAt(client, s)
    BY <2>1, ClientAssumption DEF ArmedAt
  <2> QED BY <2>1, <2>2 DEF Scheduled
<1> QED BY <1>1, ScheduledInvariant, PTL
=============================================================================
