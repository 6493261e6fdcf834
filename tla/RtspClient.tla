----------------------------- MODULE RtspClient -----------------------------
(***************************************************************************)
(* The RTSP client of librtsp (src/rtsp_client.c, rtsp_client_session.c):  *)
(* one connection, one request slot, a list of sessions kept alive by      *)
(* GET_PARAMETER probes, and the timers, socket events, resolver answers   *)
(* and application calls that drive them from a single pomp loop.          *)
(*                                                                         *)
(* Each C function that changes the client is an operator from the client  *)
(* before to the client after, with the name the function has in the       *)
(* source, so that a handler is the composition of the functions it calls. *)
(* An action is one callback of the loop or one call of the application,   *)
(* run to its end.  Interleaved channels are left out.                     *)
(***************************************************************************)
EXTENDS Naturals, FiniteSets

CONSTANTS
    SessionIds,         \* session ids a server may hand out
    Medias,             \* paths of medias below a content base
    NoSession, NoMedia, \* absent session id; TEARDOWN of the content base
    MaxFailedKeepAlive, \* RTSP_CLIENT_MAX_FAILED_KEEP_ALIVE
    MaxFailedRequests,  \* RTSP_CLIENT_MAX_FAILED_REQUESTS
    SendResults,        \* what sending a request may return
    PublicMethods,      \* method sets a server may list in Public
    MaxLookups,         \* bound: resolver lookups in flight at a time
    MaxCseq             \* bound: CSeq numbers used

States == {"DISCONNECTED", "CONNECTING", "CONNECTED", "DISCONNECTING",
           "DESTROYED"}
SessionlessMethods == {"OPTIONS", "DESCRIBE", "ANNOUNCE"}
SessionMethods == {"SETUP", "PLAY", "PAUSE", "RECORD", "TEARDOWN",
                   "GET_PARAMETER"}
Methods == SessionlessMethods \cup SessionMethods

\* "OK": sent; "EAGAIN": the socket is full; "ERR": any other send error;
\* "EAUTH": generate_authorization_header() fails, nothing is sent (DESCRIBE
\* and ANNOUNCE are sent all the same if it fails for want of a nonce).
AllSendResults == {"OK", "EAGAIN", "ERR", "EAUTH"}

ASSUME ClientAssumption ==
    /\ NoSession \notin SessionIds
    /\ NoMedia \notin Medias
    /\ MaxFailedKeepAlive \in Nat \ {0}
    /\ MaxFailedRequests \in Nat \ {0}
    /\ SendResults \subseteq AllSendResults
    /\ PublicMethods \subseteq SUBSET Methods
    /\ MaxLookups \in Nat
    /\ MaxCseq \in Nat

VARIABLE client

SessionOrNone == SessionIds \cup {NoSession}
MediaOrNone == Medias \cup {NoMedia}
Request == [method : Methods \cup {"UNKNOWN"}, cseq : Nat,
            session : SessionOrNone, media : MediaOrNone]

\* rtsp_request_header_clear(): a cleared header has CSeq 0.
NoRequest == [method |-> "UNKNOWN", cseq |-> 0,
              session |-> NoSession, media |-> NoMedia]

Client == [
    \* struct rtsp_client
    conn_state : States, sock : BOOLEAN, remote : BOOLEAN,
    cseq : Nat, methods_allowed : SUBSET Methods, failed_requests : Nat,
    resolv_timer : BOOLEAN,
    \* struct rtsp_client_request
    request : Request, is_pending : BOOLEAN, is_internal : BOOLEAN,
    req_timer : BOOLEAN,
    \* struct rtsp_client_session: the list, and each flag as the set of the
    \* sessions that have it (timer: those whose keep-alive timer is armed)
    sessions : SUBSET SessionIds, keep_alive : SUBSET SessionIds,
    timer : SUBSET SessionIds, internal_teardown : SUBSET SessionIds,
    failed_keep_alive : [SessionIds -> Nat],
    medias : [SessionIds -> SUBSET Medias],
    \* external: the transport client, the resolver, and the requests of
    \* this connection that the server has not answered
    tskt : {"stopped", "connecting", "connected"}, lookups : Nat,
    wire : SUBSET Request,
    \* history: accepted application requests whose response callback is
    \* still to run, and those that have left the slot without it; TRUE after
    \* a response callback nobody was owed; the state last passed to
    \* cbs.connection_state
    owed : SUBSET Nat, forgotten : SUBSET Nat, spurious : BOOLEAN,
    notified : States]

\* Types; the counters of failures, lookups and CSeq never go below zero.
TypeOK == client \in Client

(***************************************************************************)
(* State shared by all operations                                          *)
(***************************************************************************)

\* rtsp_client_new()
NewClient ==
    [conn_state |-> "DISCONNECTED", sock |-> FALSE, remote |-> FALSE,
     cseq |-> 1, methods_allowed |-> {}, failed_requests |-> 0,
     resolv_timer |-> FALSE,
     request |-> NoRequest, is_pending |-> FALSE, is_internal |-> FALSE,
     req_timer |-> FALSE,
     sessions |-> {}, keep_alive |-> {}, timer |-> {},
     internal_teardown |-> {},
     failed_keep_alive |-> [s \in SessionIds |-> 0],
     medias |-> [s \in SessionIds |-> {}],
     tskt |-> "stopped", lookups |-> 0, wire |-> {},
     owed |-> {}, forgotten |-> {}, spurious |-> FALSE,
     notified |-> "DISCONNECTED"]

set_connection_state(c, new_state) ==
    IF c.conn_state = new_state THEN c
    ELSE [c EXCEPT !.conn_state = new_state, !.notified = new_state]

\* methods_allowed = 0 allows everything.
Allowed(c, m) == c.methods_allowed = {} \/ m \in c.methods_allowed

\* rtsp_client_get_session() with add: an id that is already known is kept.
get_session_add(c, s) ==
    IF s \in c.sessions THEN c
    ELSE [c EXCEPT !.sessions = @ \cup {s}]

\* The session and its timer are freed; the fields of a freed session are
\* reset so that a later session with that id starts from calloc()ed memory.
remove_session_internal(c, s) ==
    IF s \notin c.sessions THEN c
    ELSE [c EXCEPT !.sessions = @ \ {s}, !.keep_alive = @ \ {s},
                   !.timer = @ \ {s}, !.internal_teardown = @ \ {s},
                   !.failed_keep_alive[s] = 0, !.medias[s] = {}]

\* Mutant: the sessions are freed, their timers stay.
remove_all_sessions_TimersLeft(c) == [c EXCEPT !.sessions = {}]

remove_all_sessions(c) ==
    [c EXCEPT !.sessions = {}, !.keep_alive = {}, !.timer = {},
              !.internal_teardown = {},
              !.failed_keep_alive = [s \in SessionIds |-> 0],
              !.medias = [s \in SessionIds |-> {}]]

(***************************************************************************)
(* Sending                                                                 *)
(***************************************************************************)

\* The request with that CSeq leaves the slot, and its callback never runs.
Forget(c, cseq) ==
    [c EXCEPT !.owed = @ \ {cseq},
              !.forgotten = @ \cup (c.owed \cap {cseq})]

\* rtsp_request_header_clear() and the new header: a request that was in the
\* slot is forgotten, whether or not the new one is then sent.
SetHeader(c, q) ==
    [IF c.is_pending THEN Forget(c, c.request.cseq) ELSE c EXCEPT !.request = q]

\* Mutant: the CSeq is not used up.
TakeSlot_SameCseq(c, q) == [SetHeader(c, q) EXCEPT !.is_pending = TRUE]

\* The new header is sent: the slot is taken and the CSeq used up.
TakeSlot(c, q) ==
    [SetHeader(c, q) EXCEPT !.is_pending = TRUE, !.cseq = @ + 1]

\* A user request takes the request timer away from a pending keep-alive.
clear_pending_keep_alive_timer(c) ==
    IF c.keep_alive = {} THEN c ELSE [c EXCEPT !.req_timer = FALSE]

\* Mutant: the timer is left disarmed.
RetryLater_Never(c, s) == c

\* reset_keep_alive_timer()
RetryLater(c, s) == [c EXCEPT !.timer = @ \cup {s}]

\* send_keep_alive(): a full socket counts as sent (the timer will retry).
send_keep_alive(c, s, res) ==
    LET q == [method |-> "GET_PARAMETER", cseq |-> c.cseq,
              session |-> IF res = "EAUTH" THEN NoSession ELSE s,
              media |-> NoMedia]
        failed == c.failed_keep_alive[s] + 1
    IN  CASE ~Allowed(c, "GET_PARAMETER") -> c
          [] Allowed(c, "GET_PARAMETER") /\ c.conn_state # "CONNECTED" ->
               IF failed >= MaxFailedKeepAlive THEN remove_session_internal(c, s)
               ELSE RetryLater([c EXCEPT !.failed_keep_alive[s] = failed], s)
          [] Allowed(c, "GET_PARAMETER") /\ c.conn_state = "CONNECTED" ->
               IF s \in c.keep_alive THEN c
               ELSE IF c.is_pending THEN RetryLater(c, s)
               ELSE IF res \in {"ERR", "EAUTH"} THEN SetHeader(c, q)
               ELSE [TakeSlot(c, q) EXCEPT
                       !.keep_alive = @ \cup {s}, !.req_timer = TRUE,
                       !.wire = IF res = "OK" THEN @ \cup {q} ELSE @]

\* What the application's requests share once their own checks have passed:
\* the header is built over whatever was in the slot, then sent.
SendRequest(c, m, s, md, res, timed) ==
    LET d == clear_pending_keep_alive_timer(c)
        q == [method |-> m, cseq |-> c.cseq,
              session |-> IF res = "EAUTH" THEN NoSession ELSE s,
              media |-> md]
    IN  IF res # "OK" THEN SetHeader(d, q)
        ELSE [TakeSlot(d, q) EXCEPT !.req_timer = timed \/ @,
                                    !.wire = @ \cup {q}]

\* Otherwise a request is refused with -EPIPE or -EBUSY: the slot is free, or
\* some session waits for the answer to a keep-alive.
CanSend(c) ==
    /\ c.conn_state = "CONNECTED"
    /\ ~c.is_pending \/ c.keep_alive # {}

\* Otherwise it is refused with -ENOSYS, -EPIPE or -EBUSY.
CanRequest(c, m) == Allowed(c, m) /\ CanSend(c)

\* send_teardown(): also called by the client itself with internal = TRUE.
send_teardown(c, md, s, res, timed, internal) ==
    IF ~CanRequest(c, "TEARDOWN") THEN c
    ELSE IF s \notin c.sessions THEN clear_pending_keep_alive_timer(c)
    ELSE LET d == SendRequest(c, "TEARDOWN", s, md, res, timed)
         IN  IF res # "OK" THEN d
             ELSE [d EXCEPT !.is_internal = internal,
                            !.internal_teardown = IF internal THEN @ \cup {s}
                                                  ELSE @ \ {s}]

send_teardown_ok(c, s, res) ==
    CanRequest(c, "TEARDOWN") /\ s \in c.sessions /\ res = "OK"

(***************************************************************************)
(* Completion of the request in the slot                                   *)
(***************************************************************************)

Response == [code : {"2xx", "454", "other"}, session : SessionOrNone,
             public : SUBSET Methods]

\* The response header request_complete() makes up when there is none; it
\* carries the session id of the request.
Dummy(c) == [code |-> "other", session |-> c.request.session, public |-> {}]

\* The method's response callback, for the request with that CSeq.
Callback(c, cseq) ==
    [c EXCEPT !.owed = @ \ {cseq}, !.spurious = @ \/ cseq \notin c.owed]

SessionOf(q, resp) ==
    IF resp.session # NoSession THEN resp.session ELSE q.session

\* Mutant: the answer to any request creates a session.
SessionAlive_Creates(c, q, sid) ==
    LET d == IF sid # NoSession THEN get_session_add(c, sid) ELSE c
    IN  IF sid \notin d.sessions THEN d
        ELSE RetryLater([d EXCEPT !.keep_alive = @ \ {sid}], sid)

\* The part of request_complete() that finds, or for SETUP creates, the
\* session and re-arms its keep-alive timer.
SessionAlive(c, q, sid) ==
    LET d == IF q.method = "SETUP" /\ sid # NoSession
             THEN get_session_add(c, sid) ELSE c
    IN  IF sid \notin d.sessions THEN d
        ELSE RetryLater([d EXCEPT !.keep_alive = @ \ {sid}], sid)

\* Mutant: a SETUP that fails is not reported to the application.
setup_request_complete_Silent(c, q, sid, status) ==
    IF status = "OK" THEN Callback(c, q.cseq) ELSE c

\* setup_request_complete(), without the interleaved channels.
setup_request_complete(c, q, sid, status) ==
    LET d == Callback(c, q.cseq)
    IN  IF status = "OK" /\ sid \in c.sessions
        THEN [d EXCEPT !.medias[sid] = @ \cup {q.media}]
        ELSE d

\* A TEARDOWN names a media the session does not have.
UnknownMedia(c, q, sid) ==
    sid \in c.sessions /\ q.media # NoMedia /\ q.media \notin c.medias[sid]

\* teardown_request_complete(): of a media the session does not have, the
\* application is told nothing.
teardown_request_complete(c, q, sid) ==
    IF sid \notin c.sessions
    THEN IF c.is_internal THEN c
         ELSE [Callback(c, q.cseq) EXCEPT !.is_internal = FALSE]
    ELSE IF UnknownMedia(c, q, sid) THEN Forget(c, q.cseq)
    ELSE LET d == IF sid \in c.internal_teardown THEN c
                  ELSE [Callback(c, q.cseq) EXCEPT !.is_internal = FALSE]
         IN  [d EXCEPT !.medias[sid] = @ \ {q.media}]

\* *session_removed after teardown_request_complete(), on the client before.
TeardownRemoves(c, q, sid) ==
    q.media = NoMedia \/ c.medias[sid] = {q.media}

\* Mutants: the response timer keeps running; the slot stays taken.
ClearSlot_TimerLeft(c) ==
    [c EXCEPT !.request = NoRequest, !.is_pending = FALSE]
ClearSlot_Kept(c) == [c EXCEPT !.req_timer = FALSE]

\* request_complete() resets the request before any callback runs.
ClearSlot(c) ==
    [c EXCEPT !.request = NoRequest, !.is_pending = FALSE, !.req_timer = FALSE]

\* request_complete() up to and including the method's callback; the
\* GET_PARAMETER case is that of a status other than TIMEOUT.
Completed(c, resp, status) ==
    LET q == c.request
        sid == SessionOf(q, resp)
        d == SessionAlive(ClearSlot(c), q, sid)
    IN  CASE q.method = "OPTIONS" ->
               Callback([d EXCEPT !.methods_allowed = resp.public], q.cseq)
          [] q.method = "SETUP" -> setup_request_complete(d, q, sid, status)
          [] q.method = "TEARDOWN" -> teardown_request_complete(d, q, sid)
          [] q.method = "GET_PARAMETER" ->
               IF sid \in d.sessions /\ status # "TIMEOUT"
               THEN [d EXCEPT !.failed_keep_alive[sid] = 0] ELSE d
          [] q.method \in {"DESCRIBE", "ANNOUNCE", "PLAY", "PAUSE", "RECORD"} ->
               Callback(d, q.cseq)
          [] q.method \notin Methods -> d

\* session_removed at the end of request_complete(): a 454 answer sets it,
\* a TEARDOWN of something the session has sets it anew.
SessionRemoved(c, resp) ==
    LET q == c.request
        sid == SessionOf(q, resp)
    IN  IF q.method = "TEARDOWN" /\ sid \in c.sessions /\ ~UnknownMedia(c, q, sid)
        THEN TeardownRemoves(c, q, sid)
        ELSE resp.code = "454"

\* request_complete() with a status other than TIMEOUT.
request_complete(c, resp, status) ==
    IF ~c.is_pending THEN c
    ELSE LET final == IF status = "OK" /\ resp.code # "2xx" THEN "FAILED"
                      ELSE status
             d == Completed(c, resp, final)
             e == IF SessionRemoved(c, resp)
                  THEN remove_session_internal(d, SessionOf(c.request, resp))
                  ELSE d
         IN  [e EXCEPT !.failed_requests = 0]

\* Mutant: the request is left in the slot of a closed connection.
abort_request_Forgotten(c) == c

\* request_complete(client, NULL, ..., RTSP_CLIENT_REQ_STATUS_ABORTED)
abort_request(c) == request_complete(c, Dummy(c), "ABORTED")

\* TSKT_CLIENT_EVENT_DISCONNECTED: by the user, or by the network, in which
\* case the transport client reconnects by itself.
event_disconnected(c) ==
    LET d == [c EXCEPT !.sock = FALSE, !.wire = {}]
    IN  CASE c.conn_state = "DISCONNECTING" ->
               set_connection_state(
                   abort_request([d EXCEPT !.remote = FALSE]), "DISCONNECTED")
          [] c.conn_state = "CONNECTED" ->
               set_connection_state(abort_request(d), "CONNECTING")
          [] c.conn_state \notin {"CONNECTED", "DISCONNECTING"} -> d

\* External: stopping a connected transport client delivers its
\* DISCONNECTED event before tskt_client_stop() returns.
tskt_client_stop(c) ==
    LET d == [c EXCEPT !.tskt = "stopped"]
    IN  IF c.tskt = "connected" THEN event_disconnected(d) ELSE d

\* Mutant: a TEARDOWN that cannot be sent leaves the session as it is.
GiveUp_Lingers(c, s, res) == send_teardown(c, NoMedia, s, res, TRUE, TRUE)

\* internal_teardown in request_complete(): the client sends a TEARDOWN of
\* its own; if it cannot, the session is removed at once.
GiveUp(c, s, res) ==
    LET d == send_teardown(c, NoMedia, s, res, TRUE, TRUE)
    IN  IF send_teardown_ok(c, s, res) THEN d
        ELSE remove_session_internal(d, s)

\* The timeout of a keep-alive: try again, or give the session up with a
\* TEARDOWN of the client's own after MaxFailedKeepAlive of them.
keep_alive_timeout(c, s, res) ==
    LET failed == c.failed_keep_alive[s] + 1
        d == [c EXCEPT !.failed_keep_alive[s] = failed]
    IN  IF failed < MaxFailedKeepAlive THEN send_keep_alive(d, s, res)
        ELSE GiveUp([d EXCEPT !.timer = @ \ {s}], s, res)

\* request_complete() with status TIMEOUT: too many timeouts in a row and
\* the connection is closed and opened again.
request_timeout(c, res, connect_ok) ==
    IF ~c.is_pending THEN c
    ELSE LET q == c.request
             resp == Dummy(c)
             sid == q.session
             d == Completed(c, resp, "TIMEOUT")
             e == IF q.method = "GET_PARAMETER" /\ sid \in d.sessions
                  THEN keep_alive_timeout(d, sid, res)
                  ELSE IF SessionRemoved(c, resp)
                       THEN remove_session_internal(d, sid) ELSE d
             f == [e EXCEPT !.failed_requests = @ + 1]
         IN  IF f.failed_requests < MaxFailedRequests THEN f
             ELSE [set_connection_state(tskt_client_stop(f), "CONNECTING")
                     EXCEPT !.tskt = IF connect_ok THEN "connecting" ELSE @]

(***************************************************************************)
(* Connection: calls of the application, resolver and socket events        *)
(***************************************************************************)

rtsp_client_disconnect(c) ==
    IF c.conn_state \in {"DISCONNECTED", "DISCONNECTING", "DESTROYED"} THEN c
    ELSE LET d == tskt_client_stop(set_connection_state(c, "DISCONNECTING"))
             e == IF c.conn_state = "CONNECTING"
                  THEN set_connection_state(
                           abort_request([d EXCEPT !.remote = FALSE]),
                           "DISCONNECTED")
                  ELSE d
         IN  remove_all_sessions(e)

Init == client = NewClient

\* One step of the loop ends in c, within the bound on CSeq numbers.
Becomes(c) == c.cseq <= MaxCseq /\ client' = c

\* rtsp_client_connect(): "EINVAL" fails before the resolver timer is set,
\* "ERESOLV" after it.
Connect(res) ==
    /\ client.conn_state = "DISCONNECTED"
    /\ client.lookups < MaxLookups
    /\ Becomes(IF res = "OK"
               THEN [set_connection_state(client, "CONNECTING") EXCEPT
                       !.remote = TRUE, !.resolv_timer = TRUE,
                       !.lookups = @ + 1]
               ELSE [client EXCEPT !.remote = FALSE,
                       !.resolv_timer = @ \/ res = "ERESOLV"])

\* tskt_resolv_cb() for any lookup still in flight: the callback does not
\* look at its id.  With no remote url there is nothing to connect to.
ResolvDone(ok) ==
    /\ client.lookups > 0
    /\ ok => client.remote /\ client.tskt = "stopped"
    /\ LET c == [client EXCEPT !.lookups = @ - 1, !.resolv_timer = FALSE]
       IN  Becomes(IF ok THEN [c EXCEPT !.tskt = "connecting"]
                   ELSE set_connection_state(c, "DISCONNECTED"))

\* Mutant: a lookup that has never been started is cancelled, too.
ResolvTimeout_Cancels ==
    /\ client.resolv_timer
    /\ Becomes(rtsp_client_disconnect(
           [client EXCEPT !.resolv_timer = FALSE, !.lookups = @ - 1]))

\* resolv_timer_cb()
ResolvTimeout ==
    /\ client.resolv_timer
    /\ Becomes(rtsp_client_disconnect(
           [client EXCEPT !.resolv_timer = FALSE,
                          !.lookups = IF @ > 0 THEN @ - 1 ELSE @]))

\* TSKT_CLIENT_EVENT_CONNECTED: each session, in list order, sends a
\* keep-alive.  The first session whose sending does not fail takes the
\* slot (first); those before it have failed, those after it retry later.
keep_alive_all(c, failed, first, res) ==
    LET ready == IF Allowed(c, "GET_PARAMETER") THEN c.sessions \ c.keep_alive
                 ELSE {}
        later == IF c.is_pending THEN ready ELSE ready \ (failed \cup {first})
        d == [c EXCEPT !.timer = @ \cup later]
    IN  IF c.is_pending \/ ready = {} THEN d
        ELSE IF first # NoSession THEN send_keep_alive(d, first, res)
        ELSE send_keep_alive(d, CHOOSE s \in failed : TRUE, "ERR")

SocketConnected(failed, first, res) ==
    /\ client.tskt = "connecting"
    /\ failed \subseteq client.sessions \ client.keep_alive
    /\ IF first = NoSession THEN failed = client.sessions \ client.keep_alive
       ELSE first \in (client.sessions \ client.keep_alive) \ failed
    /\ failed # {} => SendResults \cap {"ERR", "EAUTH"} # {}
    /\ res \in {"OK", "EAGAIN"}
    /\ Becomes(keep_alive_all(
           set_connection_state([client EXCEPT !.sock = TRUE,
                                               !.tskt = "connected"],
                                "CONNECTED"),
           failed, first, res))

\* The peer or the network closes the connection.
SocketDisconnected ==
    /\ client.tskt = "connected"
    /\ Becomes(event_disconnected([client EXCEPT !.tskt = "connecting"]))

Disconnect ==
    /\ client.conn_state \notin {"DISCONNECTED", "DISCONNECTING", "DESTROYED"}
    /\ Becomes(rtsp_client_disconnect(client))

\* rtsp_client_destroy(): the object is gone afterwards.
Destroy ==
    /\ client.conn_state # "DESTROYED"
    /\ LET c == remove_all_sessions(
                    tskt_client_stop([client EXCEPT !.req_timer = FALSE]))
       IN  Becomes([c EXCEPT !.conn_state = "DESTROYED", !.lookups = 0,
                             !.resolv_timer = FALSE, !.remote = FALSE,
                             !.request = NoRequest])

(***************************************************************************)
(* Requests of the application                                             *)
(***************************************************************************)

\* An accepted request owes the application one response callback.
Accepted(c, d) ==
    IF d.cseq = c.cseq THEN d ELSE [d EXCEPT !.owed = @ \cup {c.cseq}]

rtsp_client_options(c, res, timed) ==
    SendRequest(c, "OPTIONS", NoSession, NoMedia, res, timed)

rtsp_client_describe(c, res, timed) ==
    SendRequest(c, "DESCRIBE", NoSession, NoMedia, res, timed)

rtsp_client_announce(c, res, timed) ==
    SendRequest(c, "ANNOUNCE", NoSession, NoMedia, res, timed)

\* The requests for a session refuse one they do not know, after the timer
\* of a pending keep-alive has been cleared.
ForSession(c, m, s, md, res, timed) ==
    IF s \notin c.sessions THEN clear_pending_keep_alive_timer(c)
    ELSE SendRequest(c, m, s, md, res, timed)

\* SETUP of a media in a known session, or in a new one (s = NoSession).
rtsp_client_setup(c, s, md, res, timed) ==
    IF s = NoSession THEN SendRequest(c, "SETUP", s, md, res, timed)
    ELSE ForSession(c, "SETUP", s, md, res, timed)

rtsp_client_play(c, s, res, timed) ==
    ForSession(c, "PLAY", s, NoMedia, res, timed)

rtsp_client_pause(c, s, res, timed) ==
    ForSession(c, "PAUSE", s, NoMedia, res, timed)

rtsp_client_record(c, s, res, timed) ==
    ForSession(c, "RECORD", s, NoMedia, res, timed)

Options(res, timed) ==
    /\ CanSend(client)
    /\ res # "EAUTH"    \* OPTIONS carries no Authorization header
    /\ Becomes(Accepted(client, rtsp_client_options(client, res, timed)))

Describe(res, timed) ==
    /\ CanRequest(client, "DESCRIBE")
    /\ Becomes(Accepted(client, rtsp_client_describe(client, res, timed)))

Announce(res, timed) ==
    /\ CanRequest(client, "ANNOUNCE")
    /\ Becomes(Accepted(client, rtsp_client_announce(client, res, timed)))

Setup(s, md, res, timed) ==
    /\ CanRequest(client, "SETUP")
    /\ Becomes(Accepted(client, rtsp_client_setup(client, s, md, res, timed)))

Play(s, res, timed) ==
    /\ CanRequest(client, "PLAY")
    /\ Becomes(Accepted(client, rtsp_client_play(client, s, res, timed)))

Pause(s, res, timed) ==
    /\ CanRequest(client, "PAUSE")
    /\ Becomes(Accepted(client, rtsp_client_pause(client, s, res, timed)))

Record(s, res, timed) ==
    /\ CanRequest(client, "RECORD")
    /\ Becomes(Accepted(client, rtsp_client_record(client, s, res, timed)))

Teardown(s, md, res, timed) ==
    /\ CanRequest(client, "TEARDOWN")
    /\ Becomes(Accepted(client,
                        send_teardown(client, md, s, res, timed, FALSE)))

RemoveSession(s) ==
    /\ s \in client.sessions
    /\ Becomes(remove_session_internal(client, s))

Cancel ==
    /\ client.is_pending
    /\ Becomes(request_complete(client, Dummy(client), "CANCELED"))

(***************************************************************************)
(* Messages of the server and timers                                       *)
(***************************************************************************)

\* rtsp_client_response_process(): an answer with another CSeq is taken for
\* the answer to the keep-alive of a session that waits for one (s).
response_process(c, cseq, resp, s) ==
    IF cseq = c.request.cseq THEN request_complete(c, resp, "OK")
    ELSE IF s = NoSession THEN c
    ELSE RetryLater([c EXCEPT !.keep_alive = @ \ {s}], s)

\* A server answers a request of this connection, in any order, with the
\* session of that request or, to one without a session, with any id.
ReceiveResponse(m, resp, s) ==
    /\ m \in client.wire
    /\ resp.session \in IF m.session = NoSession THEN SessionOrNone
                        ELSE {m.session, NoSession}
    /\ m.method # "OPTIONS" => resp.public = {}
    /\ IF client.keep_alive = {} THEN s = NoSession ELSE s \in client.keep_alive
    /\ Becomes([response_process(client, m.cseq, resp, s)
                    EXCEPT !.wire = @ \ {m}])

\* An answer with no CSeq at all, which some servers send on errors.
ReceiveNoCseq(m, s) ==
    /\ m \in client.wire
    /\ IF client.keep_alive = {} THEN s = NoSession ELSE s \in client.keep_alive
    /\ LET resp == [code |-> "other", session |-> NoSession, public |-> {}]
       IN  Becomes([response_process(client, 0, resp, s)
                        EXCEPT !.wire = @ \ {m}])

\* teardown_request_process(): the server tears down a media, or a whole
\* session; a media that is not known stands for the session.
ServerTeardown(s, md) ==
    /\ client.tskt = "connected"
    /\ s \in client.sessions
    /\ Becomes(IF md \in client.medias[s] /\ client.medias[s] # {md}
               THEN [client EXCEPT !.medias[s] = @ \ {md}]
               ELSE remove_session_internal(client, s))

\* rtsp_client_resp_timeout_cb()
ResponseTimeout(res, connect_ok) ==
    /\ client.req_timer
    /\ Becomes(request_timeout([client EXCEPT !.req_timer = FALSE],
                               res, connect_ok))

\* rtsp_client_pomp_timer_cb(): the timer is one-shot.
KeepAliveTimer(s, res) ==
    /\ s \in client.timer
    /\ Becomes(send_keep_alive([client EXCEPT !.timer = @ \ {s}], s, res))

\* A destroyed client does nothing more.
Destroyed == client.conn_state = "DESTROYED" /\ UNCHANGED client

ConnectionNext ==
    \/ \E res \in {"OK", "EINVAL", "ERESOLV"} : Connect(res)
    \/ \E ok \in BOOLEAN : ResolvDone(ok)
    \/ ResolvTimeout
    \/ \E failed \in SUBSET client.sessions, first \in SessionOrNone,
          res \in SendResults : SocketConnected(failed, first, res)
    \/ SocketDisconnected
    \/ Disconnect
    \/ Destroy

RequestNext ==
    \E res \in SendResults, timed \in BOOLEAN :
        \/ Options(res, timed)
        \/ Describe(res, timed)
        \/ Announce(res, timed)
        \/ \E s \in SessionOrNone, md \in Medias : Setup(s, md, res, timed)
        \/ \E s \in SessionIds : Play(s, res, timed)
        \/ \E s \in SessionIds : Pause(s, res, timed)
        \/ \E s \in SessionIds : Record(s, res, timed)
        \/ \E s \in SessionIds, md \in MediaOrNone : Teardown(s, md, res, timed)

EventNext ==
    \/ \E s \in SessionIds : RemoveSession(s)
    \/ Cancel
    \/ \E m \in client.wire, code \in {"2xx", "454", "other"},
          sid \in SessionOrNone, pub \in PublicMethods \cup {{}},
          s \in SessionOrNone :
          ReceiveResponse(m, [code |-> code, session |-> sid, public |-> pub], s)
    \/ \E m \in client.wire, s \in SessionOrNone : ReceiveNoCseq(m, s)
    \/ \E s \in SessionIds, md \in MediaOrNone : ServerTeardown(s, md)
    \/ \E res \in SendResults, connect_ok \in BOOLEAN :
          ResponseTimeout(res, connect_ok)
    \/ \E s \in SessionIds, res \in SendResults : KeepAliveTimer(s, res)
    \/ Destroyed

Next == ConnectionNext \/ RequestNext \/ EventNext

Spec == Init /\ [][Next]_client

(***************************************************************************)
(* Properties                                                              *)
(***************************************************************************)

\* A request is in the slot only while the client is connected: every way
\* out of CONNECTED (network loss, disconnect, reconnection after too many
\* timeouts, destruction) completes it, so no request waits on a dead socket
\* and no callback runs after the client has been told of the disconnection.
PendingOnlyConnected ==
    client.is_pending => client.conn_state = "CONNECTED" /\ client.sock

\* Once disconnected (rtsp_client_disconnect(), resolver failure) nothing of
\* the connection is left: no session, no armed timer but the resolver's, no
\* open socket.  rtsp_client_connect() relies on it.
DisconnectedIsClean ==
    client.conn_state \in {"DISCONNECTED", "DESTROYED"} =>
        /\ client.sessions = {} /\ client.timer = {}
        /\ ~client.req_timer /\ ~client.sock
        /\ client.tskt = "stopped"

\* The response timer runs only for a request in the slot: a request that is
\* answered, cancelled, aborted or replaced never times out afterwards.
TimerHasRequest == client.req_timer => client.is_pending

\* An answer still to come whose CSeq is that of the request in the slot is
\* the answer to that request, and never a late one to a request that was
\* replaced, cancelled or timed out (rtsp_client_response_process()).
AnswersMatch ==
    \A m \in client.wire :
        m.cseq = client.request.cseq => client.is_pending /\ m = client.request

\* Accepted requests of the application that have had no response callback
\* and are not in the slot any more, so that they never will.
Lost(c) ==
    c.forgotten \cup (c.owed \ IF c.is_pending THEN {c.request.cseq} ELSE {})

\* A new header over a pending request while some session still waits for the
\* answer to a keep-alive (see BusyWhilePending).
OverwritesRequest ==
    client.is_pending /\ client.keep_alive # {}
      /\ client'.request.cseq = client.cseq

\* The end of a TEARDOWN of a media the session does not have: "media not
\* found" (teardown_request_complete()).
EndsUnknownTeardown ==
    /\ client.is_pending /\ client.request.method = "TEARDOWN"
    /\ UnknownMedia(client, client.request, client.request.session)
    /\ ~client'.is_pending

\* The application waits in vain for the callback of an accepted request in
\* two cases only: the request was overwritten in the slot because of a
\* keep-alive that was not answered, or it was a TEARDOWN of a media the
\* session does not have.  It is then the request in the slot that is lost;
\* every other end (answer, refusal, timeout, cancel, loss of the connection,
\* disconnection, destruction) calls back.
OnlyKnownLost ==
    [][\/ Lost(client') = Lost(client)
       \/ /\ Lost(client') = Lost(client) \cup {client.request.cseq}
          /\ OverwritesRequest \/ EndsUnknownTeardown]_client

\* No response callback runs twice, nor for a keep-alive or TEARDOWN of the
\* client's own, nor for a request that was refused before its header was put
\* into the slot.
NoSpuriousCallback == ~client.spurious

\* "If there is a pending request that is not a keep alive, remain in busy
\* state" (rtsp_client.c, the request functions): a request of the
\* application leaves the slot only by completing.
BusyWhilePending ==
    [][(client.is_pending /\ client.request.method # "GET_PARAMETER"
        /\ client'.is_pending) => client'.request = client.request]_client

\* No session is forgotten by the keep-alive: its timer is armed, or it is
\* marked as waiting for the answer to one, or its TEARDOWN is in the slot.
\* (The timer is one-shot: each path that consumes it must re-arm it or hand
\* over.)  Of a client with one session: with two, the TEARDOWN of one can be
\* overwritten in the slot (see BusyWhilePending).
KeepAliveScheduled ==
    \A s \in client.sessions :
        \/ s \in client.timer \cup client.keep_alive
        \/ /\ client.is_pending
           /\ client.request.method = "TEARDOWN"
           /\ client.request.session = s

\* A session whose keep-alives have failed MaxFailedKeepAlive times is being
\* torn down by the client itself; it does not linger with a spent counter.
\* Of a client with one session, as above.
GivenUpIsTornDown ==
    \A s \in client.sessions :
        client.failed_keep_alive[s] >= MaxFailedKeepAlive =>
            /\ client.is_pending
            /\ client.request.method = "TEARDOWN"
            /\ client.request.session = s
            /\ s \in client.internal_teardown

\* What the application sees of the client.
Promise == INSTANCE RtspClientPromise WITH
    state <- client.conn_state, owed <- client.owed,
    sessions <- client.sessions, next <- client.cseq

\* The client keeps its promise: every callback, timer and call of the
\* application is, of what the application sees, one step of
\* RtspClientPromise or none.  Of a client whose requests can be sent: the
\* header of a SETUP that could not be sent over a pending keep-alive stays in
\* the slot, and brings its session back when that keep-alive times out.
KeepsPromise == Promise!Spec
=============================================================================
