----------------------------- MODULE RtspServer -----------------------------
(***************************************************************************)
(* The RTSP server of librtsp (src/rtsp_server.c, rtsp_server_session.c,   *)
(* rtsp_server_request.c): client connections, sessions with their medias, *)
(* and the requests that wait for the application's reply.                 *)
(*                                                                         *)
(* A request that needs the application is handled in two steps: its       *)
(* arrival up to the application's callbacks, and the return of the last   *)
(* callback.  Between them (cb is the request) only the application runs,  *)
(* which may reply at once, reply to other requests or force a teardown;   *)
(* or it replies later, media by media, unless the reply timer of the      *)
(* server is faster.                                                       *)
(*                                                                         *)
(* A freed session or media is one that is no longer in sessions.  Using   *)
(* one, or a NULL request, crashes the server: nothing happens after it.   *)
(***************************************************************************)
EXTENDS Naturals, FiniteSets, Functions

CONSTANTS
    Conns,              \* connection objects, reused once closed
    SessionIds,         \* random session ids, never reused
    Medias,             \* paths of medias, each with a '/' in it
    NoConn, NoSession,
    MaxAccepts,         \* bound: connections accepted
    MaxRequests         \* bound: requests that reach the application

\* What a TEARDOWN may name besides a media: a prefix of every path, or a
\* name that is a prefix of none.
AllPaths == "all"
NoPath == "none"

ASSUME ServerAssumption ==
    /\ NoConn \notin Conns
    /\ NoSession \notin SessionIds
    /\ IsFiniteSet(Medias)
    /\ AllPaths \notin Medias /\ NoPath \notin Medias
    /\ MaxAccepts \in Nat /\ MaxRequests \in Nat

VARIABLES
    conns,      \* open connections, each with the number of its accept
    sessions,   \* live sessions
    idle,       \* sessions with rtsp_server_session_remove_idle() scheduled
    requests,   \* requests the application knows of; those in the server's
                \* pending_requests list are .pending
    cb,         \* request whose callbacks run (in_callback), or 0
    status,     \* "running", "destroyed" or "crashed"
    accepted,   \* history: connections accepted so far
    received,   \* history: number of the last request passed on
    created,    \* history: sessions created so far
    known,      \* history: sessions whose id a response has carried
    held,       \* history: medias <<session, path>> the application has
                \* accepted in SETUP and was not told to tear down
    out         \* history: responses sent in the last step
vars == <<conns, sessions, idle, requests, cb, status,
          accepted, received, created, known, held, out>>

Sessionless == {"DESCRIBE", "ANNOUNCE", "OTHER"}
PerMedia == {"PLAY", "PAUSE", "RECORD", "TEARDOWN"}
Methods == Sessionless \cup PerMedia \cup {"SETUP"}
Codes == {"2xx", "error"}
RequestIds == 1..MaxRequests

Session == [op : Methods \cup {"UNKNOWN"},      \* op_in_progress
            medias : SUBSET Medias,
            tearing : SUBSET Medias]            \* is_tearing_down

Request == [method : Methods, session : SessionIds \cup {NoSession},
            conn : Conns \cup {NoConn},
            medias : SUBSET Medias, replied : SUBSET Medias,
            done : BOOLEAN,                     \* replied, of the request
            pending : BOOLEAN,
            \* history: the connection it came from, the response codes sent
            \* for it, the medias the application has replied for, those it
            \* was told are gone, and those freed without telling it
            from : 1..MaxAccepts, codes : SUBSET Codes,
            answered : SUBSET Medias, told : SUBSET Medias,
            freed : SUBSET Medias]

\* Types; a request whose callbacks run (cb) is never freed before they
\* return, and only sessions that were created live, are known or are held.
TypeOK ==
    /\ DOMAIN conns \subseteq Conns
    /\ \A c \in DOMAIN conns : conns[c] \in 1..MaxAccepts
    /\ DOMAIN sessions \subseteq created /\ created \subseteq SessionIds
    /\ \A s \in DOMAIN sessions : sessions[s] \in Session
    /\ idle \subseteq SessionIds
    /\ DOMAIN requests \subseteq RequestIds
    /\ \A r \in DOMAIN requests : requests[r] \in Request
    /\ cb \in DOMAIN requests \cup {0}
    /\ status \in {"running", "destroyed", "crashed"}
    /\ accepted \in 0..MaxAccepts /\ received \in 0..MaxRequests
    /\ known \subseteq created
    /\ held \subseteq created \X Medias

Init ==
    /\ conns = << >> /\ sessions = << >> /\ requests = << >>
    /\ idle = {} /\ cb = 0 /\ status = "running"
    /\ accepted = 0 /\ received = 0 /\ created = {}
    /\ known = {} /\ held = {} /\ out = {}

(***************************************************************************)
(* Sessions and pending requests                                           *)
(***************************************************************************)

PendingOn(s) == {r \in DOMAIN requests :
                    requests[r].pending /\ requests[r].session = s}

\* Mutant: the idle callback stays scheduled.
session_remove_IdleLeft(s) ==
    /\ sessions' = Restrict(sessions, DOMAIN sessions \ {s})
    /\ UNCHANGED idle

\* rtsp_server_session_remove(), which also cancels the idle callback.
session_remove(s) ==
    /\ sessions' = Restrict(sessions, DOMAIN sessions \ {s})
    /\ idle' = idle \ {s}

\* The requests once medias ps of session s are freed.  The application knows
\* from a teardown callback that it has nothing more to reply to a request
\* with one of these methods.
FreeMedias(q, s, ps, methods) ==
    [r \in DOMAIN q |->
        IF q[r].session # s THEN q[r]
        ELSE IF q[r].method \in methods THEN [q[r] EXCEPT !.told = @ \cup (q[r].medias \cap ps)]
        ELSE [q[r] EXCEPT !.freed = @ \cup (q[r].medias \cap ps)]]

\* The application forgets a request that is over and that it has replied to
\* for every media it still has.
Remembered(q) ==
    RestrictDomain(q, LAMBDA r : q[r].pending
                        \/ ~(q[r].medias \subseteq q[r].answered \cup q[r].told))

\* Mutant: the request stays in the list.
pending_request_remove_Kept(q, r) == q

\* rtsp_server_pending_request_remove()
pending_request_remove(q, r) == [q EXCEPT ![r].pending = FALSE]

\* The end of a request that has been replied to, in reply_to_*() outside a
\* callback or when the callbacks return: q are the requests so far.
Finish(q, r) ==
    LET s == q[r].session
        p == pending_request_remove(q, r)
        left == sessions[s].medias \ sessions[s].tearing
    IN  CASE q[r].method \in Sessionless ->
               requests' = Remembered(p) /\ UNCHANGED <<sessions, idle>>
          [] q[r].method \in {"SETUP", "PLAY", "PAUSE", "RECORD"} ->
               /\ requests' = Remembered(p)
               /\ sessions' = [sessions EXCEPT ![s].op = "UNKNOWN"]
               /\ UNCHANGED idle
          [] q[r].method = "TEARDOWN" ->
               /\ requests' = Remembered(
                      FreeMedias(p, s, sessions[s].tearing,
                                 Methods \ {"TEARDOWN"}))
               /\ IF left = {} THEN session_remove(s)
                  ELSE /\ sessions' = [sessions EXCEPT
                             ![s] = [op |-> "UNKNOWN", medias |-> left,
                                     tearing |-> {}]]
                       /\ UNCHANGED idle

(***************************************************************************)
(* Responses                                                               *)
(***************************************************************************)

\* A response to a request on connection c, if it has not been closed.
Response(c, from, code, before) ==
    IF c = NoConn THEN {}
    ELSE {[conn |-> c, from |-> from, code |-> code, before |-> before]}

ResponseTo(q, code) == Response(q.conn, q.from, code, q.codes)

\* A request from connection c is answered in its handler.
Answer(c, code) == out' = Response(c, conns[c], code, {})

(***************************************************************************)
(* Connections                                                             *)
(***************************************************************************)

Running == status = "running"
InLoop == Running /\ cb = 0

\* POMP_EVENT_CONNECTED
Connected(c) ==
    /\ InLoop /\ c \notin DOMAIN conns /\ accepted < MaxAccepts
    /\ accepted' = accepted + 1
    /\ conns' = [x \in DOMAIN conns \cup {c} |->
                    IF x = c THEN accepted + 1 ELSE conns[x]]
    /\ out' = {}
    /\ UNCHANGED <<sessions, idle, requests, cb, status, received, created,
                   known, held>>

\* Mutant: the requests keep the closed connection.
Disconnected_ConnKept(c) ==
    /\ InLoop /\ c \in DOMAIN conns
    /\ conns' = Restrict(conns, DOMAIN conns \ {c})
    /\ out' = {}
    /\ UNCHANGED <<sessions, idle, requests, cb, status, accepted, received,
                   created, known, held>>

\* POMP_EVENT_DISCONNECTED: no pending request keeps the connection.
Disconnected(c) ==
    /\ InLoop /\ c \in DOMAIN conns
    /\ conns' = Restrict(conns, DOMAIN conns \ {c})
    /\ requests' = [r \in DOMAIN requests |->
                       IF requests[r].conn = c
                       THEN [requests[r] EXCEPT !.conn = NoConn]
                       ELSE requests[r]]
    /\ out' = {}
    /\ UNCHANGED <<sessions, idle, cb, status, accepted, received, created,
                   known, held>>

(***************************************************************************)
(* Arrival of requests                                                     *)
(***************************************************************************)

\* A request comes on an open connection.  Nothing makes it wait for the one
\* before it: a client may pipeline, and one of this library sends the next
\* request when it cancels one, or has waited too long for its answer.
Arrives(c) == InLoop /\ c \in DOMAIN conns

\* rtsp_server_pending_request_add(): the request with the next number.
pending_request_add(c, m, s, ps) ==
    [r \in DOMAIN requests \cup {received + 1} |->
        IF r \in DOMAIN requests THEN requests[r]
        ELSE [method |-> m, session |-> s, conn |-> c, medias |-> ps,
              replied |-> {}, done |-> FALSE, pending |-> TRUE,
              from |-> conns[c], codes |-> {}, answered |-> {},
              told |-> {}, freed |-> {}]]

\* The request is passed on to the application's callbacks.
Passed(c, m, s, ps) ==
    /\ received < MaxRequests
    /\ received' = received + 1
    /\ requests' = pending_request_add(c, m, s, ps)
    /\ cb' = received + 1
    /\ out' = {}

\* OPTIONS, and every request that is refused before a session is touched
\* (bad url, no Session header, unsupported transport).
Options(c) ==
    /\ InLoop /\ c \in DOMAIN conns
    /\ \E code \in Codes : Answer(c, code)
    /\ UNCHANGED <<conns, sessions, idle, requests, cb, status, accepted,
                   received, created, known, held>>

\* A request that is not for a session.
SessionlessRequest(c, m) ==
    /\ InLoop /\ c \in DOMAIN conns
    /\ received < MaxRequests
    /\ received' = received + 1
    /\ requests' = pending_request_add(c, m, NoSession, {})
    /\ cb' = IF m = "OTHER" THEN 0 ELSE received + 1
    /\ out' = {}
    /\ UNCHANGED <<conns, sessions, idle, status, accepted, created, known,
                   held>>

\* rtsp_server_describe(), rtsp_server_announce_req()
Describe(c) == SessionlessRequest(c, "DESCRIBE")
AnnounceReq(c) == SessionlessRequest(c, "ANNOUNCE")

\* The server has no code for an unknown method, SET_PARAMETER or REDIRECT:
\* these wait for the timer.
Unsupported(c) == SessionlessRequest(c, "OTHER")

\* rtsp_server_setup() without a Session header: s is the new session.
SetupNew(c, s, p) ==
    /\ InLoop /\ c \in DOMAIN conns
    /\ s \in SessionIds \ created
    /\ Passed(c, "SETUP", s, {p})
    /\ created' = created \cup {s}
    /\ sessions' = [x \in DOMAIN sessions \cup {s} |->
                       IF x = s THEN [op |-> "SETUP", medias |-> {p},
                                      tearing |-> {}]
                       ELSE sessions[x]]
    /\ UNCHANGED <<conns, idle, status, accepted, known, held>>

\* A session the client cannot use: unknown, or without medias.
NotFound(s) == s \notin DOMAIN sessions \/ sessions[s].medias = {}

\* rtsp_server_setup() in a session the client knows.
Setup(c, s, p) ==
    /\ Arrives(c) /\ s \in known
    /\ IF s \in DOMAIN sessions /\ p \notin sessions[s].medias
       THEN /\ Passed(c, "SETUP", s, {p})
            /\ sessions' = [sessions EXCEPT ![s].op = "SETUP",
                                            ![s].medias = @ \cup {p}]
       ELSE Answer(c, "error") /\ UNCHANGED <<sessions, requests, received, cb>>
    /\ UNCHANGED <<conns, idle, status, accepted, created, known, held>>

\* Mutant: op_in_progress is not set.
SessionRequest_NoOp(c, m, s) ==
    /\ Arrives(c) /\ s \in known /\ ~NotFound(s)
    /\ Passed(c, m, s, sessions[s].medias)
    /\ UNCHANGED <<conns, sessions, idle, status, accepted, created, known, held>>

\* A request for all medias of a session.
SessionRequest(c, m, s) ==
    /\ Arrives(c) /\ s \in known
    /\ IF NotFound(s)
       THEN Answer(c, "error") /\ UNCHANGED <<sessions, requests, received, cb>>
       ELSE /\ Passed(c, m, s, sessions[s].medias)
            /\ sessions' = [sessions EXCEPT ![s].op = m]
    /\ UNCHANGED <<conns, idle, status, accepted, created, known, held>>

\* rtsp_server_play(), rtsp_server_pause(), rtsp_server_record()
Play(c, s) == SessionRequest(c, "PLAY", s)
Pause(c, s) == SessionRequest(c, "PAUSE", s)
Record(c, s) == SessionRequest(c, "RECORD", s)

\* Mutant: the medias of other paths are not filtered out.
TornDown_Unfiltered(s, t) == IF t = NoPath THEN {} ELSE sessions[s].medias

\* The medias of session s a TEARDOWN of path t is for: a media that the
\* session has, those below a prefix, and all of them if t has a '/' and
\* names none.
TornDown(s, t) ==
    IF t = NoPath THEN {}
    ELSE IF t \in sessions[s].medias THEN {t}
    ELSE sessions[s].medias

\* rtsp_server_teardown(): a path that matches nothing leaves op set.
Teardown(c, s, t) ==
    /\ Arrives(c) /\ s \in known
    /\ IF NotFound(s)
       THEN /\ Answer(c, "error")
            /\ UNCHANGED <<sessions, requests, received, cb, held>>
       ELSE /\ sessions' = [sessions EXCEPT ![s].op = "TEARDOWN",
                                            ![s].tearing = @ \cup TornDown(s, t)]
            /\ held' = held \ ({s} \X TornDown(s, t))
            /\ IF TornDown(s, t) = {}
               THEN Answer(c, "error") /\ UNCHANGED <<requests, received, cb>>
               ELSE Passed(c, "TEARDOWN", s, TornDown(s, t))
    /\ UNCHANGED <<conns, idle, status, accepted, created, known>>

\* rtsp_server_get_parameter(): the keep-alive.
GetParameter(c, s) ==
    /\ InLoop /\ c \in DOMAIN conns /\ s \in known
    /\ Answer(c, IF NotFound(s) THEN "error" ELSE "2xx")
    /\ UNCHANGED <<conns, sessions, idle, requests, cb, status, accepted,
                   received, created, known, held>>

\* The callbacks of request r have returned.  If its session is gone by now
\* the handler writes to freed memory.
CallbackReturn(r) ==
    /\ Running /\ cb = r /\ r # 0
    /\ cb' = 0 /\ out' = {}
    /\ IF ~requests[r].done
       THEN UNCHANGED <<sessions, idle, requests, status>>
       ELSE IF requests[r].session \in DOMAIN sessions \cup {NoSession}
       THEN Finish(requests, r) /\ UNCHANGED status
       ELSE status' = "crashed" /\ UNCHANGED <<sessions, idle, requests>>
    /\ UNCHANGED <<conns, accepted, received, created, known, held>>

(***************************************************************************)
(* Replies of the application                                              *)
(***************************************************************************)

\* Mutant: a request is freed inside its own callback.
Replied_Always(q, r) == Finish([q EXCEPT ![r].done = TRUE], r)

\* Request r has been replied to: it ends now, or when its callbacks return.
Replied(q, r) ==
    LET d == [q EXCEPT ![r].done = TRUE]
    IN  IF cb = r THEN requests' = d /\ UNCHANGED <<sessions, idle>>
        ELSE Finish(d, r)

\* The application has replied for media p; code is what was sent, if
\* anything.
Replying(r, p, code) ==
    [requests EXCEPT ![r].answered = @ \cup {p},
                     ![r].codes = IF requests[r].conn = NoConn \/ code = "none"
                                  THEN @ ELSE @ \cup {code}]

\* The application may reply for media p of request r: it has not done so,
\* and has not been told that the media is gone.
MayReply(r, p) ==
    /\ Running /\ r \in DOMAIN requests
    /\ p \in requests[r].medias \ (requests[r].answered \cup requests[r].told)

\* A reply to a request that is not for a session; "none": sending fails.
reply_sessionless(r, m, code) ==
    /\ Running /\ r \in DOMAIN requests
    /\ requests[r].method = m
    /\ ~requests[r].done
    /\ out' = IF code = "none" THEN {} ELSE ResponseTo(requests[r], code)
    /\ Replied(requests, r)
    /\ UNCHANGED <<conns, cb, status, accepted, received, created, known, held>>

reply_to_describe(r, code) == reply_sessionless(r, "DESCRIBE", code)
reply_to_announce(r, code) == reply_sessionless(r, "ANNOUNCE", code)

\* rtsp_server_reply_to_setup(): a session whose first media fails is
\* removed from an idle callback.
reply_to_setup(r, p, code) ==
    LET s == requests[r].session
        ok == code = "2xx" /\ requests[r].conn # NoConn
        q == Replying(r, p, code)
        zombie == ~ok /\ Cardinality(sessions[s].medias) = 1
    IN  /\ MayReply(r, p) /\ requests[r].method = "SETUP"
        /\ requests[r].pending /\ p \notin requests[r].freed
        /\ out' = IF code = "none" THEN {} ELSE ResponseTo(requests[r], code)
        /\ idle' = IF zombie THEN idle \cup {s} ELSE idle
        /\ IF cb = r
           THEN /\ requests' = [q EXCEPT ![r].done = TRUE]
                /\ UNCHANGED sessions
           ELSE /\ requests' = Remembered(pending_request_remove(q, r))
                /\ sessions' = [sessions EXCEPT ![s].op = "UNKNOWN"]
        /\ known' = IF ok THEN known \cup {s} ELSE known
        /\ held' = IF ok THEN held \cup {<<s, p>>} ELSE held
        /\ UNCHANGED <<conns, cb, status, accepted, received, created>>

\* A reply for one media of a request that is for several: an error ends the
\* request, a success does so once all medias have one.
reply_to_media(r, m, p, code) ==
    LET q == requests[r]
        all == q.replied \cup {p} = q.medias
        ends == q.conn = NoConn \/ code = "error" \/ all
        sent == IF code = "2xx" /\ ~all THEN "none" ELSE code
        next == [Replying(r, p, sent) EXCEPT
                    ![r].replied = IF code = "error" \/ q.conn = NoConn THEN @
                                   ELSE @ \cup {p}]
    IN  /\ MayReply(r, p) /\ q.method = m
        /\ q.pending /\ p \notin q.freed
        /\ out' = IF sent = "none" THEN {} ELSE ResponseTo(q, sent)
        /\ IF ends THEN Replied(next, r)
           ELSE requests' = next /\ UNCHANGED <<sessions, idle>>
        /\ UNCHANGED <<conns, cb, status, accepted, received, created, known,
                       held>>

reply_to_play(r, p, code) == reply_to_media(r, "PLAY", p, code)
reply_to_pause(r, p, code) == reply_to_media(r, "PAUSE", p, code)
reply_to_record(r, p, code) == reply_to_media(r, "RECORD", p, code)
reply_to_teardown(r, p, code) == reply_to_media(r, "TEARDOWN", p, code)

\* A reply to a request that has ended (-ENOENT), or for a media that was
\* freed.  The media is dereferenced before the request is looked up, and
\* reply_to_record() then dereferences the request that was not found.
LateReply(r, p) ==
    /\ MayReply(r, p)
    /\ ~requests[r].pending \/ p \in requests[r].freed
    /\ IF p \in requests[r].freed \/ requests[r].method = "RECORD"
       THEN status' = "crashed" /\ UNCHANGED requests
       ELSE /\ requests' = Remembered([requests EXCEPT ![r].answered = @ \cup {p}])
            /\ UNCHANGED status
    /\ out' = {}
    /\ UNCHANGED <<conns, sessions, idle, cb, accepted, received, created,
                   known, held>>

\* rtsp_server_force_teardown() of a media, or of the session; it returns
\* -EALREADY or -EBUSY while an operation is in progress.
force_teardown(s, t) ==
    /\ Running /\ s \in DOMAIN sessions
    /\ sessions[s].op = "UNKNOWN"
    /\ t \in sessions[s].medias \cup {AllPaths}
    /\ LET ps == IF t = AllPaths THEN sessions[s].medias ELSE {t}
       IN  /\ held' = held \ ({s} \X ps)
           /\ requests' = Remembered(FreeMedias(requests, s, ps, Methods))
    /\ IF t = AllPaths THEN session_remove(s)
       ELSE /\ sessions' = [sessions EXCEPT ![s].medias = @ \ {t},
                                            ![s].tearing = @ \ {t}]
            /\ UNCHANGED idle
    /\ out' = {}
    /\ UNCHANGED <<conns, cb, status, accepted, received, created, known>>

(***************************************************************************)
(* Timers, idle callbacks, end                                             *)
(***************************************************************************)

\* Mutant: a request whose error response cannot be sent is not removed.
RequestTimeout_ConnClosed(k) ==
    LET late == {r \in DOMAIN requests : requests[r].pending /\ r <= k
                                          /\ requests[r].conn # NoConn}
    IN  /\ InLoop /\ late # {}
        /\ out' = UNION {ResponseTo(requests[r], "error") : r \in late}
        /\ requests' = Restrict(requests, DOMAIN requests \ late)
        /\ UNCHANGED <<conns, sessions, idle, cb, status, accepted, received,
                       created, known, held>>

\* rtsp_server_timer_cb(): all requests up to k have waited too long.  The
\* session they are for is not touched.
RequestTimeout(k) ==
    LET late == {r \in DOMAIN requests : requests[r].pending /\ r <= k}
    IN  /\ InLoop /\ late # {}
        /\ out' = UNION {ResponseTo(requests[r], "error") : r \in late}
        /\ requests' = Restrict(requests, DOMAIN requests \ late)
        /\ UNCHANGED <<conns, sessions, idle, cb, status, accepted, received,
                       created, known, held>>

\* Mutant: the application is not told.
SessionTimeout_Silent(s) ==
    /\ InLoop /\ s \in DOMAIN sessions
    /\ requests' = Remembered(FreeMedias(requests, s, sessions[s].medias, {}))
    /\ session_remove(s)
    /\ out' = {}
    /\ UNCHANGED <<conns, cb, status, accepted, received, created, known, held>>

\* rtsp_server_session_timer_cb()
SessionTimeout(s) ==
    /\ InLoop /\ s \in DOMAIN sessions
    /\ held' = held \ ({s} \X sessions[s].medias)
    /\ requests' = Remembered(
                      FreeMedias(requests, s, sessions[s].medias, Methods))
    /\ session_remove(s)
    /\ out' = {}
    /\ UNCHANGED <<conns, cb, status, accepted, received, created, known>>

\* rtsp_server_session_remove_idle()
SessionRemoveIdle(s) ==
    /\ InLoop /\ s \in idle
    /\ IF s \in DOMAIN sessions
       THEN /\ requests' = Remembered(
                   FreeMedias(requests, s, sessions[s].medias, {}))
            /\ session_remove(s) /\ UNCHANGED status
       ELSE status' = "crashed" /\ UNCHANGED <<requests, sessions, idle>>
    /\ out' = {}
    /\ UNCHANGED <<conns, cb, accepted, received, created, known, held>>

\* rtsp_server_destroy(), from the loop.
Destroy ==
    /\ InLoop /\ status' = "destroyed"
    /\ conns' = << >> /\ sessions' = << >> /\ requests' = << >>
    /\ idle' = {} /\ held' = {} /\ out' = {}
    /\ UNCHANGED <<cb, accepted, received, created, known>>

Stopped == ~Running /\ UNCHANGED vars

ConnNext ==
    \E c \in Conns :
        \/ Connected(c)
        \/ Disconnected(c)
        \/ Options(c)
        \/ Describe(c)
        \/ AnnounceReq(c)
        \/ Unsupported(c)
        \/ \E s \in SessionIds, p \in Medias : SetupNew(c, s, p)
        \/ \E s \in SessionIds, p \in Medias : Setup(c, s, p)
        \/ \E s \in SessionIds : Play(c, s)
        \/ \E s \in SessionIds : Pause(c, s)
        \/ \E s \in SessionIds : Record(c, s)
        \/ \E s \in SessionIds, t \in Medias \cup {AllPaths, NoPath} :
              Teardown(c, s, t)
        \/ \E s \in SessionIds : GetParameter(c, s)

ApplicationNext ==
    \/ \E r \in DOMAIN requests, code \in Codes \cup {"none"} :
          \/ reply_to_describe(r, code)
          \/ reply_to_announce(r, code)
          \/ \E p \in requests[r].medias :
                \/ reply_to_setup(r, p, code)
                \/ reply_to_play(r, p, code)
                \/ reply_to_pause(r, p, code)
                \/ reply_to_record(r, p, code)
                \/ reply_to_teardown(r, p, code)
    \/ \E r \in DOMAIN requests : \E p \in requests[r].medias : LateReply(r, p)
    \/ \E s \in SessionIds, t \in Medias \cup {AllPaths} : force_teardown(s, t)
    \/ Destroy

LoopNext ==
    \/ \E r \in RequestIds : CallbackReturn(r)
    \/ \E k \in RequestIds : RequestTimeout(k)
    \/ \E s \in SessionIds : SessionTimeout(s)
    \/ \E s \in SessionIds : SessionRemoveIdle(s)
    \/ Stopped

Next == ConnNext \/ ApplicationNext \/ LoopNext

Spec == Init /\ [][Next]_vars

\* Callbacks return, and the loop serves its 1 s timer again and again
\* however busy its connections are.
Fairness ==
    /\ WF_vars(\E r \in RequestIds : CallbackReturn(r))
    /\ SF_vars(\E k \in RequestIds : RequestTimeout(k))

FairSpec == Spec /\ Fairness

(***************************************************************************)
(* Properties                                                              *)
(***************************************************************************)

\* A response goes to the connection its request came from, and to nobody if
\* that one is closed, even when the connection object has been reused for
\* another client meanwhile (the DISCONNECTED event clears request->conn).
ResponsesToRequester ==
    \A o \in out : o.conn \in DOMAIN conns /\ conns[o.conn] = o.from

\* A client never gets a success and an error for the same request: not from
\* the application's replies for its medias, nor from the reply timer after
\* a reply.
NoContradiction == \A o \in out : o.before \subseteq {o.code}

\* The idle callback of a failed SETUP never finds its session freed by a
\* timeout, a TEARDOWN or a forced teardown in between
\* (rtsp_server_session_remove() cancels it).
IdleIsLive == idle \subseteq DOMAIN sessions

\* Medias the application holds and the server no longer has.
Dropped ==
    {h \in held : ~(h[1] \in DOMAIN sessions /\ h[2] \in sessions[h[1]].medias)}

\* A media the application has accepted is dropped without a teardown callback
\* for it, and the application's stream goes on for ever, in two ways only: the
\* TEARDOWN callback for it came before the application accepted it, or the
\* session was waiting for its idle removal after a SETUP that failed.  It takes
\* requests that overlap; no timeout, forced teardown or reply to another
\* request does it.
OnlyOverlapDrops ==
    [][\A h \in Dropped' \ Dropped :
          /\ h[1] \in DOMAIN sessions
          /\ h[2] \in sessions[h[1]].tearing \/ h[1] \in idle]_vars

\* Requests that wait for the application in a session whose op_in_progress
\* is not set.
Unmarked ==
    {r \in DOMAIN requests :
        /\ requests[r].pending /\ ~requests[r].done
        /\ requests[r].session \in DOMAIN sessions
        /\ sessions[requests[r].session].op = "UNKNOWN"}

\* "No op in progress, proceed with forced teardown" (rtsp_server.c,
\* rtsp_server_force_teardown()): a session that has a request waiting for the
\* application has its op_in_progress set, so that it is not torn down under
\* that request.  op_in_progress is one field, and the end of one request resets
\* it for all: a request loses the protection in a step that ends another one
\* that was waiting in the same session, and in no other, never by its own
\* arrival, a partial reply or what happens in other sessions.
OnlyOverlapUnmarks ==
    [][\A r \in Unmarked' \ Unmarked :
          \E q \in PendingOn(requests'[r].session) :
             q \in DOMAIN requests' => ~requests'[q].pending]_vars

\* "TEARDOWN targeting a track that doesn't exist in the session [...]: the
\* session and its one real media must survive this untouched"
\* (tests/rtsp_test_loopback.c).
UnknownTrackTearsNothing ==
    [][\A c \in Conns, s \in DOMAIN sessions, p \in Medias :
          (Teardown(c, s, p) /\ p \notin sessions[s].medias)
            => sessions'[s].tearing = sessions[s].tearing]_vars

\* "request_ctx is looked up by pointer value only [...], never dereferenced
\* before that lookup succeeds" (tests/rtsp_test_loopback.c): a reply for a
\* live media to a request that has ended is refused, not a crash.
LookupMissIsSafe ==
    [][\A r \in DOMAIN requests : \A p \in requests[r].medias :
          (LateReply(r, p) /\ p \notin requests[r].freed)
            => status' = "running"]_vars

\* Every request passed to the application ends, replied to or timed out,
\* whatever the application and the connections do.
RequestsEnd ==
    \A r \in RequestIds :
        (r \in DOMAIN requests /\ requests[r].pending)
          ~> (~Running \/ r \notin DOMAIN requests \/ ~requests[r].pending)
=============================================================================
