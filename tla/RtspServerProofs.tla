-------------------------- MODULE RtspServerProofs --------------------------
(***************************************************************************)
(* Proofs about RtspServer, for every number of connections, sessions,     *)
(* medias and requests.                                                    *)
(*                                                                         *)
(* ServerInv holds whatever the clients do. A response can go astray or    *)
(* contradict another only through a request the server keeps, so the      *)
(* invariant says of each one that its connection is open and the one it   *)
(* came from (Good), that no response has been sent for it while it waits, *)
(* that a success is the last word and an error leaves a media without a   *)
(* reply (RequestOK), that its medias live until they are freed (LiveIn),  *)
(* and that a request that has been replied to is over unless its          *)
(* callbacks run (DoneOK): this is what keeps the reply timer from         *)
(* answering a second time.                                                *)
(*                                                                         *)
(* It is enough for requests that overlap as well: a lemma for each step   *)
(* shows which requests lose their op_in_progress and which accepted       *)
(* medias are dropped (UnmarksOK, DropsOK).                                *)
(*                                                                         *)
(* Two facts about single steps are for RtspSystemProofs: a request stays  *)
(* the request it was (KeepsRequests), and outside of the handlers and of  *)
(* a forced teardown of one media, a session that stays loses no media     *)
(* that was not being torn down (KeepsMedias).                             *)
(***************************************************************************)
EXTENDS RtspServer, TLAPS

(***************************************************************************)
(* Operators on the requests                                               *)
(***************************************************************************)

\* Record p is record q later on: the request may have ended and medias may
\* be gone, the rest is as it was.
Same(p, q) ==
    /\ p \in Request
    /\ p.method = q.method /\ p.session = q.session /\ p.conn = q.conn
    /\ p.medias = q.medias /\ p.replied = q.replied /\ p.done = q.done
    /\ p.from = q.from /\ p.codes = q.codes /\ p.answered = q.answered
    /\ q.told \subseteq p.told /\ q.freed \subseteq p.freed

\* Requests p are requests q later on: those in ended are over, others that
\* are over may be forgotten.
Later(p, q, ended) ==
    /\ DOMAIN p \subseteq DOMAIN q
    /\ \A r \in DOMAIN p : Same(p[r], q[r])
    /\ \A r \in DOMAIN p : p[r].pending => q[r].pending /\ r \notin ended
    /\ \A r \in DOMAIN q : q[r].pending /\ r \notin ended =>
                              r \in DOMAIN p /\ p[r].pending

Typed(q) == \A r \in DOMAIN q : q[r] \in Request

\* Requests are themselves, later on.
LEMMA LaterSame == ASSUME NEW q, Typed(q) PROVE Later(q, q, {})
BY DEF Typed, Later, Same

\* Later and later again is later.
LEMMA LaterTrans ==
    ASSUME NEW p, NEW q, NEW o, NEW e, NEW f, Later(p, q, e), Later(q, o, f)
    PROVE  Later(p, o, e \cup f)
<1>1. DOMAIN p \subseteq DOMAIN o
  BY DEF Later
<1>2. ASSUME NEW r \in DOMAIN p PROVE Same(p[r], o[r])
  <2>1. Same(p[r], q[r]) /\ Same(q[r], o[r])
    BY DEF Later
  <2> QED BY <2>1 DEF Same
<1>3. ASSUME NEW r \in DOMAIN p, p[r].pending PROVE o[r].pending /\ r \notin e \cup f
  BY <1>3 DEF Later
<1>4. ASSUME NEW r \in DOMAIN o, o[r].pending, r \notin e \cup f
      PROVE  r \in DOMAIN p /\ p[r].pending
  BY <1>4 DEF Later
<1> QED BY <1>1, <1>2, <1>3, <1>4 DEF Later

\* What Remembered() keeps, and that it keeps it as it is.
LEMMA RememberedIs ==
    ASSUME NEW q
    PROVE  /\ DOMAIN Remembered(q) \subseteq DOMAIN q
           /\ \A r \in DOMAIN Remembered(q) : Remembered(q)[r] = q[r]
           /\ \A r \in DOMAIN q : r \in DOMAIN Remembered(q) <=>
                 q[r].pending \/ ~(q[r].medias \subseteq q[r].answered \cup q[r].told)
BY DEF Remembered, RestrictDomain, Restrict

\* Forgetting requests that are over ends none.
LEMMA RememberedLater ==
    ASSUME NEW q, Typed(q)
    PROVE  Later(Remembered(q), q, {})
BY RememberedIs DEF Typed, Later, Same

\* Freeing medias ends no request, and leaves none of them in use.
LEMMA FreeMediasLater ==
    ASSUME NEW q, Typed(q), NEW s, NEW ps, NEW ms
    PROVE  /\ Later(FreeMedias(q, s, ps, ms), q, {})
           /\ \A r \in DOMAIN q : q[r].session = s =>
                 q[r].medias \cap ps \subseteq
                    FreeMedias(q, s, ps, ms)[r].told \cup FreeMedias(q, s, ps, ms)[r].freed
<1> DEFINE f == FreeMedias(q, s, ps, ms)
<1>1. DOMAIN f = DOMAIN q
  BY DEF FreeMedias
<1>2. ASSUME NEW r \in DOMAIN q
      PROVE  /\ Same(f[r], q[r]) /\ f[r].pending = q[r].pending
             /\ q[r].session = s => q[r].medias \cap ps \subseteq f[r].told \cup f[r].freed
  <2>1. q[r] \in Request
    BY DEF Typed
  <2>2. f[r] = IF q[r].session # s THEN q[r]
        ELSE IF q[r].method \in ms THEN [q[r] EXCEPT !.told = @ \cup (q[r].medias \cap ps)]
        ELSE [q[r] EXCEPT !.freed = @ \cup (q[r].medias \cap ps)]
    BY DEF FreeMedias
  <2> HIDE DEF f
  <2>3. CASE q[r].session # s
    BY <2>1, <2>2, <2>3 DEF Same
  <2>4. CASE q[r].session = s /\ q[r].method \in ms
    BY <2>1, <2>2, <2>4 DEF Same, Request
  <2>5. CASE q[r].session = s /\ q[r].method \notin ms
    BY <2>1, <2>2, <2>5 DEF Same, Request
  <2> QED BY <2>3, <2>4, <2>5
<1> HIDE DEF f
<1>3. Later(f, q, {})
  BY <1>1, <1>2 DEF Later
<1> QED BY <1>2, <1>3 DEF f

\* rtsp_server_pending_request_remove() ends its request only.
LEMMA RemoveLater ==
    ASSUME NEW q, Typed(q), NEW r
    PROVE  Later(pending_request_remove(q, r), q, {r})
<1> DEFINE f == pending_request_remove(q, r)
<1>1. DOMAIN f = DOMAIN q
  BY DEF pending_request_remove
<1>2. ASSUME NEW x \in DOMAIN q, x # r PROVE f[x] = q[x]
  BY <1>2 DEF pending_request_remove
<1>3. ASSUME r \in DOMAIN q PROVE f[r] = [q[r] EXCEPT !.pending = FALSE]
  BY <1>3 DEF pending_request_remove
<1> HIDE DEF f
<1>4. ASSUME NEW x \in DOMAIN q
      PROVE  Same(f[x], q[x]) /\ f[x].pending = (q[x].pending /\ x # r)
  <2>1. q[x] \in Request
    BY DEF Typed
  <2>2. CASE x # r
    BY <2>1, <2>2, <1>2 DEF Same, Request
  <2>3. CASE x = r
    BY <2>1, <2>3, <1>3 DEF Same, Request
  <2> QED BY <2>2, <2>3
<1> QED BY <1>1, <1>4 DEF Later, f

\* What is later is well typed.
LEMMA LaterTyped == ASSUME NEW p, NEW q, NEW e, Later(p, q, e) PROVE Typed(p)
BY DEF Later, Same, Typed

(***************************************************************************)
(* The invariant                                                           *)
(***************************************************************************)

\* What is true of a request by itself.
RequestOK(q) ==
    /\ q \in Request
    /\ q.method \in Sessionless => q.session = NoSession /\ q.medias = {}
    /\ q.method \notin Sessionless => q.session # NoSession
    /\ q.method = "SETUP" => \E p \in Medias : q.medias = {p}
    /\ q.answered \subseteq q.medias /\ q.replied \subseteq q.answered
    /\ q.answered = {} => q.codes = {}
    /\ q.pending /\ ~q.done => q.codes = {}
    /\ "error" \in q.codes => ~(q.answered \subseteq q.replied)
    /\ "2xx" \in q.codes => q.medias \subseteq q.answered

\* A request has a number, a session that was created or none, and the
\* connection it came from, or none.
Good(q, n, cr, cn) ==
    /\ DOMAIN q \subseteq 1..n
    /\ \A r \in DOMAIN q :
          /\ RequestOK(q[r])
          /\ q[r].session \in cr \cup {NoSession}
          /\ q[r].conn # NoConn => q[r].conn \in DOMAIN cn /\ cn[q[r].conn] = q[r].from

SessionsOK(S, cr) ==
    /\ DOMAIN S \subseteq cr
    /\ \A s \in DOMAIN S : S[s] \in Session /\ S[s].tearing \subseteq S[s].medias

\* The medias of a request are those of its session until they are freed.
LiveIn(q, S) ==
    \A r \in DOMAIN q : \A p \in q[r].medias \ (q[r].told \cup q[r].freed) :
        q[r].session \in DOMAIN S /\ p \in S[q[r].session].medias

CallbackOK == cb # 0 => cb \in DOMAIN requests /\ requests[cb].pending

\* A request that is replied to is over, but for the one in its callbacks.
DoneOK ==
    Running => \A r \in DOMAIN requests :
                  requests[r].pending /\ requests[r].done => cb = r

Scalars ==
    /\ DOMAIN conns \subseteq Conns /\ \A c \in DOMAIN conns : conns[c] \in 1..MaxAccepts
    /\ created \subseteq SessionIds /\ known \subseteq created
    /\ status \in {"running", "destroyed", "crashed"}
    /\ accepted \in 0..MaxAccepts /\ received \in 0..MaxRequests
    /\ held \subseteq created \X Medias

ServerInv ==
    /\ Scalars
    /\ Good(requests, received, created, conns)
    /\ SessionsOK(sessions, created)
    /\ LiveIn(requests, sessions)
    /\ CallbackOK /\ DoneOK
    /\ IdleIsLive
    /\ ResponsesToRequester /\ NoContradiction

\* Good requests are well typed.
LEMMA GoodTyped == ASSUME NEW q, NEW n, NEW cr, NEW cn, Good(q, n, cr, cn) PROVE Typed(q)
BY DEF Good, RequestOK, Typed

\* Good requests are good later on.
LEMMA GoodLater ==
    ASSUME NEW q, NEW n, NEW cr, NEW cn, Good(q, n, cr, cn), NEW p, NEW e, Later(p, q, e)
    PROVE  Good(p, n, cr, cn)
<1>1. DOMAIN p \subseteq 1..n
  BY DEF Good, Later
<1>2. ASSUME NEW r \in DOMAIN p
      PROVE  /\ RequestOK(p[r])
             /\ p[r].session \in cr \cup {NoSession}
             /\ p[r].conn # NoConn => p[r].conn \in DOMAIN cn /\ cn[p[r].conn] = p[r].from
  <2>1. Same(p[r], q[r]) /\ (p[r].pending => q[r].pending) /\ r \in DOMAIN q
    BY DEF Later
  <2>2. RequestOK(q[r]) /\ q[r].session \in cr \cup {NoSession}
        /\ (q[r].conn # NoConn => q[r].conn \in DOMAIN cn /\ cn[q[r].conn] = q[r].from)
    BY <2>1 DEF Good
  <2>3. RequestOK(p[r])
    BY <2>1, <2>2 DEF Same, RequestOK
  <2> QED BY <2>1, <2>2, <2>3 DEF Same
<1> QED BY <1>1, <1>2 DEF Good

\* Requests whose medias live have no other medias later on.
LEMMA LiveLater ==
    ASSUME NEW p, NEW q, NEW e, Later(p, q, e), NEW S, LiveIn(q, S)
    PROVE  LiveIn(p, S)
<1> SUFFICES ASSUME NEW r \in DOMAIN p, NEW m \in p[r].medias \ (p[r].told \cup p[r].freed)
             PROVE  p[r].session \in DOMAIN S /\ m \in S[p[r].session].medias
  BY DEF LiveIn
<1>1. Same(p[r], q[r]) /\ r \in DOMAIN q
  BY DEF Later
<1>2. m \in q[r].medias \ (q[r].told \cup q[r].freed) /\ p[r].session = q[r].session
  BY <1>1 DEF Same
<1> QED BY <1>1, <1>2 DEF LiveIn

\* The request whose callbacks run stays pending unless it is ended.
LEMMA CallbackLater ==
    ASSUME NEW q, NEW e, Later(requests', q, e), cb # 0 => cb \in DOMAIN q /\ q[cb].pending,
           cb' = 0 \/ (cb' = cb /\ cb \notin e)
    PROVE  CallbackOK'
BY DEF Later, CallbackOK

\* No request becomes replied to by the passing of time.
LEMMA DoneLater ==
    ASSUME NEW q, NEW e, Later(requests', q, e),
           \A r \in DOMAIN q : q[r].pending /\ q[r].done /\ r \notin e => cb' = r
    PROVE  DoneOK'
<1> SUFFICES ASSUME NEW r \in DOMAIN requests', requests'[r].pending, requests'[r].done
             PROVE  cb' = r
  BY DEF DoneOK
<1>1. r \in DOMAIN q /\ Same(requests'[r], q[r]) /\ q[r].pending /\ r \notin e
  BY DEF Later
<1> QED BY <1>1 DEF Same

\* The end of a request: what happens to the requests and sessions.
LEMMA FinishIs ==
    ASSUME NEW q, Typed(q), NEW r \in DOMAIN q, Finish(q, r), NEW cr, SessionsOK(sessions, cr),
           LiveIn(q, sessions), q[r].method = "TEARDOWN" => q[r].session \in DOMAIN sessions
    PROVE  /\ Later(requests', q, {r})
           /\ SessionsOK(sessions', cr)
           /\ LiveIn(requests', sessions')
           /\ IdleIsLive => IdleIsLive'
<1> DEFINE s == q[r].session
           p == pending_request_remove(q, r)
           left == sessions[s].medias \ sessions[s].tearing
           f == FreeMedias(p, s, sessions[s].tearing, Methods \ {"TEARDOWN"})
<1>1. Later(p, q, {r}) /\ Typed(p) /\ LiveIn(p, sessions)
  BY RemoveLater, LaterTyped, LiveLater
<1>2. Later(Remembered(p), q, {r}) /\ LiveIn(Remembered(p), sessions)
  <2>1. Later(Remembered(p), p, {})
    BY <1>1, RememberedLater
  <2>2. Later(Remembered(p), q, {} \cup {r})
    BY <1>1, <2>1, LaterTrans
  <2> QED BY <1>1, <2>1, <2>2, LiveLater
<1>3. q[r].method \in Methods
  BY DEF Typed, Request
<1>4. CASE q[r].method \in Sessionless
  <2>1. requests' = Remembered(p) /\ UNCHANGED <<sessions, idle>>
    BY <1>4 DEF Finish, Sessionless
  <2> QED BY <1>2, <2>1 DEF IdleIsLive
<1>5. CASE q[r].method \in {"SETUP", "PLAY", "PAUSE", "RECORD"}
  <2>1. /\ requests' = Remembered(p) /\ idle' = idle
        /\ sessions' = [sessions EXCEPT ![s].op = "UNKNOWN"]
    BY <1>5 DEF Finish, Sessionless
  <2>2. /\ DOMAIN sessions' = DOMAIN sessions
        /\ \A x \in DOMAIN sessions : /\ sessions'[x].medias = sessions[x].medias
                                      /\ sessions'[x].tearing = sessions[x].tearing
                                      /\ sessions'[x] \in Session
    BY <2>1 DEF SessionsOK, Session
  <2>3. SessionsOK(sessions', cr)
    BY <2>2 DEF SessionsOK
  <2>4. LiveIn(Remembered(p), sessions')
    BY <1>2, <2>2 DEF LiveIn
  <2> QED BY <1>2, <2>1, <2>2, <2>3, <2>4 DEF IdleIsLive
<1>6. CASE q[r].method = "TEARDOWN"
  <2>1. /\ requests' = Remembered(f)
        /\ IF left = {} THEN session_remove(s)
           ELSE /\ sessions' = [sessions EXCEPT
                             ![s] = [op |-> "UNKNOWN", medias |-> left, tearing |-> {}]]
                /\ UNCHANGED idle
    BY <1>6 DEF Finish, Sessionless
  <2>2. Later(f, p, {}) /\ \A x \in DOMAIN p : p[x].session = s =>
           p[x].medias \cap sessions[s].tearing \subseteq f[x].told \cup f[x].freed
    BY <1>1, FreeMediasLater
  <2>3. Typed(f) /\ LiveIn(f, sessions) /\ DOMAIN f \subseteq DOMAIN p
        /\ \A x \in DOMAIN f : f[x].session = p[x].session /\ f[x].medias = p[x].medias
    BY <1>1, <2>2, LaterTyped, LiveLater DEF Later, Same
  <2>4. Later(requests', f, {})
    BY <2>1, <2>3, RememberedLater
  <2> HIDE DEF p, f
  <2>5. Later(requests', q, {r})
    <3>1. Later(requests', p, {} \cup {})
      BY <2>2, <2>4, LaterTrans
    <3>2. Later(requests', q, ({} \cup {}) \cup {r})
      BY <1>1, <3>1, LaterTrans
    <3> QED BY <3>2
  <2>6. s \in DOMAIN sessions /\ sessions[s] \in Session
    BY <1>6 DEF SessionsOK
  <2>7. CASE left = {}
    <3>1. /\ DOMAIN sessions' = DOMAIN sessions \ {s}
          /\ \A x \in DOMAIN sessions' : sessions'[x] = sessions[x]
          /\ idle' = idle \ {s}
      BY <2>1, <2>7 DEF session_remove, Restrict
    <3>2. LiveIn(f, sessions')
      <4>1. \A x \in DOMAIN f : f[x].session = s =>
              f[x].medias \cap sessions[s].tearing \subseteq f[x].told \cup f[x].freed
        BY <2>2, <2>3
      <4>2. \A x \in DOMAIN sessions : x # s =>
               x \in DOMAIN sessions' /\ sessions'[x].medias = sessions[x].medias
        BY <3>1
      <4>3. \A m \in sessions[s].medias \ sessions[s].tearing :
               s \in DOMAIN sessions' /\ m \in sessions'[s].medias
        BY <2>7
      <4> HIDE DEF s
      <4> QED BY <2>3, <4>1, <4>2, <4>3 DEF LiveIn
    <3>3. LiveIn(requests', sessions')
      BY <2>4, <3>2, LiveLater
    <3> QED BY <2>5, <3>1, <3>3 DEF SessionsOK, IdleIsLive
  <2>8. CASE left # {}
    <3>1. /\ DOMAIN sessions' = DOMAIN sessions /\ idle' = idle
          /\ sessions'[s] = [op |-> "UNKNOWN", medias |-> left, tearing |-> {}]
          /\ \A x \in DOMAIN sessions : x # s => sessions'[x] = sessions[x]
      BY <2>1, <2>6, <2>8
    <3>2. LiveIn(f, sessions')
      <4>1. \A x \in DOMAIN f : f[x].session = s =>
              f[x].medias \cap sessions[s].tearing \subseteq f[x].told \cup f[x].freed
        BY <2>2, <2>3
      <4>2. \A x \in DOMAIN sessions : x # s =>
               x \in DOMAIN sessions' /\ sessions'[x].medias = sessions[x].medias
        BY <3>1
      <4>3. \A m \in sessions[s].medias \ sessions[s].tearing :
               s \in DOMAIN sessions' /\ m \in sessions'[s].medias
        BY <2>6, <3>1
      <4> HIDE DEF s
      <4> QED BY <2>3, <4>1, <4>2, <4>3 DEF LiveIn
    <3>3. LiveIn(requests', sessions')
      BY <2>4, <3>2, LiveLater
    <3>4. sessions'[s] \in Session /\ sessions'[s].tearing \subseteq sessions'[s].medias
      BY <2>6, <3>1 DEF Session
    <3>5. SessionsOK(sessions', cr)
      BY <3>1, <3>4 DEF SessionsOK
    <3> QED BY <2>5, <3>1, <3>3, <3>5 DEF IdleIsLive
  <2> QED BY <2>7, <2>8
<1> QED BY <1>3, <1>4, <1>5, <1>6 DEF Methods, PerMedia

(***************************************************************************)
(* Responses                                                               *)
(***************************************************************************)

\* A step that sends nothing sends nothing wrong.
LEMMA OutNone == ASSUME out' = {} PROVE ResponsesToRequester' /\ NoContradiction'
BY DEF ResponsesToRequester, NoContradiction

\* An answer of the handler goes where the request came from.
LEMMA OutAnswer ==
    ASSUME NEW c \in DOMAIN conns, NEW code, Answer(c, code), conns' = conns
    PROVE  ResponsesToRequester' /\ NoContradiction'
BY DEF Answer, Response, ResponsesToRequester, NoContradiction

\* A response to a request the server still has goes to its connection, and
\* contradicts nothing if no other code has been sent for it.
LEMMA OutResponse ==
    ASSUME ServerInv, conns' = conns,
           \A o \in out' : \E r \in DOMAIN requests, code \in Codes :
               o \in ResponseTo(requests[r], code) /\ requests[r].codes \subseteq {code}
    PROVE  ResponsesToRequester' /\ NoContradiction'
<1> SUFFICES ASSUME NEW o \in out'
             PROVE  /\ o.conn \in DOMAIN conns /\ conns[o.conn] = o.from
                    /\ o.before \subseteq {o.code}
  BY DEF ResponsesToRequester, NoContradiction
<1>1. PICK r \in DOMAIN requests, code \in Codes :
         o \in ResponseTo(requests[r], code) /\ requests[r].codes \subseteq {code}
  OBVIOUS
<1>2. requests[r].conn # NoConn
      /\ o = [conn |-> requests[r].conn, from |-> requests[r].from, code |-> code,
              before |-> requests[r].codes]
  BY <1>1 DEF ResponseTo, Response
<1>3. requests[r].conn \in DOMAIN conns /\ conns[requests[r].conn] = requests[r].from
  BY <1>2 DEF ServerInv, Good
<1> QED BY <1>1, <1>2, <1>3

(***************************************************************************)
(* Steps                                                                   *)
(***************************************************************************)

\* The requests are as they were, or less; so is the rest but the sessions.
LEMMA LaterStep ==
    ASSUME ServerInv, NEW e, Later(requests', requests, e),
           UNCHANGED <<conns, received, created>>,
           cb' = cb /\ cb \notin e, status' \in {status, "crashed"}
    PROVE  Good(requests, received, created, conns)' /\ CallbackOK' /\ DoneOK'
           /\ LiveIn(requests', sessions)
<1>1. Good(requests', received', created', conns')
  BY GoodLater DEF ServerInv
<1>2. CallbackOK'
  BY CallbackLater DEF ServerInv, CallbackOK
<1>3. DoneOK'
  <2>1. CASE Running
    BY <2>1, DoneLater DEF ServerInv, DoneOK
  <2>2. CASE ~Running
    BY <2>2 DEF DoneOK, Running
  <2> QED BY <2>1, <2>2
<1>4. LiveIn(requests', sessions)
  BY LiveLater DEF ServerInv
<1> QED BY <1>1, <1>2, <1>3, <1>4

\* Nothing happens to requests and sessions.
LEMMA QuietStep ==
    ASSUME ServerInv, UNCHANGED <<sessions, idle, requests, received, created, cb, conns>>,
           status' \in {status, "crashed"}, Scalars',
           ResponsesToRequester' /\ NoContradiction'
    PROVE  ServerInv'
<1>1. Later(requests', requests, {})
  BY GoodTyped, LaterSame DEF ServerInv
<1>2. Good(requests, received, created, conns)' /\ CallbackOK' /\ DoneOK'
           /\ LiveIn(requests', sessions)
  BY <1>1, LaterStep
<1> QED BY <1>2 DEF ServerInv, IdleIsLive

\* A new connection is no other request's, although its object may be reused.
LEMMA ConnectedStep ==
    ASSUME ServerInv, NEW c \in Conns, Connected(c)
    PROVE  ServerInv'
<1>1. /\ DOMAIN conns' = DOMAIN conns \cup {c} /\ c \notin DOMAIN conns
      /\ conns'[c] = accepted + 1 /\ \A x \in DOMAIN conns : conns'[x] = conns[x]
      /\ accepted' = accepted + 1 /\ accepted < MaxAccepts /\ out' = {}
      /\ UNCHANGED <<sessions, idle, requests, cb, status, received, created, known, held>>
  BY DEF Connected
<1>2. Scalars'
  BY <1>1, ServerAssumption DEF ServerInv, Scalars
<1>3. Good(requests', received', created', conns')
  BY <1>1 DEF ServerInv, Good
<1> QED BY <1>1, <1>2, <1>3, OutNone DEF ServerInv, IdleIsLive, CallbackOK, DoneOK, Running

\* A closed connection is no request's any more.
LEMMA DisconnectedStep ==
    ASSUME ServerInv, NEW c \in Conns, Disconnected(c)
    PROVE  ServerInv'
<1>1. /\ DOMAIN conns' = DOMAIN conns \ {c}
      /\ \A x \in DOMAIN conns' : conns'[x] = conns[x]
      /\ DOMAIN requests' = DOMAIN requests
      /\ \A r \in DOMAIN requests : requests'[r] = IF requests[r].conn = c
                       THEN [requests[r] EXCEPT !.conn = NoConn] ELSE requests[r]
      /\ out' = {}
      /\ UNCHANGED <<sessions, idle, cb, status, accepted, received, created, known, held>>
  BY DEF Disconnected, Restrict
<1>2. Scalars'
  BY <1>1 DEF ServerInv, Scalars
<1>3. ASSUME NEW r \in DOMAIN requests
      PROVE  /\ RequestOK(requests'[r])
             /\ requests'[r].session = requests[r].session
             /\ requests'[r].from = requests[r].from
             /\ requests'[r].conn = IF requests[r].conn = c THEN NoConn ELSE requests[r].conn
             /\ requests'[r].medias = requests[r].medias
             /\ requests'[r].told = requests[r].told /\ requests'[r].freed = requests[r].freed
             /\ requests'[r].pending = requests[r].pending /\ requests'[r].done = requests[r].done
  <2>1. RequestOK(requests[r]) /\ requests[r] \in Request
    BY DEF ServerInv, Good, RequestOK
  <2>2. CASE requests[r].conn = c
    <3>1. requests'[r] = [requests[r] EXCEPT !.conn = NoConn]
      BY <1>1, <2>2
    <3>2. requests'[r] \in Request
      BY <2>1, <3>1 DEF Request
    <3> QED BY <2>1, <2>2, <3>1, <3>2 DEF RequestOK, Request
  <2>3. CASE requests[r].conn # c
    BY <1>1, <2>1, <2>3
  <2> QED BY <2>2, <2>3
<1>4. Good(requests', received', created', conns')
  BY <1>1, <1>3 DEF ServerInv, Good
<1>5. LiveIn(requests', sessions')
  BY <1>1, <1>3 DEF ServerInv, LiveIn
<1>6. CallbackOK' /\ DoneOK'
  BY <1>1, <1>3 DEF ServerInv, CallbackOK, DoneOK, Running
<1> QED BY <1>1, <1>2, <1>4, <1>5, <1>6, OutNone DEF ServerInv, IdleIsLive

\* A request is added.
LEMMA AddStep ==
    ASSUME ServerInv, InLoop, NEW c \in DOMAIN conns, NEW m \in Methods, NEW s, NEW ps \in SUBSET Medias,
           requests' = pending_request_add(c, m, s, ps), received < MaxRequests,
           received' = received + 1, cb' \in {0, received + 1},
           m \in Sessionless => s = NoSession /\ ps = {},
           m \notin Sessionless => s # NoSession,
           m = "SETUP" => \E p \in Medias : ps = {p},
           s \in created' \cup {NoSession}, created \subseteq created', created' \subseteq SessionIds,
           conns' = conns, status' = status,
           \A x \in DOMAIN sessions : x \in DOMAIN sessions' /\ sessions[x].medias \subseteq sessions'[x].medias,
           ps # {} => s \in DOMAIN sessions' /\ ps \subseteq sessions'[s].medias
    PROVE  /\ Good(requests, received, created, conns)' /\ CallbackOK' /\ DoneOK'
           /\ LiveIn(requests', sessions') /\ received' \in 0..MaxRequests
<1> DEFINE n == received + 1
           new == [method |-> m, session |-> s, conn |-> c, medias |-> ps,
              replied |-> {}, done |-> FALSE, pending |-> TRUE,
              from |-> conns[c], codes |-> {}, answered |-> {},
              told |-> {}, freed |-> {}]
<1>1. received \in Nat /\ n \notin DOMAIN requests /\ DOMAIN requests \subseteq 1..received
      /\ MaxRequests \in Nat
  BY ServerAssumption DEF ServerInv, Good, Scalars
<1>2. /\ DOMAIN requests' = DOMAIN requests \cup {n}
      /\ \A r \in DOMAIN requests : requests'[r] = requests[r]
      /\ requests'[n] = new
  BY <1>1 DEF pending_request_add
<1>3. new \in Request
  <2>1. c \in Conns /\ conns[c] \in 1..MaxAccepts
    BY DEF ServerInv, Scalars
  <2> QED BY <2>1 DEF Request
<1>4. RequestOK(new)
  BY <1>3 DEF RequestOK
<1> HIDE DEF new
<1>5. Good(requests', received', created', conns')
  <2>1. DOMAIN requests' \subseteq 1..received'
    BY <1>1, <1>2
  <2>2. new.session = s /\ new.conn = c /\ new.from = conns[c]
    BY DEF new
  <2>3. ASSUME NEW r \in DOMAIN requests'
        PROVE  /\ RequestOK(requests'[r])
               /\ requests'[r].session \in created' \cup {NoSession}
               /\ requests'[r].conn # NoConn =>
                     requests'[r].conn \in DOMAIN conns' /\ conns'[requests'[r].conn] = requests'[r].from
    BY <1>2, <1>4, <2>2 DEF ServerInv, Good
  <2> QED BY <2>1, <2>3 DEF Good
<1>6. LiveIn(requests', sessions')
  <2>1. new.medias = ps /\ new.session = s
    BY DEF new
  <2> QED BY <1>2, <2>1 DEF ServerInv, LiveIn
<1>7. CallbackOK' /\ DoneOK'
  <2>1. new.pending /\ ~new.done
    BY DEF new
  <2>2. CallbackOK'
    BY <1>2, <2>1 DEF CallbackOK
  <2>3. DoneOK'
    <3> SUFFICES ASSUME NEW r \in DOMAIN requests', requests'[r].pending, requests'[r].done
                 PROVE  FALSE
      BY DEF DoneOK
    <3>1. r \in DOMAIN requests /\ requests[r].pending /\ requests[r].done
      BY <1>2, <2>1
    <3>2. cb = r /\ cb = 0
      BY <3>1 DEF ServerInv, DoneOK, InLoop
    <3> QED BY <3>1, <3>2, <1>1
  <2> QED BY <2>2, <2>3
<1> QED BY <1>1, <1>5, <1>6, <1>7

\* DESCRIBE, ANNOUNCE and what the server has no code for.
LEMMA SessionlessStep ==
    ASSUME ServerInv, NEW c \in Conns, NEW m \in Sessionless, SessionlessRequest(c, m)
    PROVE  ServerInv'
<1>1. /\ InLoop /\ c \in DOMAIN conns /\ received < MaxRequests /\ out' = {}
      /\ received' = received + 1
      /\ requests' = pending_request_add(c, m, NoSession, {})
      /\ cb' \in {0, received + 1}
      /\ UNCHANGED <<conns, sessions, idle, status, accepted, created, known, held>>
  BY DEF SessionlessRequest
<1>2. created' \subseteq SessionIds /\ m \in Methods /\ m # "SETUP"
  BY <1>1 DEF ServerInv, Scalars, Methods, Sessionless
<1>3. /\ Good(requests, received, created, conns)' /\ CallbackOK' /\ DoneOK'
      /\ LiveIn(requests', sessions') /\ received' \in 0..MaxRequests
  BY <1>1, <1>2, AddStep
<1>4. Scalars'
  BY <1>1, <1>3 DEF ServerInv, Scalars
<1> QED BY <1>1, <1>3, <1>4, OutNone DEF ServerInv, IdleIsLive

\* A request for a session is passed on to the application.
LEMMA PassedStep ==
    ASSUME ServerInv, InLoop, NEW c \in DOMAIN conns, NEW m \in Methods \ Sessionless,
           NEW s \in created', NEW ps \in SUBSET Medias, Passed(c, m, s, ps),
           m = "SETUP" => \E p \in Medias : ps = {p},
           created \subseteq created', created' \subseteq SessionIds,
           UNCHANGED <<conns, idle, status, accepted, known>>, held' \subseteq held,
           SessionsOK(sessions', created'),
           \A x \in DOMAIN sessions : x \in DOMAIN sessions' /\ sessions[x].medias \subseteq sessions'[x].medias,
           s \in DOMAIN sessions' /\ ps \subseteq sessions'[s].medias
    PROVE  ServerInv'
<1>1. /\ received < MaxRequests /\ received' = received + 1
      /\ requests' = pending_request_add(c, m, s, ps)
      /\ cb' \in {0, received + 1} /\ out' = {}
  BY DEF Passed
<1>2. /\ Good(requests, received, created, conns)' /\ CallbackOK' /\ DoneOK'
      /\ LiveIn(requests', sessions') /\ received' \in 0..MaxRequests
  BY <1>1, AddStep, ServerAssumption
<1>3. Scalars'
  BY <1>2 DEF ServerInv, Scalars
<1>4. IdleIsLive'
  BY DEF ServerInv, IdleIsLive
<1> QED BY <1>1, <1>2, <1>3, <1>4, OutNone DEF ServerInv

\* A SETUP that creates a session.
LEMMA SetupNewStep ==
    ASSUME ServerInv, NEW c \in Conns, NEW s \in SessionIds, NEW p \in Medias, SetupNew(c, s, p)
    PROVE  ServerInv'
<1>1. /\ InLoop /\ c \in DOMAIN conns /\ s \notin created
      /\ Passed(c, "SETUP", s, {p}) /\ created' = created \cup {s}
      /\ DOMAIN sessions' = DOMAIN sessions \cup {s}
      /\ sessions'[s] = [op |-> "SETUP", medias |-> {p}, tearing |-> {}]
      /\ \A x \in DOMAIN sessions : x # s => sessions'[x] = sessions[x]
      /\ UNCHANGED <<conns, idle, status, accepted, known, held>>
  BY DEF SetupNew
<1>2. s \notin DOMAIN sessions /\ created' \subseteq SessionIds
  BY <1>1 DEF ServerInv, SessionsOK, Scalars
<1>3. sessions'[s] \in Session /\ sessions'[s].tearing \subseteq sessions'[s].medias
      /\ sessions'[s].medias = {p}
  BY <1>1 DEF Session, Methods
<1>4. SessionsOK(sessions', created')
  BY <1>1, <1>2, <1>3 DEF ServerInv, SessionsOK
<1>5. "SETUP" \in Methods \ Sessionless
  BY DEF Methods, Sessionless
<1> QED BY <1>1, <1>2, <1>3, <1>4, <1>5, PassedStep

\* A SETUP of another media of a session, accepted or refused.
LEMMA SetupStep ==
    ASSUME ServerInv, NEW c \in Conns, NEW s \in SessionIds, NEW p \in Medias, Setup(c, s, p)
    PROVE  ServerInv'
<1>1. /\ InLoop /\ c \in DOMAIN conns
      /\ UNCHANGED <<conns, idle, status, accepted, created, known, held>>
  BY DEF Setup, Arrives
<1>2. CASE s \in DOMAIN sessions /\ p \notin sessions[s].medias
  <2>1. /\ Passed(c, "SETUP", s, {p})
        /\ sessions' = [sessions EXCEPT ![s].op = "SETUP", ![s].medias = @ \cup {p}]
    BY <1>2 DEF Setup
  <2>2. sessions[s] \in Session /\ sessions[s].tearing \subseteq sessions[s].medias /\ s \in created
    BY <1>2 DEF ServerInv, SessionsOK
  <2>3. /\ DOMAIN sessions' = DOMAIN sessions
        /\ \A x \in DOMAIN sessions : x # s => sessions'[x] = sessions[x]
        /\ sessions'[s] = [sessions[s] EXCEPT !.op = "SETUP", !.medias = @ \cup {p}]
    BY <1>2, <2>1
  <2>4. sessions'[s] \in Session /\ sessions'[s].tearing \subseteq sessions'[s].medias
        /\ sessions'[s].medias = sessions[s].medias \cup {p}
    <3>1. /\ sessions'[s].medias = sessions[s].medias \cup {p}
          /\ sessions'[s].tearing = sessions[s].tearing
      BY <2>2, <2>3 DEF Session
    <3>2. "SETUP" \in Methods
      BY DEF Methods
    <3>3. sessions[s].medias \cup {p} \in SUBSET Medias
      BY <2>2 DEF Session
    <3>4. sessions'[s] \in Session
      BY <2>2, <2>3, <3>2, <3>3 DEF Session
    <3> QED BY <2>2, <3>1, <3>4
  <2>5. SessionsOK(sessions', created')
    BY <1>1, <2>3, <2>4 DEF ServerInv, SessionsOK
  <2>6. "SETUP" \in Methods \ Sessionless /\ created' \subseteq SessionIds
    BY <1>1 DEF Methods, Sessionless, ServerInv, Scalars
  <2>7. /\ \A x \in DOMAIN sessions : x \in DOMAIN sessions' /\ sessions[x].medias \subseteq sessions'[x].medias
        /\ s \in DOMAIN sessions' /\ {p} \subseteq sessions'[s].medias
    BY <1>2, <2>3, <2>4
  <2>8. /\ s \in created' /\ created \subseteq created' /\ held' \subseteq held
        /\ {p} \in SUBSET Medias /\ \E x \in Medias : {p} = {x}
    BY <1>1, <2>2
  <2> QED BY <1>1, <2>1, <2>5, <2>6, <2>7, <2>8, PassedStep
<1>3. CASE ~(s \in DOMAIN sessions /\ p \notin sessions[s].medias)
  <2>1. Answer(c, "error") /\ UNCHANGED <<sessions, requests, received, cb>>
    BY <1>3 DEF Setup
  <2>2. Scalars'
    BY <1>1, <2>1 DEF ServerInv, Scalars
  <2> QED BY <1>1, <2>1, <2>2, OutAnswer, QuietStep
<1> QED BY <1>2, <1>3

\* PLAY, PAUSE and RECORD, for all medias of a session.
LEMMA SessionRequestStep ==
    ASSUME ServerInv, NEW c \in Conns, NEW s \in SessionIds, NEW m \in {"PLAY", "PAUSE", "RECORD"},
           SessionRequest(c, m, s)
    PROVE  ServerInv'
<1>1. /\ InLoop /\ c \in DOMAIN conns
      /\ UNCHANGED <<conns, idle, status, accepted, created, known, held>>
  BY DEF SessionRequest, Arrives
<1>2. CASE ~NotFound(s)
  <2>1. /\ Passed(c, m, s, sessions[s].medias) /\ s \in DOMAIN sessions
        /\ sessions' = [sessions EXCEPT ![s].op = m]
    BY <1>2 DEF SessionRequest, NotFound
  <2>2. sessions[s] \in Session /\ sessions[s].tearing \subseteq sessions[s].medias /\ s \in created
    BY <2>1 DEF ServerInv, SessionsOK
  <2>3. /\ DOMAIN sessions' = DOMAIN sessions
        /\ \A x \in DOMAIN sessions : x # s => sessions'[x] = sessions[x]
        /\ sessions'[s] = [sessions[s] EXCEPT !.op = m]
    BY <2>1
  <2>4. sessions'[s] \in Session /\ sessions'[s].tearing \subseteq sessions'[s].medias
        /\ sessions'[s].medias = sessions[s].medias /\ sessions[s].medias \in SUBSET Medias
    BY <2>2, <2>3 DEF Session, Methods, PerMedia
  <2>5. SessionsOK(sessions', created')
    BY <1>1, <2>3, <2>4 DEF ServerInv, SessionsOK
  <2>6. m \in Methods \ Sessionless /\ m # "SETUP" /\ created' \subseteq SessionIds
    BY <1>1 DEF Methods, PerMedia, Sessionless, ServerInv, Scalars
  <2> QED BY <1>1, <2>1, <2>2, <2>3, <2>4, <2>5, <2>6, PassedStep
<1>3. CASE NotFound(s)
  <2>1. Answer(c, "error") /\ UNCHANGED <<sessions, requests, received, cb>>
    BY <1>3 DEF SessionRequest
  <2>2. Scalars'
    BY <1>1, <2>1 DEF ServerInv, Scalars
  <2> QED BY <1>1, <2>1, <2>2, OutAnswer, QuietStep
<1> QED BY <1>2, <1>3

\* A TEARDOWN is for medias of its session.
LEMMA TornDownIs ==
    ASSUME NEW s, NEW t
    PROVE  TornDown(s, t) \subseteq sessions[s].medias
BY DEF TornDown

\* A TEARDOWN marks the medias it is for, and the application hears of them.
LEMMA TeardownStep ==
    ASSUME ServerInv, NEW c \in Conns, NEW s \in SessionIds, NEW t, Teardown(c, s, t)
    PROVE  ServerInv'
<1>1. /\ InLoop /\ c \in DOMAIN conns
      /\ UNCHANGED <<conns, idle, status, accepted, created, known>>
  BY DEF Teardown, Arrives
<1>2. CASE ~NotFound(s)
  <2> DEFINE ps == TornDown(s, t)
  <2>1. /\ s \in DOMAIN sessions
        /\ sessions' = [sessions EXCEPT ![s].op = "TEARDOWN", ![s].tearing = @ \cup ps]
        /\ held' = held \ ({s} \X ps)
        /\ IF ps = {} THEN Answer(c, "error") /\ UNCHANGED <<requests, received, cb>>
           ELSE Passed(c, "TEARDOWN", s, ps)
    BY <1>2 DEF Teardown, NotFound
  <2>2. sessions[s] \in Session /\ sessions[s].tearing \subseteq sessions[s].medias /\ s \in created
    BY <2>1 DEF ServerInv, SessionsOK
  <2>3. /\ DOMAIN sessions' = DOMAIN sessions
        /\ \A x \in DOMAIN sessions : x # s => sessions'[x] = sessions[x]
        /\ sessions'[s] = [sessions[s] EXCEPT !.op = "TEARDOWN", !.tearing = @ \cup ps]
    BY <2>1
  <2>4. ps \subseteq sessions[s].medias /\ ps \in SUBSET Medias
    BY <2>2, TornDownIs DEF Session
  <2> HIDE DEF ps
  <2>5. sessions'[s] \in Session /\ sessions'[s].tearing \subseteq sessions'[s].medias
        /\ sessions'[s].medias = sessions[s].medias
    BY <2>2, <2>3, <2>4 DEF Session, Methods, PerMedia
  <2>6. SessionsOK(sessions', created')
    BY <1>1, <2>3, <2>5 DEF ServerInv, SessionsOK
  <2>7. "TEARDOWN" \in Methods \ Sessionless /\ created' \subseteq SessionIds /\ held' \subseteq held
    BY <1>1, <2>1 DEF Methods, PerMedia, Sessionless, ServerInv, Scalars
  <2>8. CASE ps # {}
    BY <1>1, <2>1, <2>2, <2>3, <2>4, <2>5, <2>6, <2>7, <2>8, PassedStep
  <2>9. CASE ps = {}
    <3>1. Answer(c, "error") /\ UNCHANGED <<requests, received, cb>>
      BY <2>1, <2>9
    <3>2. Scalars'
      BY <1>1, <2>7, <3>1 DEF ServerInv, Scalars
    <3>3. Good(requests, received, created, conns)' /\ CallbackOK' /\ DoneOK'
      BY <1>1, <3>1 DEF ServerInv, CallbackOK, DoneOK, Running
    <3>4. LiveIn(requests', sessions')
      BY <2>3, <2>5, <3>1 DEF ServerInv, LiveIn
    <3>5. ResponsesToRequester' /\ NoContradiction'
      BY <1>1, <3>1, OutAnswer
    <3> QED BY <1>1, <2>3, <2>6, <3>2, <3>3, <3>4, <3>5 DEF ServerInv, IdleIsLive
  <2> QED BY <2>8, <2>9
<1>3. CASE NotFound(s)
  <2>1. Answer(c, "error") /\ UNCHANGED <<sessions, requests, received, cb, held>>
    BY <1>3 DEF Teardown
  <2>2. Scalars'
    BY <1>1, <2>1 DEF ServerInv, Scalars
  <2> QED BY <1>1, <2>1, <2>2, OutAnswer, QuietStep
<1> QED BY <1>2, <1>3

\* Every step of a connection keeps the invariant.
LEMMA ConnStep ==
    ASSUME ServerInv, ConnNext
    PROVE  ServerInv'
<1>1. PICK c \in Conns :
        \/ Connected(c) \/ Disconnected(c) \/ Options(c)
        \/ Describe(c) \/ AnnounceReq(c) \/ Unsupported(c)
        \/ \E s \in SessionIds, p \in Medias : SetupNew(c, s, p)
        \/ \E s \in SessionIds, p \in Medias : Setup(c, s, p)
        \/ \E s \in SessionIds : Play(c, s)
        \/ \E s \in SessionIds : Pause(c, s)
        \/ \E s \in SessionIds : Record(c, s)
        \/ \E s \in SessionIds, t \in Medias \cup {AllPaths, NoPath} : Teardown(c, s, t)
        \/ \E s \in SessionIds : GetParameter(c, s)
  BY DEF ConnNext
<1>2. ASSUME NEW code, Answer(c, code), c \in DOMAIN conns,
             UNCHANGED <<conns, sessions, idle, requests, cb, status, accepted,
                   received, created, known, held>>
      PROVE  ServerInv'
  <2>1. Scalars'
    BY <1>2 DEF ServerInv, Scalars
  <2> QED BY <1>2, <2>1, OutAnswer, QuietStep
<1>3. CASE Options(c)
  BY <1>2, <1>3 DEF Options
<1>4. CASE \E s \in SessionIds : GetParameter(c, s)
  BY <1>2, <1>4 DEF GetParameter
<1>5. CASE Describe(c) \/ AnnounceReq(c) \/ Unsupported(c)
  BY <1>5, SessionlessStep DEF Describe, AnnounceReq, Unsupported, Sessionless
<1>6. CASE \E s \in SessionIds : Play(c, s) \/ Pause(c, s) \/ Record(c, s)
  BY <1>6, SessionRequestStep DEF Play, Pause, Record
<1> QED BY <1>1, <1>3, <1>4, <1>5, <1>6, ConnectedStep, DisconnectedStep, SetupNewStep,
           SetupStep, TeardownStep

\* Requests q are the requests but for r, which has been replied to.
RepliedTo(q, r) ==
    /\ DOMAIN q = DOMAIN requests /\ \A x \in DOMAIN requests : x # r => q[x] = requests[x]
    /\ RequestOK(q[r])
    /\ q[r].method = requests[r].method /\ q[r].session = requests[r].session
    /\ q[r].conn = requests[r].conn /\ q[r].from = requests[r].from
    /\ q[r].medias = requests[r].medias /\ q[r].told = requests[r].told
    /\ q[r].freed = requests[r].freed

\* Requests with a reply to r are good, and their medias live.
LEMMA RepliedGood ==
    ASSUME ServerInv, NEW r \in DOMAIN requests, NEW q, RepliedTo(q, r)
    PROVE  Good(q, received, created, conns) /\ LiveIn(q, sessions) /\ Typed(q)
<1>1. Good(q, received, created, conns)
  BY DEF RepliedTo, ServerInv, Good
<1>2. LiveIn(q, sessions)
  BY DEF RepliedTo, ServerInv, LiveIn
<1> QED BY <1>1, <1>2, GoodTyped

\* A request has been replied to: it is over, or will be when its callbacks
\* return.
LEMMA RepliedStep ==
    ASSUME ServerInv, NEW r \in DOMAIN requests, NEW q, RepliedTo(q, r), q[r].done,
           q[r].pending = requests[r].pending,
           IF cb = r THEN requests' = q /\ UNCHANGED <<sessions, idle>> ELSE Finish(q, r),
           q[r].method = "TEARDOWN" => q[r].session \in DOMAIN sessions,
           UNCHANGED <<conns, cb, status, received, created>>, Running,
           Scalars', ResponsesToRequester', NoContradiction'
    PROVE  ServerInv'
<1>1. Good(q, received, created, conns) /\ LiveIn(q, sessions) /\ Typed(q)
  BY RepliedGood
<1>2. r # 0
  BY DEF ServerInv, Good
<1>3. CASE cb = r
  <2>1. CallbackOK'
    BY <1>3 DEF ServerInv, CallbackOK, RepliedTo
  <2>2. DoneOK'
    BY <1>3 DEF ServerInv, DoneOK, RepliedTo
  <2> QED BY <1>1, <1>3, <2>1, <2>2 DEF ServerInv, IdleIsLive
<1>4. CASE cb # r
  <2>1. /\ Later(requests', q, {r})
        /\ SessionsOK(sessions', created)
        /\ LiveIn(requests', sessions')
        /\ IdleIsLive'
    <3>1. r \in DOMAIN q /\ SessionsOK(sessions, created) /\ IdleIsLive
      BY DEF RepliedTo, ServerInv
    <3> QED BY <1>1, <1>4, <3>1, FinishIs
  <2>2. Good(requests', received, created, conns)
    BY <1>1, <2>1, GoodLater
  <2>3. CallbackOK'
    <3>1. cb # 0 => cb \in DOMAIN q /\ q[cb].pending
      BY <1>4 DEF ServerInv, CallbackOK, RepliedTo
    <3> QED BY <1>4, <2>1, <3>1, CallbackLater
  <2>4. DoneOK'
    <3>1. \A x \in DOMAIN q : q[x].pending /\ q[x].done /\ x \notin {r} => cb' = x
      BY DEF ServerInv, DoneOK, RepliedTo
    <3> QED BY <2>1, <3>1, DoneLater
  <2> QED BY <2>1, <2>2, <2>3, <2>4 DEF ServerInv
<1> QED BY <1>3, <1>4

\* A reply to a DESCRIBE or an ANNOUNCE.
LEMMA ReplySessionlessStep ==
    ASSUME ServerInv, NEW r \in DOMAIN requests, NEW m \in {"DESCRIBE", "ANNOUNCE"},
           NEW code \in Codes \cup {"none"}, reply_sessionless(r, m, code)
    PROVE  ServerInv'
<1> DEFINE q == [requests EXCEPT ![r].done = TRUE]
<1>1. /\ Running /\ requests[r].method = m
      /\ out' = IF code = "none" THEN {} ELSE ResponseTo(requests[r], code)
      /\ IF cb = r THEN requests' = q /\ UNCHANGED <<sessions, idle>> ELSE Finish(q, r)
      /\ UNCHANGED <<conns, cb, status, accepted, received, created, known, held>>
  BY DEF reply_sessionless, Replied
<1>2. RequestOK(requests[r]) /\ requests[r] \in Request /\ requests[r].codes = {}
  <2>1. RequestOK(requests[r])
    BY DEF ServerInv, Good
  <2> QED BY <1>1, <2>1 DEF RequestOK, Sessionless
<1>3. q[r] = [requests[r] EXCEPT !.done = TRUE] /\ DOMAIN q = DOMAIN requests
      /\ \A x \in DOMAIN requests : x # r => q[x] = requests[x]
  OBVIOUS
<1> HIDE DEF q
<1>4. RepliedTo(q, r) /\ q[r].done /\ q[r].pending = requests[r].pending
  <2>1. q[r] \in Request
    BY <1>2, <1>3 DEF Request
  <2>2. RequestOK(q[r])
    BY <1>2, <1>3, <2>1 DEF RequestOK, Request
  <2> QED BY <1>2, <1>3, <2>2 DEF RepliedTo, Request
<1>5. ResponsesToRequester' /\ NoContradiction'
  <2>1. CASE code = "none"
    BY <1>1, <2>1, OutNone
  <2>2. CASE code # "none"
    <3>1. out' = ResponseTo(requests[r], code) /\ code \in Codes
      BY <1>1, <2>2
    <3> QED BY <1>1, <1>2, <3>1, OutResponse
  <2> QED BY <2>1, <2>2
<1>6. Scalars'
  BY <1>1 DEF ServerInv, Scalars
<1>7. q[r].method # "TEARDOWN"
  BY <1>1, <1>4 DEF RepliedTo
<1> QED BY <1>1, <1>4, <1>5, <1>6, <1>7, RepliedStep

\* The media the application replies for is in a session that lives.
LEMMA RepliesToLive ==
    ASSUME ServerInv, NEW r \in DOMAIN requests, NEW p, MayReply(r, p), p \notin requests[r].freed
    PROVE  /\ requests[r].session \in DOMAIN sessions
           /\ p \in sessions[requests[r].session].medias
           /\ requests[r].session # NoSession
<1>1. requests[r].session \in DOMAIN sessions /\ p \in sessions[requests[r].session].medias
  BY DEF ServerInv, LiveIn, MayReply
<1>2. NoSession \notin DOMAIN sessions
  BY ServerAssumption DEF ServerInv, SessionsOK, Scalars
<1> QED BY <1>1, <1>2

\* A reply for a media of PLAY, PAUSE, RECORD or TEARDOWN: one response is sent
\* for a request, an error at once, a success with the last reply.
LEMMA ReplyMediaStep ==
    ASSUME ServerInv, NEW r \in DOMAIN requests, NEW m \in PerMedia, NEW p,
           NEW code \in Codes \cup {"none"}, reply_to_media(r, m, p, code)
    PROVE  ServerInv'
<1> DEFINE q == requests[r]
           all == q.replied \cup {p} = q.medias
           ends == q.conn = NoConn \/ code = "error" \/ all
           sent == IF code = "2xx" /\ ~all THEN "none" ELSE code
           next == [Replying(r, p, sent) EXCEPT
                    ![r].replied = IF code = "error" \/ q.conn = NoConn THEN @
                                   ELSE @ \cup {p}]
           d == [next EXCEPT ![r].done = TRUE]
           v == [q EXCEPT !.answered = @ \cup {p},
                     !.codes = IF q.conn = NoConn \/ sent = "none" THEN @ ELSE @ \cup {sent},
                     !.replied = IF code = "error" \/ q.conn = NoConn THEN @ ELSE @ \cup {p}]
<1>1. /\ MayReply(r, p) /\ q.method = m /\ q.pending /\ p \notin q.freed
      /\ out' = IF sent = "none" THEN {} ELSE ResponseTo(q, sent)
      /\ ends => IF cb = r THEN requests' = d /\ UNCHANGED <<sessions, idle>> ELSE Finish(d, r)
      /\ ~ends => requests' = next /\ UNCHANGED <<sessions, idle>>
      /\ UNCHANGED <<conns, cb, status, accepted, received, created, known, held>>
  BY DEF reply_to_media, Replied
<1>2. RequestOK(q) /\ q \in Request
  BY DEF ServerInv, Good, RequestOK
<1>3. p \in q.medias /\ p \notin q.answered /\ Running
  BY <1>1 DEF MayReply
<1>4. next[r] = v /\ DOMAIN next = DOMAIN requests
      /\ \A x \in DOMAIN requests : x # r => next[x] = requests[x]
  BY <1>2 DEF Replying, Request
<1>5. d[r] = [v EXCEPT !.done = TRUE] /\ DOMAIN d = DOMAIN requests
      /\ \A x \in DOMAIN requests : x # r => d[x] = requests[x]
  BY <1>4
<1>6. sent \in Codes \cup {"none"}
  OBVIOUS
<1> DEFINE w == [v EXCEPT !.done = TRUE]
<1>7. /\ v \in Request
      /\ v.method = q.method /\ v.session = q.session /\ v.conn = q.conn /\ v.from = q.from
      /\ v.medias = q.medias /\ v.told = q.told /\ v.freed = q.freed
      /\ v.pending = q.pending /\ v.done = q.done
      /\ v.answered = q.answered \cup {p}
      /\ v.codes = IF q.conn = NoConn \/ sent = "none" THEN q.codes ELSE q.codes \cup {sent}
      /\ v.replied = IF code = "error" \/ q.conn = NoConn THEN q.replied ELSE q.replied \cup {p}
  <2>1. p \in Medias
    BY <1>2, <1>3 DEF Request
  <2> HIDE DEF sent
  <2> QED BY <1>2, <1>6, <2>1 DEF Request
<1> HIDE DEF v, next, d
<1>8. /\ w \in Request /\ w.done
      /\ w.method = q.method /\ w.session = q.session /\ w.conn = q.conn /\ w.from = q.from
      /\ w.medias = q.medias /\ w.told = q.told /\ w.freed = q.freed
      /\ w.pending = q.pending
      /\ w.answered = v.answered /\ w.codes = v.codes /\ w.replied = v.replied
  BY <1>7 DEF Request
<1> HIDE DEF w
<1>9. /\ v.answered \subseteq v.medias /\ v.replied \subseteq v.answered /\ v.answered # {}
      /\ "error" \in v.codes => ~(v.answered \subseteq v.replied)
      /\ "2xx" \in v.codes => v.medias \subseteq v.answered
      /\ ~ends => v.codes = q.codes
  <2>1. v.answered \subseteq v.medias /\ v.replied \subseteq v.answered /\ v.answered # {}
    BY <1>2, <1>3, <1>7 DEF RequestOK
  <2>2. ASSUME "error" \in v.codes PROVE ~(v.answered \subseteq v.replied)
    <3>1. CASE "error" \in q.codes
      BY <1>2, <1>3, <1>7, <3>1 DEF RequestOK
    <3>2. CASE "error" \notin q.codes
      <4>1. sent = "error" /\ code = "error"
        BY <1>7, <2>2, <3>2
      <4> QED BY <1>2, <1>3, <1>7, <4>1 DEF RequestOK
    <3> QED BY <3>1, <3>2
  <2>3. ASSUME "2xx" \in v.codes PROVE v.medias \subseteq v.answered
    <3>1. CASE "2xx" \in q.codes
      BY <1>2, <1>3, <1>7, <3>1 DEF RequestOK
    <3>2. CASE "2xx" \notin q.codes
      <4>1. sent = "2xx"
        BY <1>7, <2>3, <3>2
      <4>2. all
        BY <4>1
      <4> QED BY <1>2, <1>7, <4>2 DEF RequestOK
    <3> QED BY <3>1, <3>2
  <2>4. ASSUME ~ends PROVE v.codes = q.codes
    BY <1>6, <1>7, <2>4 DEF Codes
  <2> QED BY <2>1, <2>2, <2>3, <2>4
<1>10. RequestOK(w) /\ (~ends => RequestOK(v))
  <2>1. RequestOK(w)
    BY <1>2, <1>8, <1>9, <1>7 DEF RequestOK
  <2>2. ASSUME ~ends PROVE RequestOK(v)
    BY <1>2, <1>7, <1>9, <2>2 DEF RequestOK
  <2> QED BY <2>1, <2>2
<1>11. ResponsesToRequester' /\ NoContradiction'
  <2>1. CASE sent = "none"
    BY <1>1, <2>1, OutNone
  <2>2. CASE sent = "error"
    <3>1. q.codes \subseteq {"error"}
      BY <1>2, <1>3 DEF RequestOK, Request, Codes
    <3>2. out' = ResponseTo(q, "error") /\ "error" \in Codes
      BY <1>1, <2>2 DEF Codes
    <3> QED BY <1>1, <3>1, <3>2, OutResponse
  <2>3. CASE sent = "2xx"
    <3>1. all
      BY <2>3
    <3>2. "error" \notin q.codes
      BY <1>2, <1>3, <3>1 DEF RequestOK
    <3>3. q.codes \subseteq {"2xx"}
      BY <1>2, <3>2 DEF Request, Codes
    <3>4. out' = ResponseTo(q, "2xx") /\ "2xx" \in Codes
      BY <1>1, <2>3 DEF Codes
    <3> QED BY <1>1, <3>3, <3>4, OutResponse
  <2> QED BY <1>6, <2>1, <2>2, <2>3 DEF Codes
<1>12. Scalars'
  BY <1>1 DEF ServerInv, Scalars
<1>13. q.session \in DOMAIN sessions
  BY <1>1, RepliesToLive
<1>14. CASE ends
  <2>1. RepliedTo(d, r) /\ d[r].done /\ d[r].pending = q.pending
    BY <1>5, <1>8, <1>10 DEF RepliedTo, w
  <2>2. IF cb = r THEN requests' = d /\ UNCHANGED <<sessions, idle>> ELSE Finish(d, r)
    BY <1>1, <1>14
  <2>3. d[r].session \in DOMAIN sessions
    BY <1>13, <2>1 DEF RepliedTo
  <2> QED BY <1>1, <1>3, <1>11, <1>12, <2>1, <2>2, <2>3, RepliedStep
<1>15. CASE ~ends
  <2>1. RepliedTo(next, r) /\ next[r].pending = q.pending /\ next[r].done = q.done
    BY <1>4, <1>7, <1>10, <1>15 DEF RepliedTo
  <2>2. requests' = next /\ UNCHANGED <<sessions, idle>>
    BY <1>1, <1>15
  <2>3. Good(next, received, created, conns) /\ LiveIn(next, sessions)
    BY <2>1, RepliedGood
  <2>4. CallbackOK' /\ DoneOK'
    BY <1>1, <2>1, <2>2 DEF ServerInv, CallbackOK, DoneOK, RepliedTo, Running
  <2> QED BY <1>1, <1>11, <1>12, <2>2, <2>3, <2>4 DEF ServerInv, IdleIsLive
<1> QED BY <1>14, <1>15

\* A SETUP has one media, which has not been replied for before.
LEMMA SetupUnanswered ==
    ASSUME ServerInv, NEW r \in DOMAIN requests, NEW p, MayReply(r, p),
           requests[r].method = "SETUP"
    PROVE  requests[r].medias = {p} /\ requests[r].answered = {} /\ requests[r].codes = {}
           /\ requests[r].replied = {}
<1>1. RequestOK(requests[r]) /\ p \in requests[r].medias /\ p \notin requests[r].answered
  BY DEF ServerInv, Good, MayReply
<1>2. requests[r].medias = {p}
  BY <1>1 DEF RequestOK
<1> QED BY <1>1, <1>2 DEF RequestOK

\* A reply to a SETUP.
LEMMA ReplySetupStep ==
    ASSUME ServerInv, NEW r \in DOMAIN requests, NEW p,
           NEW code \in Codes \cup {"none"}, reply_to_setup(r, p, code)
    PROVE  ServerInv'
<1> DEFINE s == requests[r].session
           q == Replying(r, p, code)
           v == [requests[r] EXCEPT !.answered = @ \cup {p},
                     !.codes = IF requests[r].conn = NoConn \/ code = "none"
                               THEN @ ELSE @ \cup {code}]
           d == [q EXCEPT ![r].done = TRUE]
           o == pending_request_remove(q, r)
<1>1. /\ MayReply(r, p) /\ requests[r].method = "SETUP"
      /\ requests[r].pending /\ p \notin requests[r].freed
      /\ out' = IF code = "none" THEN {} ELSE ResponseTo(requests[r], code)
      /\ idle' \subseteq idle \cup {s}
      /\ cb = r => requests' = d /\ UNCHANGED sessions
      /\ cb # r => /\ requests' = Remembered(o)
                   /\ sessions' = [sessions EXCEPT ![s].op = "UNKNOWN"]
      /\ known' \subseteq known \cup {s} /\ held' \subseteq held \cup {<<s, p>>}
      /\ UNCHANGED <<conns, cb, status, accepted, received, created>>
  BY DEF reply_to_setup
<1>2. RequestOK(requests[r]) /\ requests[r] \in Request /\ p \in Medias
      /\ requests[r].session \in created \cup {NoSession}
  BY <1>1 DEF ServerInv, Good, RequestOK, MayReply, Request
<1>3. requests[r].medias = {p} /\ requests[r].answered = {} /\ requests[r].codes = {}
      /\ requests[r].replied = {}
  BY <1>1, SetupUnanswered
<1>4. s \in DOMAIN sessions /\ s \in created /\ s # NoSession
  BY <1>1, <1>2, RepliesToLive
<1>5. q[r] = v /\ DOMAIN q = DOMAIN requests
      /\ \A x \in DOMAIN requests : x # r => q[x] = requests[x]
  BY <1>2 DEF Replying, Request
<1>6. d[r] = [v EXCEPT !.done = TRUE] /\ DOMAIN d = DOMAIN requests
      /\ \A x \in DOMAIN requests : x # r => d[x] = requests[x]
  BY <1>5
<1>7. o[r] = [v EXCEPT !.pending = FALSE] /\ DOMAIN o = DOMAIN requests
      /\ \A x \in DOMAIN requests : x # r => o[x] = requests[x]
  BY <1>5 DEF pending_request_remove
<1>8. /\ v \in Request
      /\ v.method = "SETUP" /\ v.session = s /\ v.conn = requests[r].conn
      /\ v.from = requests[r].from /\ v.medias = {p}
      /\ v.told = requests[r].told /\ v.freed = requests[r].freed
      /\ v.pending = requests[r].pending
      /\ v.answered = {p} /\ v.replied = {}
      /\ v.codes = IF requests[r].conn = NoConn \/ code = "none" THEN {} ELSE {code}
  BY <1>1, <1>2, <1>3 DEF Request
<1> HIDE DEF v, q, d, o
<1>9. RepliedTo(d, r) /\ d[r].done
  <2>1. d[r] \in Request
    BY <1>6, <1>8 DEF Request
  <2>2. RequestOK(d[r])
    BY <1>4, <1>6, <1>8, <2>1 DEF RequestOK, Request, Sessionless
  <2> QED BY <1>1, <1>3, <1>6, <1>8, <2>2 DEF RepliedTo, Request
<1>10. RepliedTo(o, r) /\ ~o[r].pending
  <2>1. o[r] \in Request
    BY <1>7, <1>8 DEF Request
  <2>2. RequestOK(o[r])
    BY <1>4, <1>7, <1>8, <2>1 DEF RequestOK, Request, Sessionless
  <2> QED BY <1>1, <1>3, <1>7, <1>8, <2>2 DEF RepliedTo, Request
<1>11. Scalars'
  <2>1. known' \subseteq created /\ held' \subseteq created \X Medias
    BY <1>1, <1>2, <1>4 DEF ServerInv, Scalars
  <2> QED BY <1>1, <2>1 DEF ServerInv, Scalars
<1>12. ResponsesToRequester' /\ NoContradiction'
  <2>1. CASE code = "none"
    BY <1>1, <2>1, OutNone
  <2>2. CASE code # "none"
    <3>1. out' = ResponseTo(requests[r], code) /\ code \in Codes
      BY <1>1, <2>2
    <3> QED BY <1>1, <1>3, <3>1, OutResponse
  <2> QED BY <2>1, <2>2
<1>13. CASE cb = r
  <2>1. requests' = d /\ sessions' = sessions
    BY <1>1, <1>13
  <2>2. Good(d, received, created, conns) /\ LiveIn(d, sessions)
    BY <1>9, RepliedGood
  <2>3. CallbackOK'
    <3>1. d[r].pending
      BY <1>1, <1>6, <1>8 DEF Request
    <3> QED BY <1>1, <1>6, <1>13, <2>1, <3>1 DEF CallbackOK
  <2>4. DoneOK'
    BY <1>1, <1>6, <1>13, <2>1 DEF ServerInv, DoneOK, Running
  <2>5. IdleIsLive'
    BY <1>1, <1>4, <2>1 DEF ServerInv, IdleIsLive
  <2> QED BY <1>1, <1>11, <1>12, <2>1, <2>2, <2>3, <2>4, <2>5 DEF ServerInv
<1>14. CASE cb # r
  <2>1. requests' = Remembered(o) /\ sessions' = [sessions EXCEPT ![s].op = "UNKNOWN"]
    BY <1>1, <1>14
  <2>2. Good(o, received, created, conns) /\ LiveIn(o, sessions) /\ Typed(o)
    BY <1>10, RepliedGood
  <2>3. Later(requests', o, {})
    BY <2>1, <2>2, RememberedLater
  <2>4. Good(requests', received, created, conns) /\ LiveIn(requests', sessions)
    BY <2>2, <2>3, GoodLater, LiveLater
  <2>5. /\ DOMAIN sessions' = DOMAIN sessions
        /\ \A x \in DOMAIN sessions : /\ sessions'[x].medias = sessions[x].medias
                                      /\ sessions'[x].tearing = sessions[x].tearing
                                      /\ sessions'[x] \in Session
    BY <2>1 DEF ServerInv, SessionsOK, Session
  <2>6. SessionsOK(sessions', created') /\ LiveIn(requests', sessions')
    BY <1>1, <2>4, <2>5 DEF ServerInv, SessionsOK, LiveIn
  <2>7. CallbackOK'
    <3>1. cb # 0 => cb \in DOMAIN o /\ o[cb].pending
      BY <1>7, <1>14 DEF ServerInv, CallbackOK
    <3> QED BY <1>1, <2>3, <3>1, CallbackLater
  <2>8. DoneOK'
    <3>1. \A x \in DOMAIN o : o[x].pending /\ o[x].done => cb' = x
      BY <1>1, <1>7, <1>10 DEF ServerInv, DoneOK, MayReply
    <3> QED BY <2>3, <3>1, DoneLater
  <2>9. IdleIsLive'
    BY <1>1, <1>4, <2>5 DEF ServerInv, IdleIsLive
  <2> QED BY <1>1, <1>11, <1>12, <2>4, <2>6, <2>7, <2>8, <2>9 DEF ServerInv
<1> QED BY <1>13, <1>14

\* A reply that comes too late changes the request only.
LEMMA LateReplyStep ==
    ASSUME ServerInv, NEW r \in DOMAIN requests, NEW p, LateReply(r, p)
    PROVE  ServerInv'
<1>1. /\ UNCHANGED <<conns, sessions, idle, cb, accepted, received, created, known, held>>
      /\ out' = {} /\ p \in requests[r].medias
  BY DEF LateReply, MayReply
<1>2. CASE p \in requests[r].freed \/ requests[r].method = "RECORD"
  <2>1. status' = "crashed" /\ requests' = requests
    BY <1>2 DEF LateReply
  <2>2. Scalars'
    BY <1>1, <2>1 DEF ServerInv, Scalars
  <2> QED BY <1>1, <2>1, <2>2, OutNone, QuietStep
<1>3. CASE ~(p \in requests[r].freed \/ requests[r].method = "RECORD")
  <2> DEFINE q == [requests EXCEPT ![r].answered = @ \cup {p}]
  <2>1. requests' = Remembered(q) /\ status' = status /\ ~requests[r].pending
    BY <1>3 DEF LateReply
  <2>2. RequestOK(requests[r]) /\ requests[r] \in Request
    BY DEF ServerInv, Good, RequestOK
  <2>3. q[r] = [requests[r] EXCEPT !.answered = @ \cup {p}] /\ DOMAIN q = DOMAIN requests
        /\ \A x \in DOMAIN requests : x # r => q[x] = requests[x]
    OBVIOUS
  <2> HIDE DEF q
  <2>4. RequestOK(q[r])
    <3>1. p \in Medias
      BY <1>1, <2>2 DEF Request
    <3>2. q[r] \in Request
      BY <2>2, <2>3, <3>1 DEF Request
    <3>3. /\ q[r].answered = requests[r].answered \cup {p} /\ q[r].codes = requests[r].codes
          /\ q[r].medias = requests[r].medias /\ q[r].replied = requests[r].replied
          /\ q[r].method = requests[r].method /\ q[r].session = requests[r].session
          /\ q[r].pending = requests[r].pending
      BY <2>2, <2>3 DEF Request
    <3> QED BY <1>1, <2>1, <2>2, <3>2, <3>3 DEF RequestOK
  <2>5. RepliedTo(q, r) /\ ~q[r].pending
    BY <2>1, <2>2, <2>3, <2>4 DEF RepliedTo, Request
  <2>6. Good(q, received, created, conns) /\ LiveIn(q, sessions) /\ Typed(q)
    BY <2>5, RepliedGood
  <2>7. Later(requests', q, {})
    BY <2>1, <2>6, RememberedLater
  <2>8. Good(requests', received, created, conns) /\ LiveIn(requests', sessions)
    BY <2>6, <2>7, GoodLater, LiveLater
  <2>9. CallbackOK'
    <3>1. cb # 0 => cb \in DOMAIN q /\ q[cb].pending
      BY <2>1, <2>3 DEF ServerInv, CallbackOK
    <3> QED BY <1>1, <2>7, <3>1, CallbackLater
  <2>10. DoneOK'
    <3>1. \A x \in DOMAIN q : q[x].pending /\ q[x].done => cb' = x
      BY <1>1, <2>3, <2>5 DEF ServerInv, DoneOK, LateReply, MayReply
    <3> QED BY <2>7, <3>1, DoneLater
  <2>11. Scalars'
    BY <1>1, <2>1 DEF ServerInv, Scalars
  <2> QED BY <1>1, <2>1, <2>8, <2>9, <2>10, <2>11, OutNone DEF ServerInv, IdleIsLive
<1> QED BY <1>2, <1>3

\* Medias ps of session s are freed, outside the end of a request.
LEMMA FreedStep ==
    ASSUME ServerInv, NEW s \in DOMAIN sessions, NEW ps, NEW ms,
           requests' = Remembered(FreeMedias(requests, s, ps, ms)),
           SessionsOK(sessions', created), IdleIsLive',
           \A x \in DOMAIN sessions : x # s => x \in DOMAIN sessions' /\ sessions'[x] = sessions[x],
           \A m \in sessions[s].medias \ ps : s \in DOMAIN sessions' /\ m \in sessions'[s].medias,
           UNCHANGED <<conns, cb, status, accepted, received, created, known>>,
           held' \subseteq held, out' = {}
    PROVE  ServerInv'
<1> DEFINE f == FreeMedias(requests, s, ps, ms)
<1>1. Typed(requests)
  BY GoodTyped DEF ServerInv
<1>2. Later(f, requests, {}) /\ \A r \in DOMAIN requests : requests[r].session = s =>
         requests[r].medias \cap ps \subseteq f[r].told \cup f[r].freed
  BY <1>1, FreeMediasLater
<1> HIDE DEF f
<1>3. Typed(f) /\ Later(requests', f, {}) /\ LiveIn(f, sessions)
  BY <1>2, LaterTyped, RememberedLater, LiveLater DEF f, ServerInv
<1>4. Later(requests', requests, {} \cup {})
  BY <1>2, <1>3, LaterTrans
<1>5. Later(requests', requests, {})
  BY <1>4
<1>6. Good(requests, received, created, conns)' /\ CallbackOK' /\ DoneOK'
  BY <1>5, LaterStep
<1>7. LiveIn(f, sessions')
  <2>1. \A r \in DOMAIN f : f[r].session = s =>
           f[r].medias \cap ps \subseteq f[r].told \cup f[r].freed
    BY <1>2 DEF Later, Same
  <2> QED BY <1>3, <2>1 DEF LiveIn
<1>8. LiveIn(requests', sessions')
  BY <1>3, <1>7, LiveLater
<1>9. Scalars'
  BY DEF ServerInv, Scalars
<1> QED BY <1>6, <1>8, <1>9, OutNone DEF ServerInv

\* A session is removed with all its medias.
LEMMA SessionRemoveStep ==
    ASSUME ServerInv, NEW s \in DOMAIN sessions, NEW ms,
           requests' = Remembered(FreeMedias(requests, s, sessions[s].medias, ms)),
           session_remove(s),
           UNCHANGED <<conns, cb, status, accepted, received, created, known>>,
           held' \subseteq held, out' = {}
    PROVE  ServerInv'
<1>1. /\ DOMAIN sessions' = DOMAIN sessions \ {s}
      /\ \A x \in DOMAIN sessions' : sessions'[x] = sessions[x]
      /\ idle' = idle \ {s}
  BY DEF session_remove, Restrict
<1>2. SessionsOK(sessions', created) /\ IdleIsLive'
  BY <1>1 DEF ServerInv, SessionsOK, IdleIsLive
<1> QED BY <1>1, <1>2, FreedStep

\* A forced teardown of a media or of a session.
LEMMA ForceTeardownStep ==
    ASSUME ServerInv, NEW s \in SessionIds, NEW t, force_teardown(s, t)
    PROVE  ServerInv'
<1>1. /\ s \in DOMAIN sessions /\ t \in sessions[s].medias \cup {AllPaths}
      /\ out' = {} /\ held' \subseteq held
      /\ UNCHANGED <<conns, cb, status, accepted, received, created, known>>
  BY DEF force_teardown
<1>2. CASE t = AllPaths
  <2>1. requests' = Remembered(FreeMedias(requests, s, sessions[s].medias, Methods))
        /\ session_remove(s)
    BY <1>2 DEF force_teardown
  <2> QED BY <1>1, <2>1, SessionRemoveStep
<1>3. CASE t # AllPaths
  <2>1. /\ requests' = Remembered(FreeMedias(requests, s, {t}, Methods))
        /\ sessions' = [sessions EXCEPT ![s].medias = @ \ {t}, ![s].tearing = @ \ {t}]
        /\ idle' = idle
    BY <1>3 DEF force_teardown
  <2>2. /\ DOMAIN sessions' = DOMAIN sessions
        /\ \A x \in DOMAIN sessions : x # s => sessions'[x] = sessions[x]
        /\ sessions'[s] = [sessions[s] EXCEPT !.medias = @ \ {t}, !.tearing = @ \ {t}]
    BY <1>1, <2>1
  <2>3. sessions[s] \in Session /\ sessions[s].tearing \subseteq sessions[s].medias
    BY <1>1 DEF ServerInv, SessionsOK
  <2>4. /\ sessions'[s] \in Session /\ sessions'[s].medias = sessions[s].medias \ {t}
        /\ sessions'[s].tearing = sessions[s].tearing \ {t}
    <3>1. sessions[s].medias \ {t} \in SUBSET Medias /\ sessions[s].tearing \ {t} \in SUBSET Medias
      BY <2>3 DEF Session
    <3> QED BY <2>2, <2>3, <3>1 DEF Session
  <2>5. SessionsOK(sessions', created) /\ IdleIsLive'
    BY <2>1, <2>2, <2>3, <2>4 DEF ServerInv, SessionsOK, IdleIsLive
  <2> QED BY <1>1, <2>1, <2>2, <2>4, <2>5, FreedStep
<1> QED BY <1>2, <1>3

\* The end of the server leaves nothing.
LEMMA DestroyStep ==
    ASSUME ServerInv, Destroy
    PROVE  ServerInv'
<1>1. /\ DOMAIN conns' = {} /\ DOMAIN sessions' = {} /\ DOMAIN requests' = {}
      /\ idle' = {} /\ held' = {} /\ out' = {} /\ cb' = 0 /\ status' = "destroyed"
      /\ UNCHANGED <<accepted, received, created, known>>
  BY DEF Destroy, InLoop
<1>2. Scalars'
  BY <1>1 DEF ServerInv, Scalars
<1>3. Good(requests', received', created', conns') /\ SessionsOK(sessions', created')
      /\ LiveIn(requests', sessions')
  BY <1>1 DEF Good, SessionsOK, LiveIn
<1>4. CallbackOK' /\ DoneOK' /\ IdleIsLive'
  BY <1>1 DEF CallbackOK, DoneOK, IdleIsLive
<1> QED BY <1>1, <1>2, <1>3, <1>4, OutNone DEF ServerInv

\* Every step of the application keeps the invariant.
LEMMA ApplicationStep ==
    ASSUME ServerInv, ApplicationNext
    PROVE  ServerInv'
<1>1. ASSUME NEW r \in DOMAIN requests, NEW code \in Codes \cup {"none"},
             reply_to_describe(r, code) \/ reply_to_announce(r, code)
      PROVE  ServerInv'
  BY <1>1, ReplySessionlessStep DEF reply_to_describe, reply_to_announce
<1>2. ASSUME NEW r \in DOMAIN requests, NEW code \in Codes \cup {"none"}, NEW p,
             \/ reply_to_play(r, p, code) \/ reply_to_pause(r, p, code)
             \/ reply_to_record(r, p, code) \/ reply_to_teardown(r, p, code)
      PROVE  ServerInv'
  BY <1>2, ReplyMediaStep DEF reply_to_play, reply_to_pause, reply_to_record,
     reply_to_teardown, PerMedia
<1> QED BY <1>1, <1>2, ReplySetupStep, LateReplyStep, ForceTeardownStep, DestroyStep
        DEF ApplicationNext

\* The return of the callbacks: a request that was replied to ends now.
LEMMA CallbackReturnStep ==
    ASSUME ServerInv, NEW r, CallbackReturn(r)
    PROVE  ServerInv'
<1>1. /\ Running /\ cb = r /\ r # 0 /\ cb' = 0 /\ out' = {}
      /\ UNCHANGED <<conns, accepted, received, created, known, held>>
  BY DEF CallbackReturn
<1>2. r \in DOMAIN requests /\ requests[r].pending /\ requests[r] \in Request /\ Typed(requests)
  BY <1>1, GoodTyped DEF ServerInv, CallbackOK, Typed
<1>3. CASE ~requests[r].done
  <2>1. UNCHANGED <<sessions, idle, requests, status>>
    BY <1>3 DEF CallbackReturn
  <2>2. DoneOK'
    BY <1>1, <1>3, <2>1 DEF ServerInv, DoneOK, Running
  <2>3. Scalars' /\ CallbackOK'
    BY <1>1, <2>1 DEF ServerInv, Scalars, CallbackOK
  <2> QED BY <1>1, <2>1, <2>2, <2>3, OutNone DEF ServerInv, IdleIsLive
<1>4. CASE requests[r].done /\ requests[r].session \in DOMAIN sessions \cup {NoSession}
  <2>1. Finish(requests, r) /\ status' = status
    BY <1>4 DEF CallbackReturn
  <2>2. requests[r].method = "TEARDOWN" => requests[r].session \in DOMAIN sessions
    BY <1>2, <1>4 DEF ServerInv, Good, RequestOK, Sessionless
  <2>3. /\ Later(requests', requests, {r})
        /\ SessionsOK(sessions', created)
        /\ LiveIn(requests', sessions')
        /\ IdleIsLive'
    BY <1>2, <2>1, <2>2, FinishIs DEF ServerInv
  <2>4. Good(requests', received, created, conns)
    BY <2>3, GoodLater DEF ServerInv
  <2>5. CallbackOK'
    BY <1>1 DEF CallbackOK
  <2>6. DoneOK'
    <3>1. \A x \in DOMAIN requests : requests[x].pending /\ requests[x].done /\ x \notin {r} => cb' = x
      BY <1>1 DEF ServerInv, DoneOK
    <3> QED BY <2>3, <3>1, DoneLater
  <2>7. Scalars'
    BY <1>1, <2>1 DEF ServerInv, Scalars
  <2> QED BY <1>1, <2>3, <2>4, <2>5, <2>6, <2>7, OutNone DEF ServerInv
<1>5. CASE requests[r].done /\ requests[r].session \notin DOMAIN sessions \cup {NoSession}
  <2>1. status' = "crashed" /\ UNCHANGED <<sessions, idle, requests>>
    BY <1>5 DEF CallbackReturn
  <2>2. DoneOK' /\ CallbackOK'
    BY <1>1, <2>1 DEF DoneOK, CallbackOK, Running
  <2>3. Scalars'
    BY <1>1, <2>1 DEF ServerInv, Scalars
  <2> QED BY <1>1, <2>1, <2>2, <2>3, OutNone DEF ServerInv, IdleIsLive
<1> QED BY <1>3, <1>4, <1>5

\* The timer answers only requests that have had no response.
LEMMA RequestTimeoutStep ==
    ASSUME ServerInv, NEW k, RequestTimeout(k)
    PROVE  ServerInv'
<1> DEFINE late == {r \in DOMAIN requests : requests[r].pending /\ r <= k}
<1>1. /\ InLoop /\ out' = UNION {ResponseTo(requests[r], "error") : r \in late}
      /\ requests' = Restrict(requests, DOMAIN requests \ late)
      /\ UNCHANGED <<conns, sessions, idle, cb, status, accepted, received,
                     created, known, held>>
  BY DEF RequestTimeout
<1>2. Later(requests', requests, late)
  <2>1. DOMAIN requests' = DOMAIN requests \ late
        /\ \A r \in DOMAIN requests' : requests'[r] = requests[r]
    BY <1>1 DEF Restrict
  <2>2. Typed(requests)
    BY GoodTyped DEF ServerInv
  <2> HIDE DEF late
  <2> QED BY <2>1, <2>2 DEF Later, Same, Typed
<1>3. cb \notin late /\ cb = 0
  BY <1>1 DEF InLoop, ServerInv, Good
<1>4. Good(requests, received, created, conns)' /\ CallbackOK' /\ DoneOK'
           /\ LiveIn(requests', sessions)
  BY <1>1, <1>2, <1>3, LaterStep
<1>5. ResponsesToRequester' /\ NoContradiction'
  <2> SUFFICES ASSUME NEW o \in out'
               PROVE  \E r \in DOMAIN requests, code \in Codes :
                        o \in ResponseTo(requests[r], code) /\ requests[r].codes \subseteq {code}
    BY <1>1, OutResponse
  <2>1. PICK r \in late : o \in ResponseTo(requests[r], "error")
    BY <1>1
  <2>2. r # 0 /\ RequestOK(requests[r]) /\ requests[r].pending
    BY <2>1 DEF ServerInv, Good
  <2>3. ~requests[r].done
    BY <1>1, <1>3, <2>2 DEF InLoop, ServerInv, DoneOK
  <2>4. requests[r].codes = {}
    BY <2>2, <2>3 DEF RequestOK
  <2> QED BY <2>1, <2>4 DEF Codes
<1>6. Scalars'
  BY <1>1 DEF ServerInv, Scalars
<1> QED BY <1>1, <1>4, <1>5, <1>6 DEF ServerInv, IdleIsLive

\* Every step of the loop keeps the invariant.
LEMMA LoopStep ==
    ASSUME ServerInv, LoopNext
    PROVE  ServerInv'
<1>1. ASSUME NEW s \in SessionIds, SessionTimeout(s)
      PROVE  ServerInv'
  <2>1. held' \subseteq held
    BY <1>1 DEF SessionTimeout
  <2> QED BY <1>1, <2>1, SessionRemoveStep DEF SessionTimeout
<1>2. ASSUME NEW s \in SessionIds, SessionRemoveIdle(s)
      PROVE  ServerInv'
  <2>1. s \in DOMAIN sessions
    BY <1>2 DEF SessionRemoveIdle, ServerInv, IdleIsLive
  <2> QED BY <1>2, <2>1, SessionRemoveStep DEF SessionRemoveIdle
<1>3. CASE Stopped
  <2>1. Scalars' /\ ResponsesToRequester' /\ NoContradiction'
    BY <1>3 DEF Stopped, vars, ServerInv, Scalars, ResponsesToRequester, NoContradiction
  <2> QED BY <1>3, <2>1, QuietStep DEF Stopped, vars
<1> QED BY <1>1, <1>2, <1>3, CallbackReturnStep, RequestTimeoutStep DEF LoopNext

\* The invariant holds in a new server.
LEMMA ServerInit ==
    ASSUME Init
    PROVE  ServerInv
<1>1. /\ DOMAIN conns = {} /\ DOMAIN sessions = {} /\ DOMAIN requests = {}
      /\ idle = {} /\ held = {} /\ out = {} /\ cb = 0 /\ status = "running"
      /\ accepted = 0 /\ received = 0 /\ created = {} /\ known = {}
  BY DEF Init
<1>2. Scalars
  BY <1>1, ServerAssumption DEF Scalars
<1>3. Good(requests, received, created, conns) /\ SessionsOK(sessions, created)
      /\ LiveIn(requests, sessions)
  BY <1>1 DEF Good, SessionsOK, LiveIn
<1>4. CallbackOK /\ DoneOK /\ IdleIsLive
  BY <1>1 DEF CallbackOK, DoneOK, IdleIsLive
<1> QED BY <1>1, <1>2, <1>3, <1>4 DEF ServerInv, ResponsesToRequester, NoContradiction

\* Every step keeps the invariant.
LEMMA ServerStep ==
    ASSUME ServerInv, [Next]_vars
    PROVE  ServerInv'
<1>1. CASE UNCHANGED vars
  <2>1. Scalars' /\ ResponsesToRequester' /\ NoContradiction'
    BY <1>1 DEF vars, ServerInv, Scalars, ResponsesToRequester, NoContradiction
  <2> QED BY <1>1, <2>1, QuietStep DEF vars
<1> QED BY <1>1, ConnStep, ApplicationStep, LoopStep DEF Next

\* The inductive invariant, of all clients.
LEMMA ServerInvariant == Spec => []ServerInv
<1>1. ServerInv /\ [Next]_vars => ServerInv'
  BY ServerStep
<1> QED BY <1>1, ServerInit, PTL DEF Spec

\* The invariant has the types.
LEMMA InvIsTyped == ASSUME ServerInv PROVE TypeOK
<1>1. DOMAIN requests \subseteq RequestIds
  BY ServerAssumption DEF ServerInv, Good, Scalars, RequestIds
<1>2. \A r \in DOMAIN requests : requests[r] \in Request
  BY DEF ServerInv, Good, RequestOK
<1>3. cb \in DOMAIN requests \cup {0}
  BY DEF ServerInv, CallbackOK
<1>4. idle \subseteq SessionIds
  BY DEF ServerInv, IdleIsLive, SessionsOK, Scalars
<1> QED BY <1>1, <1>2, <1>3, <1>4 DEF ServerInv, SessionsOK, Scalars, TypeOK

\* The server stays within its types: a request whose callbacks run is not freed,
\* and only sessions that were created live, are known or are held.
THEOREM TypeTheorem == Spec => []TypeOK
BY ServerInvariant, InvIsTyped, PTL

\* Every response goes to the connection its request came from, also when the
\* connection object has been reused by the time the application replies.
THEOREM RequesterTheorem == Spec => []ResponsesToRequester
<1>1. ServerInv => ResponsesToRequester
  BY DEF ServerInv
<1> QED BY <1>1, ServerInvariant, PTL

\* No request is answered with both a success and an error, whatever the order of
\* the replies, of the reply timer and of the forced teardowns, and whatever
\* requests overlap.
THEOREM ContradictionTheorem == Spec => []NoContradiction
<1>1. ServerInv => NoContradiction
  BY DEF ServerInv
<1> QED BY <1>1, ServerInvariant, PTL

\* The idle callback of a failed SETUP never finds its session freed.
THEOREM IdleTheorem == Spec => []IdleIsLive
<1>1. ServerInv => IdleIsLive
  BY DEF ServerInv
<1> QED BY <1>1, ServerInvariant, PTL

(***************************************************************************)
(* The identity of a request                                               *)
(***************************************************************************)

\* What a request is about: it never changes, while the request is replied
\* to, its connection closes and its medias are freed.
Kept(p, q) ==
    /\ p.method = q.method /\ p.session = q.session
    /\ p.medias = q.medias /\ p.from = q.from

\* Requests p are requests q, or fewer.
KeptIn(p, q) ==
    DOMAIN p \subseteq DOMAIN q /\ \A r \in DOMAIN p : Kept(p[r], q[r])

\* A step keeps what the requests are about, and gives a new one the next
\* number: a number that the server or the application still has, as the
\* request_ctx of a reply, never becomes that of another request.
KeepsRequests ==
    /\ received' \in {received, received + 1}
    /\ \A r \in DOMAIN requests' :
          \/ r \in DOMAIN requests /\ Kept(requests'[r], requests[r])
          \/ r \notin DOMAIN requests /\ r = received + 1 /\ r = received'

\* Requests later on are the requests they were.
LEMMA LaterKept ==
    ASSUME NEW p, NEW q, NEW o, NEW e, Later(p, q, e), KeptIn(q, o)
    PROVE  KeptIn(p, o)
BY DEF Later, Same, KeptIn, Kept

\* A step that adds no request.
LEMMA KeptStep ==
    ASSUME KeptIn(requests', requests), received' = received
    PROVE  KeepsRequests
BY DEF KeptIn, KeepsRequests

\* A step that leaves them alone.
LEMMA SameKept ==
    ASSUME requests' = requests, received' = received
    PROVE  KeepsRequests
BY KeptStep DEF KeptIn, Kept

\* The end of a request forgets requests only.
LEMMA FinishLater ==
    ASSUME NEW q, Typed(q), NEW r \in DOMAIN q, Finish(q, r)
    PROVE  Later(requests', q, {r})
<1> DEFINE s == q[r].session
           p == pending_request_remove(q, r)
           f == FreeMedias(p, s, sessions[s].tearing, Methods \ {"TEARDOWN"})
<1>1. Later(p, q, {r}) /\ Typed(p)
  BY RemoveLater, LaterTyped
<1>2. Later(f, p, {}) /\ Typed(f)
  BY <1>1, FreeMediasLater, LaterTyped
<1>3. requests' = Remembered(p) \/ requests' = Remembered(f)
  <2>1. q[r].method \in Methods
    BY DEF Typed, Request
  <2> QED BY <2>1 DEF Finish, Methods, Sessionless, PerMedia
<1> HIDE DEF p, f
<1>4. CASE requests' = Remembered(p)
  <2>1. Later(requests', q, {} \cup {r})
    BY <1>1, <1>4, RememberedLater, LaterTrans
  <2> QED BY <2>1
<1>5. CASE requests' = Remembered(f)
  <2>1. Later(requests', p, {} \cup {})
    BY <1>2, <1>5, RememberedLater, LaterTrans
  <2>2. Later(requests', q, ({} \cup {}) \cup {r})
    BY <1>1, <2>1, LaterTrans
  <2> QED BY <2>2
<1> QED BY <1>3, <1>4, <1>5

\* Freeing medias forgets requests only.
LEMMA FreedKept ==
    ASSUME ServerInv, NEW s, NEW ps, NEW ms, received' = received,
           requests' = Remembered(FreeMedias(requests, s, ps, ms))
    PROVE  KeepsRequests
<1> DEFINE f == FreeMedias(requests, s, ps, ms)
<1>1. Typed(requests) /\ KeptIn(requests, requests)
  BY GoodTyped DEF ServerInv, KeptIn, Kept
<1>2. Later(f, requests, {}) /\ Typed(f)
  BY <1>1, FreeMediasLater, LaterTyped
<1> HIDE DEF f
<1>3. Later(requests', f, {})
  BY <1>2, RememberedLater DEF f
<1> QED BY <1>1, <1>2, <1>3, LaterKept, KeptStep

\* A request that is added has the next number, and the session it is for.
LEMMA AddKept ==
    ASSUME ServerInv, NEW c, NEW m, NEW s, NEW ps, received' = received + 1,
           requests' = pending_request_add(c, m, s, ps)
    PROVE  /\ KeepsRequests
           /\ \A r \in DOMAIN requests' \ DOMAIN requests : requests'[r].session = s
<1>1. received \in Nat /\ received + 1 \notin DOMAIN requests
  BY ServerAssumption DEF ServerInv, Good, Scalars
<1>2. /\ DOMAIN requests' = DOMAIN requests \cup {received + 1}
      /\ \A r \in DOMAIN requests : requests'[r] = requests[r]
      /\ requests'[received + 1].session = s
  BY <1>1 DEF pending_request_add
<1> QED BY <1>1, <1>2 DEF KeepsRequests, Kept

\* A SETUP: a request that is new is for the session it names.
LEMMA SetupKept ==
    ASSUME ServerInv, NEW c, NEW s, NEW p, Setup(c, s, p)
    PROVE  /\ KeepsRequests
           /\ \A r \in DOMAIN requests' \ DOMAIN requests : requests'[r].session = s
<1>1. CASE requests' = requests /\ received' = received
  BY <1>1, SameKept
<1>2. CASE Passed(c, "SETUP", s, {p})
  BY <1>2, AddKept DEF Passed
<1> QED BY <1>1, <1>2 DEF Setup

\* The same for PLAY, PAUSE and RECORD.
LEMMA SessionRequestKept ==
    ASSUME ServerInv, NEW c, NEW m, NEW s, SessionRequest(c, m, s)
    PROVE  /\ KeepsRequests
           /\ \A r \in DOMAIN requests' \ DOMAIN requests : requests'[r].session = s
<1>1. CASE requests' = requests /\ received' = received
  BY <1>1, SameKept
<1>2. CASE Passed(c, m, s, sessions[s].medias)
  BY <1>2, AddKept DEF Passed
<1> QED BY <1>1, <1>2 DEF SessionRequest

\* The same for TEARDOWN.
LEMMA TeardownKept ==
    ASSUME ServerInv, NEW c, NEW s, NEW t, Teardown(c, s, t)
    PROVE  /\ KeepsRequests
           /\ \A r \in DOMAIN requests' \ DOMAIN requests : requests'[r].session = s
<1>1. CASE requests' = requests /\ received' = received
  BY <1>1, SameKept
<1>2. CASE Passed(c, "TEARDOWN", s, TornDown(s, t))
  BY <1>2, AddKept DEF Passed
<1> QED BY <1>1, <1>2 DEF Teardown

\* Every step of a connection.
LEMMA ConnKept ==
    ASSUME ServerInv, ConnNext
    PROVE  KeepsRequests
<1> PICK c \in Conns :
        \/ Connected(c) \/ Disconnected(c) \/ Options(c)
        \/ Describe(c) \/ AnnounceReq(c) \/ Unsupported(c)
        \/ \E s \in SessionIds, p \in Medias : SetupNew(c, s, p)
        \/ \E s \in SessionIds, p \in Medias : Setup(c, s, p)
        \/ \E s \in SessionIds : Play(c, s) \/ Pause(c, s) \/ Record(c, s)
        \/ \E s \in SessionIds, t \in Medias \cup {AllPaths, NoPath} : Teardown(c, s, t)
        \/ \E s \in SessionIds : GetParameter(c, s)
  BY DEF ConnNext
<1>1. CASE Connected(c) \/ Options(c) \/ \E s \in SessionIds : GetParameter(c, s)
  BY <1>1, SameKept DEF Connected, Options, GetParameter
<1>2. CASE Disconnected(c)
  <2>1. /\ DOMAIN requests' = DOMAIN requests /\ received' = received
        /\ \A r \in DOMAIN requests : requests'[r] =
              IF requests[r].conn = c THEN [requests[r] EXCEPT !.conn = NoConn]
              ELSE requests[r]
    BY <1>2 DEF Disconnected
  <2>2. ASSUME NEW r \in DOMAIN requests PROVE Kept(requests'[r], requests[r])
    <3>1. requests[r] \in Request
      BY DEF ServerInv, Good, RequestOK
    <3> QED BY <2>1, <3>1 DEF Kept, Request
  <2> QED BY <2>1, <2>2, KeptStep DEF KeptIn
<1>3. CASE Describe(c) \/ AnnounceReq(c) \/ Unsupported(c)
  <2>1. PICK m : SessionlessRequest(c, m)
    BY <1>3 DEF Describe, AnnounceReq, Unsupported
  <2> QED BY <2>1, AddKept DEF SessionlessRequest
<1>4. CASE \E s \in SessionIds, p \in Medias : SetupNew(c, s, p)
  BY <1>4, AddKept DEF SetupNew, Passed
<1>5. CASE \E s \in SessionIds : Play(c, s) \/ Pause(c, s) \/ Record(c, s)
  BY <1>5, SessionRequestKept DEF Play, Pause, Record
<1> QED BY <1>1, <1>2, <1>3, <1>4, <1>5, SetupKept, TeardownKept

\* Requests d are requests q but for r, which is kept.
LEMMA OneKept ==
    ASSUME NEW q, NEW d, NEW r \in DOMAIN q, Typed(q), KeptIn(q, requests),
           DOMAIN d = DOMAIN q, d[r] \in Request, Kept(d[r], q[r]),
           \A x \in DOMAIN q : x # r => d[x] = q[x]
    PROVE  Typed(d) /\ KeptIn(d, requests)
<1>1. ASSUME NEW x \in DOMAIN q PROVE d[x] \in Request /\ Kept(d[x], requests[x])
  <2>1. Kept(q[x], requests[x]) /\ q[x] \in Request
    BY DEF Typed, KeptIn
  <2>2. CASE x = r
    BY <2>1, <2>2 DEF Kept
  <2>3. CASE x # r
    BY <2>1, <2>3
  <2> QED BY <2>2, <2>3
<1> QED BY <1>1 DEF Typed, KeptIn

\* A request that has been replied to is kept until it is forgotten.
LEMMA RepliedKept ==
    ASSUME ServerInv, NEW r \in DOMAIN requests, NEW q, Typed(q), KeptIn(q, requests),
           DOMAIN q = DOMAIN requests, Replied(q, r), received' = received
    PROVE  KeepsRequests
<1> DEFINE d == [q EXCEPT ![r].done = TRUE]
<1>1. requests' = d \/ Finish(d, r)
  BY DEF Replied
<1>2. /\ DOMAIN d = DOMAIN q /\ d[r] = [q[r] EXCEPT !.done = TRUE]
      /\ \A x \in DOMAIN q : x # r => d[x] = q[x]
  OBVIOUS
<1> HIDE DEF d
<1>3. Typed(d) /\ KeptIn(d, requests)
  <2>1. q[r] \in Request
    BY DEF Typed
  <2>2. d[r] \in Request /\ Kept(d[r], q[r])
    BY <1>2, <2>1 DEF Kept, Request
  <2> QED BY <1>2, <2>2, OneKept
<1>4. CASE requests' = d
  BY <1>3, <1>4, KeptStep
<1>5. CASE Finish(d, r)
  BY <1>2, <1>3, <1>5, FinishLater, LaterKept, KeptStep
<1> QED BY <1>1, <1>4, <1>5

\* A reply is noted in its request.
LEMMA ReplyingKept ==
    ASSUME ServerInv, NEW r \in DOMAIN requests, NEW p \in requests[r].medias,
           NEW code \in Codes \cup {"none"}
    PROVE  /\ Typed(Replying(r, p, code)) /\ KeptIn(Replying(r, p, code), requests)
           /\ DOMAIN Replying(r, p, code) = DOMAIN requests
<1> DEFINE q == Replying(r, p, code)
           co == IF requests[r].conn = NoConn \/ code = "none" THEN requests[r].codes
                 ELSE requests[r].codes \cup {code}
           an == requests[r].answered \cup {p}
<1>1. requests[r] \in Request /\ Typed(requests)
  BY GoodTyped DEF ServerInv, Typed
<1>2. /\ DOMAIN q = DOMAIN requests
      /\ q[r] = [requests[r] EXCEPT !.answered = an, !.codes = co]
      /\ \A x \in DOMAIN requests : x # r => q[x] = requests[x]
  BY <1>1 DEF Replying, Request
<1>3. an \in SUBSET Medias /\ co \in SUBSET Codes
  BY <1>1 DEF Request
<1> HIDE DEF q, an, co
<1>4. q[r] \in Request /\ Kept(q[r], requests[r])
  BY <1>1, <1>2, <1>3 DEF Request, Kept
<1>5. Typed(q) /\ KeptIn(q, requests)
  BY <1>1, <1>2, <1>4 DEF Typed, KeptIn, Kept
<1> QED BY <1>2, <1>5 DEF q

\* A reply for one media.
LEMMA ReplyMediaKept ==
    ASSUME ServerInv, NEW r \in DOMAIN requests, NEW m, NEW p,
           NEW code \in Codes \cup {"none"}, reply_to_media(r, m, p, code)
    PROVE  KeepsRequests
<1> DEFINE q == requests[r]
           all == q.replied \cup {p} = q.medias
           sent == IF code = "2xx" /\ ~all THEN "none" ELSE code
           o == Replying(r, p, sent)
           re == IF code = "error" \/ q.conn = NoConn THEN o[r].replied
                 ELSE o[r].replied \cup {p}
           next == [o EXCEPT ![r].replied = re]
<1>1. /\ p \in q.medias /\ received' = received
      /\ requests' = next \/ Replied(next, r)
  BY DEF reply_to_media, MayReply
<1>2. Typed(o) /\ KeptIn(o, requests) /\ DOMAIN o = DOMAIN requests
  BY <1>1, ReplyingKept
<1> HIDE DEF o
<1>3. o[r] \in Request /\ re \in SUBSET Medias
  <2>1. o[r] \in Request /\ q \in Request
    BY <1>2, GoodTyped DEF Typed, ServerInv
  <2> QED BY <1>1, <2>1 DEF Request
<1> HIDE DEF re
<1>4. /\ DOMAIN next = DOMAIN requests
      /\ next[r] = [o[r] EXCEPT !.replied = re]
      /\ \A x \in DOMAIN requests : x # r => next[x] = o[x]
  BY <1>2
<1> HIDE DEF next
<1>5. next[r] \in Request /\ Kept(next[r], o[r])
  BY <1>3, <1>4 DEF Request, Kept
<1>6. Typed(next) /\ KeptIn(next, requests)
  BY <1>2, <1>4, <1>5, OneKept
<1> QED BY <1>1, <1>4, <1>6, RepliedKept, KeptStep

\* A reply to a SETUP.
LEMMA ReplySetupKept ==
    ASSUME ServerInv, NEW r \in DOMAIN requests, NEW p,
           NEW code \in Codes \cup {"none"}, reply_to_setup(r, p, code)
    PROVE  KeepsRequests
<1> DEFINE q == Replying(r, p, code)
           d == [q EXCEPT ![r].done = TRUE]
           o == pending_request_remove(q, r)
<1>1. /\ p \in requests[r].medias /\ received' = received
      /\ requests' = d \/ requests' = Remembered(o)
  BY DEF reply_to_setup, MayReply
<1>2. Typed(q) /\ KeptIn(q, requests) /\ DOMAIN q = DOMAIN requests
  BY <1>1, ReplyingKept
<1> HIDE DEF q
<1>3. CASE requests' = d
  <2>1. q[r] \in Request
    BY <1>2 DEF Typed
  <2>2. /\ DOMAIN d = DOMAIN q /\ d[r] = [q[r] EXCEPT !.done = TRUE]
        /\ \A x \in DOMAIN q : x # r => d[x] = q[x]
    BY <1>2
  <2> HIDE DEF d
  <2>3. d[r] \in Request /\ Kept(d[r], q[r])
    BY <2>1, <2>2 DEF Kept, Request
  <2>4. KeptIn(d, requests)
    BY <1>2, <2>2, <2>3, OneKept
  <2> QED BY <1>1, <1>3, <2>4, KeptStep
<1>4. CASE requests' = Remembered(o)
  <2>1. Later(o, q, {r}) /\ Typed(o)
    BY <1>2, RemoveLater, LaterTyped
  <2>2. Later(requests', o, {})
    BY <1>4, <2>1, RememberedLater
  <2> QED BY <1>1, <1>2, <2>1, <2>2, LaterKept, KeptStep
<1> QED BY <1>1, <1>3, <1>4

\* A reply that comes too late.
LEMMA LateReplyKept ==
    ASSUME ServerInv, NEW r \in DOMAIN requests, NEW p, LateReply(r, p)
    PROVE  KeepsRequests
<1> DEFINE q == [requests EXCEPT ![r].answered = @ \cup {p}]
<1>1. /\ received' = received
      /\ requests' = requests \/ requests' = Remembered(q)
  BY DEF LateReply
<1>2. requests[r] \in Request /\ p \in Medias /\ Typed(requests)
  BY GoodTyped DEF LateReply, MayReply, ServerInv, Typed, Request
<1>3. /\ DOMAIN q = DOMAIN requests
      /\ q[r] = [requests[r] EXCEPT !.answered = @ \cup {p}]
      /\ \A x \in DOMAIN requests : x # r => q[x] = requests[x]
  OBVIOUS
<1> HIDE DEF q
<1>4. q[r] \in Request /\ Kept(q[r], requests[r])
  BY <1>2, <1>3 DEF Kept, Request
<1>5. Typed(q) /\ KeptIn(q, requests)
  BY <1>2, <1>3, <1>4 DEF Typed, KeptIn, Kept
<1> QED BY <1>1, <1>5, RememberedLater, LaterKept, KeptStep, SameKept

\* Every step of the application.
LEMMA ApplicationKept ==
    ASSUME ServerInv, ApplicationNext
    PROVE  KeepsRequests
<1>1. ASSUME NEW r \in DOMAIN requests, NEW code,
             reply_to_describe(r, code) \/ reply_to_announce(r, code)
      PROVE  KeepsRequests
  <2>1. Replied(requests, r) /\ received' = received
    BY <1>1 DEF reply_to_describe, reply_to_announce, reply_sessionless
  <2>2. Typed(requests) /\ KeptIn(requests, requests)
    BY GoodTyped DEF ServerInv, KeptIn, Kept
  <2> QED BY <2>1, <2>2, RepliedKept
<1>2. ASSUME NEW r \in DOMAIN requests, NEW code \in Codes \cup {"none"}, NEW p,
             \/ reply_to_play(r, p, code) \/ reply_to_pause(r, p, code)
             \/ reply_to_record(r, p, code) \/ reply_to_teardown(r, p, code)
      PROVE  KeepsRequests
  BY <1>2, ReplyMediaKept DEF reply_to_play, reply_to_pause, reply_to_record,
     reply_to_teardown
<1>3. ASSUME NEW s, NEW t, force_teardown(s, t) PROVE KeepsRequests
  BY <1>3, FreedKept DEF force_teardown
<1>4. CASE Destroy
  BY <1>4, KeptStep DEF Destroy, KeptIn
<1> QED BY <1>1, <1>2, <1>3, <1>4, ReplySetupKept, LateReplyKept DEF ApplicationNext

\* Every step of the loop.
LEMMA LoopKept ==
    ASSUME ServerInv, LoopNext
    PROVE  KeepsRequests
<1>1. ASSUME NEW r, CallbackReturn(r) PROVE KeepsRequests
  <2>1. r \in DOMAIN requests /\ Typed(requests) /\ KeptIn(requests, requests)
    BY <1>1, GoodTyped DEF CallbackReturn, ServerInv, CallbackOK, KeptIn, Kept
  <2>2. received' = received /\ (requests' = requests \/ Finish(requests, r))
    BY <1>1 DEF CallbackReturn
  <2> QED BY <2>1, <2>2, FinishLater, LaterKept, KeptStep, SameKept
<1>2. ASSUME NEW k, RequestTimeout(k) PROVE KeepsRequests
  BY <1>2, KeptStep DEF RequestTimeout, Restrict, KeptIn, Kept
<1>3. ASSUME NEW s, SessionTimeout(s) \/ SessionRemoveIdle(s) PROVE KeepsRequests
  BY <1>3, FreedKept, SameKept DEF SessionTimeout, SessionRemoveIdle
<1>4. CASE Stopped
  BY <1>4, SameKept DEF Stopped, vars
<1> QED BY <1>1, <1>2, <1>3, <1>4 DEF LoopNext

\* Every step.
LEMMA NextKept == ASSUME ServerInv, Next PROVE KeepsRequests
BY ConnKept, ApplicationKept, LoopKept DEF Next

\* Whatever the clients, the application and the timers do, a request keeps
\* its number, method, session, medias and connection as long as anyone knows
\* of it, and a number is given once.
THEOREM RequestsKeptTheorem == Spec => [][KeepsRequests]_vars
<1>1. ServerInv /\ [Next]_vars => [KeepsRequests]_vars
  BY NextKept
<1> QED BY <1>1, ServerInvariant, PTL DEF Spec

(***************************************************************************)
(* What a session keeps                                                    *)
(***************************************************************************)

\* The medias a client may count on: those that are not being torn down.
Has(S, s) == S[s].medias \ S[s].tearing

\* Sessions may be removed; those that remain lose none of these medias.
KeepsMedias(S, T) ==
    /\ DOMAIN T \subseteq DOMAIN S
    /\ \A s \in DOMAIN T : Has(S, s) \subseteq Has(T, s)

\* Sessions that stay as they are.
LEMMA SameMedias == ASSUME UNCHANGED sessions PROVE KeepsMedias(sessions, sessions')
BY DEF KeepsMedias, Has

\* A session that is removed.
LEMMA RemoveMedias == ASSUME NEW s, session_remove(s) PROVE KeepsMedias(sessions, sessions')
<1>1. /\ DOMAIN sessions' = DOMAIN sessions \ {s}
      /\ \A x \in DOMAIN sessions' : sessions'[x] = sessions[x]
  BY DEF session_remove, Restrict
<1> QED BY <1>1 DEF KeepsMedias, Has

\* op_in_progress is reset.
LEMMA OpMedias ==
    ASSUME SessionsOK(sessions, created), NEW s,
           sessions' = [sessions EXCEPT ![s].op = "UNKNOWN"]
    PROVE  KeepsMedias(sessions, sessions')
<1>1. /\ DOMAIN sessions' = DOMAIN sessions
      /\ \A x \in DOMAIN sessions : /\ sessions'[x].medias = sessions[x].medias
                                    /\ sessions'[x].tearing = sessions[x].tearing
  BY DEF SessionsOK, Session
<1> QED BY <1>1 DEF KeepsMedias, Has

\* The end of a request: a TEARDOWN leaves what was not torn down.
LEMMA FinishMedias ==
    ASSUME SessionsOK(sessions, created), NEW q, NEW r, q[r].method \in Methods,
           Finish(q, r)
    PROVE  KeepsMedias(sessions, sessions')
<1> DEFINE s == q[r].session
           left == sessions[s].medias \ sessions[s].tearing
<1>1. CASE q[r].method \in Sessionless
  <2>1. UNCHANGED sessions
    BY <1>1 DEF Finish, Sessionless
  <2> QED BY <2>1, SameMedias
<1>2. CASE q[r].method \in {"SETUP", "PLAY", "PAUSE", "RECORD"}
  <2>1. sessions' = [sessions EXCEPT ![s].op = "UNKNOWN"]
    BY <1>2 DEF Finish, Sessionless
  <2> QED BY <2>1, OpMedias
<1>3. CASE q[r].method = "TEARDOWN"
  <2>1. IF left = {} THEN session_remove(s)
        ELSE sessions' = [sessions EXCEPT
                 ![s] = [op |-> "UNKNOWN", medias |-> left, tearing |-> {}]]
    BY <1>3 DEF Finish, Sessionless
  <2>2. CASE left # {}
    <3>1. /\ DOMAIN sessions' = DOMAIN sessions
          /\ \A x \in DOMAIN sessions :
                sessions'[x] = IF x = s
                               THEN [op |-> "UNKNOWN", medias |-> left, tearing |-> {}]
                               ELSE sessions[x]
      BY <2>1, <2>2
    <3> QED BY <3>1 DEF KeepsMedias, Has
  <2> QED BY <2>1, <2>2, RemoveMedias
<1> QED BY <1>1, <1>2, <1>3 DEF Methods, PerMedia

\* A request that has been replied to ends, now or once its callbacks have
\* returned.
LEMMA RepliedMedias ==
    ASSUME SessionsOK(sessions, created), NEW q, NEW r \in DOMAIN q,
           q[r] \in Request, Replied(q, r)
    PROVE  KeepsMedias(sessions, sessions')
<1> DEFINE d == [q EXCEPT ![r].done = TRUE]
<1>1. UNCHANGED sessions \/ Finish(d, r)
  BY DEF Replied
<1>2. d[r].method \in Methods
  BY DEF Request
<1> HIDE DEF d
<1> QED BY <1>1, <1>2, SameMedias, FinishMedias

\* A reply to PLAY, PAUSE, RECORD or TEARDOWN.
LEMMA ReplyMediaMedias ==
    ASSUME ServerInv, NEW r \in DOMAIN requests, NEW m, NEW p,
           NEW code \in Codes \cup {"none"}, reply_to_media(r, m, p, code)
    PROVE  KeepsMedias(sessions, sessions')
<1> DEFINE q == requests[r]
           all == q.replied \cup {p} = q.medias
           sent == IF code = "2xx" /\ ~all THEN "none" ELSE code
           o == Replying(r, p, sent)
           re == IF code = "error" \/ q.conn = NoConn THEN o[r].replied
                 ELSE o[r].replied \cup {p}
           next == [o EXCEPT ![r].replied = re]
<1>1. p \in q.medias /\ (UNCHANGED sessions \/ Replied(next, r))
  BY DEF reply_to_media, MayReply
<1>2. Typed(o) /\ DOMAIN o = DOMAIN requests
  BY <1>1, ReplyingKept
<1> HIDE DEF o
<1>3. o[r] \in Request /\ re \in SUBSET Medias
  <2>1. o[r] \in Request /\ q \in Request
    BY <1>2, GoodTyped DEF Typed, ServerInv
  <2> QED BY <1>1, <2>1 DEF Request
<1> HIDE DEF re
<1>4. r \in DOMAIN next /\ next[r] \in Request
  BY <1>2, <1>3 DEF Request
<1> HIDE DEF next
<1> QED BY <1>1, <1>4, SameMedias, RepliedMedias DEF ServerInv

\* A reply to SETUP.
LEMMA ReplySetupMedias ==
    ASSUME ServerInv, NEW r, NEW p, NEW code, reply_to_setup(r, p, code)
    PROVE  KeepsMedias(sessions, sessions')
<1>1. UNCHANGED sessions
      \/ sessions' = [sessions EXCEPT ![requests[r].session].op = "UNKNOWN"]
  BY DEF reply_to_setup
<1> QED BY <1>1, SameMedias, OpMedias DEF ServerInv

\* The steps of the loop.
LEMMA LoopMedias ==
    ASSUME ServerInv, LoopNext
    PROVE  KeepsMedias(sessions, sessions')
<1>1. ASSUME NEW r, CallbackReturn(r) PROVE KeepsMedias(sessions, sessions')
  <2>1. requests[r].method \in Methods
    BY <1>1 DEF CallbackReturn, ServerInv, CallbackOK, Good, RequestOK, Request
  <2>2. UNCHANGED sessions \/ Finish(requests, r)
    BY <1>1 DEF CallbackReturn
  <2> QED BY <2>1, <2>2, SameMedias, FinishMedias DEF ServerInv
<1>2. ASSUME NEW k, RequestTimeout(k) PROVE KeepsMedias(sessions, sessions')
  BY <1>2, SameMedias DEF RequestTimeout
<1>3. ASSUME NEW s, SessionTimeout(s) \/ SessionRemoveIdle(s)
      PROVE  KeepsMedias(sessions, sessions')
  BY <1>3, RemoveMedias, SameMedias DEF SessionTimeout, SessionRemoveIdle
<1>4. CASE Stopped
  BY <1>4, SameMedias DEF Stopped, vars
<1> QED BY <1>1, <1>2, <1>3, <1>4 DEF LoopNext

\* rtsp_server_force_teardown() of the whole session.
LEMMA ForceTeardownMedias ==
    ASSUME NEW s, force_teardown(s, AllPaths)
    PROVE  KeepsMedias(sessions, sessions')
BY RemoveMedias DEF force_teardown

(***************************************************************************)
(* Requests that overlap                                                   *)
(***************************************************************************)

\* What a step may do to the requests that wait, and to what the application
\* holds, whatever the clients send.
UnmarksOK ==
    \A r \in Unmarked' \ Unmarked :
        \E q \in PendingOn(requests'[r].session) :
           q \in DOMAIN requests' => ~requests'[q].pending
DropsOK ==
    \A h \in Dropped' \ Dropped :
        h[1] \in DOMAIN sessions /\ (h[2] \in sessions[h[1]].tearing \/ h[1] \in idle)

\* Requests p were requests q: none of them starts to wait.
Waited(p, q) ==
    \A r \in DOMAIN p :
        /\ r \in DOMAIN q /\ p[r].session = q[r].session
        /\ p[r].pending => q[r].pending
        /\ q[r].done => p[r].done

\* The sessions were there, and op_in_progress is not reset but for session s.
OpsKept(s) ==
    \A x \in DOMAIN sessions' :
        /\ x \in DOMAIN sessions
        /\ x # s /\ sessions'[x].op = "UNKNOWN" => sessions[x].op = "UNKNOWN"

\* A media that is dropped was being torn down, in a session that waits for
\* its removal, or is not held any more.
MediasKept ==
    \A s \in DOMAIN sessions \ idle : \A m \in sessions[s].medias \ sessions[s].tearing :
        (s \in DOMAIN sessions' /\ m \in sessions'[s].medias) \/ <<s, m>> \notin held'

\* Facts of the invariant that the steps need.
LEMMA SessionFacts ==
    ASSUME ServerInv
    PROVE  /\ NoSession \notin DOMAIN sessions /\ SessionsOK(sessions, created)
           /\ \A r \in DOMAIN requests : requests[r] \in Request
           /\ Typed(requests)
<1>1. SessionsOK(sessions, created) /\ created \subseteq SessionIds
  BY DEF ServerInv, Scalars
<1>2. NoSession \notin DOMAIN sessions
  BY <1>1, ServerAssumption DEF SessionsOK
<1>3. Good(requests, received, created, conns)
  BY DEF ServerInv
<1>4. \A r \in DOMAIN requests : requests[r] \in Request
  BY <1>3 DEF Good, RequestOK
<1>5. Typed(requests)
  BY <1>3, GoodTyped
<1> QED BY <1>1, <1>2, <1>4, <1>5

\* Requests later on were there before.
LEMMA LaterWaited ==
    ASSUME NEW p, NEW q, NEW o, NEW e, Later(p, q, e), Waited(q, o)
    PROVE  Waited(p, o)
BY DEF Later, Same, Waited

\* Requests that stay as they are.
LEMMA SameWaited == Waited(requests, requests)
BY DEF Waited

\* Nobody's op_in_progress is reset, or it is that of a session whose request
\* r was waiting and is over.
LEMMA UnmarksStep ==
    ASSUME Waited(requests', requests), NEW s, OpsKept(s),
           \/ s \notin DOMAIN sessions'
           \/ sessions'[s].op = "UNKNOWN" => sessions[s].op = "UNKNOWN"
           \/ \E r \in DOMAIN requests :
                 /\ requests[r].pending /\ requests[r].session = s
                 /\ r \in DOMAIN requests' => ~requests'[r].pending
    PROVE  UnmarksOK
<1> SUFFICES ASSUME NEW x \in Unmarked', x \notin Unmarked
             PROVE  \E q \in PendingOn(requests'[x].session) :
                       q \in DOMAIN requests' => ~requests'[q].pending
  BY DEF UnmarksOK
<1>1. /\ x \in DOMAIN requests' /\ requests'[x].pending /\ ~requests'[x].done
      /\ requests'[x].session \in DOMAIN sessions'
      /\ sessions'[requests'[x].session].op = "UNKNOWN"
  BY DEF Unmarked
<1>2. /\ x \in DOMAIN requests /\ requests[x].pending /\ ~requests[x].done
      /\ requests[x].session = requests'[x].session
  BY <1>1 DEF Waited
<1>3. requests'[x].session \in DOMAIN sessions /\ sessions[requests'[x].session].op # "UNKNOWN"
  BY <1>1, <1>2 DEF OpsKept, Unmarked
<1>4. requests'[x].session = s
  BY <1>1, <1>3 DEF OpsKept
<1>5. PICK r \in DOMAIN requests :
                 /\ requests[r].pending /\ requests[r].session = s
                 /\ r \in DOMAIN requests' => ~requests'[r].pending
  BY <1>1, <1>3, <1>4
<1> QED BY <1>1, <1>4, <1>5 DEF PendingOn

\* A step that leaves the sessions alone.
LEMMA UnmarksSame ==
    ASSUME Waited(requests', requests), UNCHANGED sessions
    PROVE  UnmarksOK
<1>1. OpsKept(NoSession)
  BY DEF OpsKept
<1> QED BY <1>1, UnmarksStep

\* A new request has op_in_progress set in its session, if it has one.
LEMMA UnmarksAdd ==
    ASSUME ServerInv, NEW c, NEW m, NEW s, NEW ps, received' = received + 1,
           requests' = pending_request_add(c, m, s, ps),
           \A x \in DOMAIN sessions' :
              x # s => x \in DOMAIN sessions /\ sessions'[x].op = sessions[x].op,
           s \in DOMAIN sessions' => sessions'[s].op # "UNKNOWN"
    PROVE  UnmarksOK
<1>1. received \in Nat /\ received + 1 \notin DOMAIN requests
  BY ServerAssumption DEF ServerInv, Good, Scalars
<1>2. /\ DOMAIN requests' = DOMAIN requests \cup {received + 1}
      /\ \A r \in DOMAIN requests : requests'[r] = requests[r]
      /\ requests'[received + 1].session = s
  BY <1>1 DEF pending_request_add
<1>3. Unmarked' \subseteq Unmarked
  <2> SUFFICES ASSUME NEW x \in Unmarked' PROVE x \in Unmarked
    OBVIOUS
  <2>1. /\ x \in DOMAIN requests' /\ requests'[x].pending /\ ~requests'[x].done
        /\ requests'[x].session \in DOMAIN sessions'
        /\ sessions'[requests'[x].session].op = "UNKNOWN"
    BY DEF Unmarked
  <2>2. x \in DOMAIN requests /\ requests'[x] = requests[x]
    BY <1>2, <2>1
  <2> QED BY <2>1, <2>2 DEF Unmarked
<1> QED BY <1>3 DEF UnmarksOK

\* A media that is dropped, or was never had, is one of those MediasKept and
\* the replies to SETUP name.
LEMMA DropsStep ==
    ASSUME ServerInv, MediasKept,
           \A h \in held' \ held : h[1] \in DOMAIN sessions' /\ h[2] \in sessions'[h[1]].medias
    PROVE  DropsOK
<1> SUFFICES ASSUME NEW h \in Dropped', h \notin Dropped
             PROVE  /\ h[1] \in DOMAIN sessions
                    /\ h[2] \in sessions[h[1]].tearing \/ h[1] \in idle
  BY DEF DropsOK
<1>1. h \in held' /\ ~(h[1] \in DOMAIN sessions' /\ h[2] \in sessions'[h[1]].medias)
  BY DEF Dropped
<1>2. h \in held
  BY <1>1
<1>3. h[1] \in DOMAIN sessions /\ h[2] \in sessions[h[1]].medias
  BY <1>2 DEF Dropped
<1>4. h = <<h[1], h[2]>>
  BY <1>2 DEF ServerInv, Scalars
<1> QED BY <1>1, <1>3, <1>4 DEF MediasKept

\* A step that takes no media from a session, and gives the application none.
LEMMA DropsSame ==
    ASSUME ServerInv, held' \subseteq held,
           \A s \in DOMAIN sessions : s \in DOMAIN sessions' /\ sessions[s].medias \subseteq sessions'[s].medias
    PROVE  DropsOK
<1>1. MediasKept
  BY DEF MediasKept
<1> QED BY <1>1, DropsStep

\* The medias of a session that is removed are not held any more, or it was to
\* be removed.
LEMMA RemovalOK ==
    ASSUME ServerInv, NEW s, NEW ms, session_remove(s), held' \subseteq held,
           requests' = Remembered(FreeMedias(requests, s, sessions[s].medias, ms)),
           s \in idle \/ held' = held \ ({s} \X sessions[s].medias)
    PROVE  UnmarksOK /\ DropsOK
<1>1. /\ DOMAIN sessions' = DOMAIN sessions \ {s}
      /\ \A x \in DOMAIN sessions' : sessions'[x] = sessions[x]
  BY DEF session_remove, Restrict
<1>2. Waited(requests', requests)
  <2> DEFINE f == FreeMedias(requests, s, sessions[s].medias, ms)
  <2>1. Later(f, requests, {}) /\ Typed(f)
    BY SessionFacts, FreeMediasLater, LaterTyped
  <2>2. Later(requests', f, {})
    BY <2>1, RememberedLater
  <2> HIDE DEF f
  <2> QED BY <2>1, <2>2, SameWaited, LaterWaited
<1>3. UnmarksOK
  <2>1. OpsKept(s) /\ s \notin DOMAIN sessions'
    BY <1>1 DEF OpsKept
  <2> QED BY <1>2, <2>1, UnmarksStep
<1>4. MediasKept
  <2> SUFFICES ASSUME NEW x \in DOMAIN sessions, x \notin idle,
                      NEW m \in sessions[x].medias \ sessions[x].tearing
               PROVE  (x \in DOMAIN sessions' /\ m \in sessions'[x].medias) \/ <<x, m>> \notin held'
    BY DEF MediasKept
  <2>1. CASE x = s
    BY <2>1
  <2>2. CASE x # s
    BY <1>1, <2>2
  <2> QED BY <2>1, <2>2
<1> QED BY <1>3, <1>4, DropsStep

\* The end of request r, which was waiting: its TEARDOWN drops what was being
\* torn down.
LEMMA FinishOK ==
    ASSUME ServerInv, NEW r \in DOMAIN requests, requests[r].pending, held' = held,
           NEW q, Typed(q), r \in DOMAIN q, q[r].session = requests[r].session,
           Waited(q, requests), Finish(q, r)
    PROVE  UnmarksOK /\ DropsOK
<1> DEFINE s == q[r].session
           left == sessions[s].medias \ sessions[s].tearing
<1>1. Later(requests', q, {r})
  BY FinishLater
<1>2. Waited(requests', requests) /\ (r \in DOMAIN requests' => ~requests'[r].pending)
  BY <1>1, LaterWaited DEF Later
<1>3. q[r].method \in Methods
  BY DEF Typed, Request
<1>4. CASE q[r].method \in Sessionless
  <2>1. UNCHANGED sessions
    BY <1>4 DEF Finish, Sessionless
  <2> QED BY <1>2, <2>1, UnmarksSame, DropsSame
<1>5. CASE q[r].method \in {"SETUP", "PLAY", "PAUSE", "RECORD"}
  <2>1. sessions' = [sessions EXCEPT ![s].op = "UNKNOWN"]
    BY <1>5 DEF Finish, Sessionless
  <2>2. /\ DOMAIN sessions' = DOMAIN sessions
        /\ \A x \in DOMAIN sessions : /\ sessions'[x].medias = sessions[x].medias
                                      /\ x # s => sessions'[x] = sessions[x]
    BY <2>1, SessionFacts DEF SessionsOK, Session
  <2>3. OpsKept(s)
    BY <2>2 DEF OpsKept
  <2> QED BY <1>2, <2>2, <2>3, UnmarksStep, DropsSame
<1>6. CASE q[r].method = "TEARDOWN"
  <2>1. IF left = {} THEN session_remove(s)
        ELSE sessions' = [sessions EXCEPT
                 ![s] = [op |-> "UNKNOWN", medias |-> left, tearing |-> {}]]
    BY <1>6 DEF Finish, Sessionless
  <2>2. /\ DOMAIN sessions' \subseteq DOMAIN sessions
        /\ \A x \in DOMAIN sessions : x # s => x \in DOMAIN sessions' /\ sessions'[x] = sessions[x]
        /\ s \in DOMAIN sessions => left = {} \/ (s \in DOMAIN sessions' /\ sessions'[s].medias = left)
    <3>1. CASE left = {}
      BY <2>1, <3>1 DEF session_remove, Restrict
    <3>2. CASE left # {}
      BY <2>1, <3>2
    <3> QED BY <3>1, <3>2
  <2>3. OpsKept(s)
    BY <2>2 DEF OpsKept
  <2>4. MediasKept
    <3> SUFFICES ASSUME NEW x \in DOMAIN sessions, NEW m \in sessions[x].medias \ sessions[x].tearing
                 PROVE  x \in DOMAIN sessions' /\ m \in sessions'[x].medias
      BY DEF MediasKept
    <3>1. CASE x = s
      BY <2>2, <3>1
    <3>2. CASE x # s
      BY <2>2, <3>2
    <3> QED BY <3>1, <3>2
  <2> QED BY <1>2, <2>3, <2>4, UnmarksStep, DropsStep
<1> QED BY <1>3, <1>4, <1>5, <1>6 DEF Methods, PerMedia

\* Every step of a connection.
LEMMA ConnOK ==
    ASSUME ServerInv, ConnNext
    PROVE  UnmarksOK /\ DropsOK
<1>1. PICK c \in Conns :
        \/ Connected(c) \/ Disconnected(c) \/ Options(c)
        \/ Describe(c) \/ AnnounceReq(c) \/ Unsupported(c)
        \/ \E s \in SessionIds, p \in Medias : SetupNew(c, s, p)
        \/ \E s \in SessionIds, p \in Medias : Setup(c, s, p)
        \/ \E s \in SessionIds : Play(c, s) \/ Pause(c, s) \/ Record(c, s)
        \/ \E s \in SessionIds, t \in Medias \cup {AllPaths, NoPath} : Teardown(c, s, t)
        \/ \E s \in SessionIds : GetParameter(c, s)
  BY DEF ConnNext
<1>2. ASSUME UNCHANGED <<requests, sessions>>, held' \subseteq held
      PROVE  UnmarksOK /\ DropsOK
  BY <1>2, SameWaited, UnmarksSame, DropsSame
<1>3. CASE Connected(c) \/ Options(c) \/ \E s \in SessionIds : GetParameter(c, s)
  BY <1>2, <1>3 DEF Connected, Options, GetParameter
<1>4. CASE Disconnected(c)
  <2>1. /\ DOMAIN requests' = DOMAIN requests /\ UNCHANGED <<sessions, held>>
        /\ \A r \in DOMAIN requests : requests'[r] = IF requests[r].conn = c
                       THEN [requests[r] EXCEPT !.conn = NoConn] ELSE requests[r]
    BY <1>4 DEF Disconnected
  <2>2. Waited(requests', requests)
    <3> SUFFICES ASSUME NEW r \in DOMAIN requests
                 PROVE  /\ requests'[r].session = requests[r].session
                        /\ requests'[r].pending = requests[r].pending
                        /\ requests'[r].done = requests[r].done
      BY <2>1 DEF Waited
    <3>1. requests[r] \in Request
      BY SessionFacts
    <3> QED BY <2>1, <3>1 DEF Request
  <2> QED BY <2>1, <2>2, UnmarksSame, DropsSame
<1>5. CASE Describe(c) \/ AnnounceReq(c) \/ Unsupported(c)
  <2>1. PICK m : SessionlessRequest(c, m)
    BY <1>5 DEF Describe, AnnounceReq, Unsupported
  <2>2. /\ requests' = pending_request_add(c, m, NoSession, {}) /\ received' = received + 1
        /\ UNCHANGED <<sessions, held>>
    BY <2>1 DEF SessionlessRequest
  <2> QED BY <2>2, SessionFacts, UnmarksAdd, DropsSame
<1>6. ASSUME NEW s \in SessionIds, NEW p \in Medias, SetupNew(c, s, p)
      PROVE  UnmarksOK /\ DropsOK
  <2>1. /\ requests' = pending_request_add(c, "SETUP", s, {p}) /\ received' = received + 1
        /\ held' = held /\ s \notin DOMAIN sessions
    BY <1>6, SessionFacts DEF SetupNew, Passed, SessionsOK
  <2>2. /\ DOMAIN sessions' = DOMAIN sessions \cup {s} /\ sessions'[s].op = "SETUP"
        /\ \A x \in DOMAIN sessions : x # s => sessions'[x] = sessions[x]
    BY <1>6 DEF SetupNew
  <2>3. UnmarksOK
    BY <2>1, <2>2, UnmarksAdd
  <2>4. DropsOK
    BY <2>1, <2>2, DropsSame
  <2> QED BY <2>3, <2>4
<1>7. ASSUME NEW s \in SessionIds, NEW p \in Medias, Setup(c, s, p)
      PROVE  UnmarksOK /\ DropsOK
  <2>1. held' = held
    BY <1>7 DEF Setup
  <2>2. CASE s \in DOMAIN sessions /\ p \notin sessions[s].medias
    <3>1. /\ requests' = pending_request_add(c, "SETUP", s, {p}) /\ received' = received + 1
          /\ sessions' = [sessions EXCEPT ![s].op = "SETUP", ![s].medias = @ \cup {p}]
      BY <1>7, <2>2 DEF Setup, Passed
    <3>2. /\ DOMAIN sessions' = DOMAIN sessions
          /\ \A x \in DOMAIN sessions : x # s => sessions'[x] = sessions[x]
          /\ sessions'[s].op = "SETUP" /\ sessions[s].medias \subseteq sessions'[s].medias
      BY <2>2, <3>1, SessionFacts DEF SessionsOK, Session
    <3>3. UnmarksOK
      BY <3>1, <3>2, UnmarksAdd
    <3>4. DropsOK
      BY <2>1, <3>2, DropsSame
    <3> QED BY <3>3, <3>4
  <2>3. CASE ~(s \in DOMAIN sessions /\ p \notin sessions[s].medias)
    BY <1>2, <1>7, <2>1, <2>3 DEF Setup
  <2> QED BY <2>2, <2>3
<1>8. ASSUME NEW s \in SessionIds, NEW m \in {"PLAY", "PAUSE", "RECORD"}, SessionRequest(c, m, s)
      PROVE  UnmarksOK /\ DropsOK
  <2>1. held' = held
    BY <1>8 DEF SessionRequest
  <2>2. CASE ~NotFound(s)
    <3>1. /\ requests' = pending_request_add(c, m, s, sessions[s].medias)
          /\ received' = received + 1
          /\ sessions' = [sessions EXCEPT ![s].op = m] /\ s \in DOMAIN sessions
      BY <1>8, <2>2 DEF SessionRequest, Passed, NotFound
    <3>2. /\ DOMAIN sessions' = DOMAIN sessions
          /\ \A x \in DOMAIN sessions : x # s => sessions'[x] = sessions[x]
          /\ sessions'[s].op = m /\ sessions[s].medias \subseteq sessions'[s].medias
      BY <3>1, SessionFacts DEF SessionsOK, Session
    <3>3. UnmarksOK
      BY <3>1, <3>2, UnmarksAdd
    <3>4. DropsOK
      BY <2>1, <3>2, DropsSame
    <3> QED BY <3>3, <3>4
  <2>3. CASE NotFound(s)
    BY <1>2, <1>8, <2>1, <2>3 DEF SessionRequest
  <2> QED BY <2>2, <2>3
<1>9. ASSUME NEW s \in SessionIds, NEW t, Teardown(c, s, t)
      PROVE  UnmarksOK /\ DropsOK
  <2>1. CASE ~NotFound(s)
    <3> DEFINE ps == TornDown(s, t)
    <3>1. /\ \/ requests' = requests
             \/ requests' = pending_request_add(c, "TEARDOWN", s, ps) /\ received' = received + 1
          /\ sessions' = [sessions EXCEPT ![s].op = "TEARDOWN", ![s].tearing = @ \cup ps]
          /\ s \in DOMAIN sessions /\ held' \subseteq held
      BY <1>9, <2>1 DEF Teardown, Passed, NotFound
    <3> HIDE DEF ps
    <3>2. /\ DOMAIN sessions' = DOMAIN sessions
          /\ \A x \in DOMAIN sessions : x # s => sessions'[x] = sessions[x]
          /\ sessions'[s].op = "TEARDOWN" /\ sessions[s].medias \subseteq sessions'[s].medias
      BY <3>1, SessionFacts DEF SessionsOK, Session
    <3>3. CASE requests' = requests
      <4>1. OpsKept(s)
        BY <3>2 DEF OpsKept
      <4> QED BY <3>1, <3>2, <3>3, <4>1, SameWaited, UnmarksStep, DropsSame
    <3>4. CASE requests' = pending_request_add(c, "TEARDOWN", s, ps) /\ received' = received + 1
      BY <3>1, <3>2, <3>4, UnmarksAdd, DropsSame
    <3> QED BY <3>1, <3>3, <3>4
  <2>2. CASE NotFound(s)
    BY <1>2, <1>9, <2>2 DEF Teardown
  <2> QED BY <2>1, <2>2
<1>10. CASE \E s \in SessionIds : Play(c, s) \/ Pause(c, s) \/ Record(c, s)
  BY <1>8, <1>10 DEF Play, Pause, Record
<1> QED BY <1>1, <1>3, <1>4, <1>5, <1>6, <1>7, <1>9, <1>10

\* A request r that has been replied to ends, now or when its callbacks have
\* returned: q are the requests with the reply.
LEMMA RepliedOK ==
    ASSUME ServerInv, NEW r \in DOMAIN requests, requests[r].pending, held' = held,
           NEW q, Typed(q), DOMAIN q = DOMAIN requests, q[r].session = requests[r].session,
           Waited(q, requests), Replied(q, r)
    PROVE  UnmarksOK /\ DropsOK
<1> DEFINE d == [q EXCEPT ![r].done = TRUE]
<1>1. IF cb = r THEN requests' = d /\ UNCHANGED sessions ELSE Finish(d, r)
  BY DEF Replied
<1>2. /\ DOMAIN d = DOMAIN q /\ d[r] = [q[r] EXCEPT !.done = TRUE]
      /\ \A x \in DOMAIN q : x # r => d[x] = q[x]
  OBVIOUS
<1> HIDE DEF d
<1>3. q[r] \in Request
  BY DEF Typed
<1>4. /\ d[r] \in Request /\ d[r].session = q[r].session /\ d[r].pending = q[r].pending
      /\ d[r].done
  <2>1. \A x \in Request : LET y == [x EXCEPT !.done = TRUE]
                           IN  /\ y \in Request /\ y.session = x.session
                               /\ y.pending = x.pending /\ y.done
    BY DEF Request
  <2> QED BY <1>2, <1>3, <2>1
<1>5. Typed(d) /\ Waited(d, requests)
  BY <1>2, <1>4 DEF Typed, Waited
<1>6. CASE cb = r
  BY <1>1, <1>5, <1>6, UnmarksSame, DropsSame
<1>7. CASE cb # r
  BY <1>1, <1>2, <1>4, <1>5, <1>7, FinishOK
<1> QED BY <1>6, <1>7

\* A reply is noted in a request that is as it was otherwise.
LEMMA ReplyingWaited ==
    ASSUME ServerInv, NEW r \in DOMAIN requests, NEW p \in requests[r].medias,
           NEW code \in Codes \cup {"none"}
    PROVE  LET q == Replying(r, p, code)
           IN  /\ Typed(q) /\ DOMAIN q = DOMAIN requests /\ Waited(q, requests)
               /\ q[r].session = requests[r].session /\ q[r] \in Request
               /\ q[r].replied = requests[r].replied
<1> DEFINE q == Replying(r, p, code)
           co == IF requests[r].conn = NoConn \/ code = "none" THEN requests[r].codes
                 ELSE requests[r].codes \cup {code}
           an == requests[r].answered \cup {p}
<1>1. requests[r] \in Request
  BY SessionFacts
<1>2. /\ DOMAIN q = DOMAIN requests
      /\ q[r] = [requests[r] EXCEPT !.answered = an, !.codes = co]
      /\ \A x \in DOMAIN requests : x # r => q[x] = requests[x]
  BY <1>1 DEF Replying, Request
<1>3. Typed(q) /\ q[r] \in Request
  BY <1>2, ReplyingKept DEF Typed
<1> HIDE DEF q, an, co
<1>4. /\ q[r].session = requests[r].session /\ q[r].pending = requests[r].pending
      /\ q[r].done = requests[r].done /\ q[r].replied = requests[r].replied
  BY <1>1, <1>2 DEF Request
<1>5. Waited(q, requests)
  BY <1>2, <1>4 DEF Waited
<1> QED BY <1>2, <1>3, <1>4, <1>5 DEF q

\* A reply for one media.
LEMMA ReplyMediaOK ==
    ASSUME ServerInv, NEW r \in DOMAIN requests, NEW m, NEW p,
           NEW code \in Codes \cup {"none"}, reply_to_media(r, m, p, code)
    PROVE  UnmarksOK /\ DropsOK
<1> DEFINE q == requests[r]
           all == q.replied \cup {p} = q.medias
           sent == IF code = "2xx" /\ ~all THEN "none" ELSE code
           o == Replying(r, p, sent)
           re == IF code = "error" \/ q.conn = NoConn THEN o[r].replied
                 ELSE o[r].replied \cup {p}
           next == [o EXCEPT ![r].replied = re]
<1>1. /\ p \in q.medias /\ q.pending /\ held' = held
      /\ (requests' = next /\ UNCHANGED sessions) \/ Replied(next, r)
  BY DEF reply_to_media, MayReply
<1>2. /\ Typed(o) /\ DOMAIN o = DOMAIN requests /\ Waited(o, requests)
      /\ o[r].session = requests[r].session /\ o[r] \in Request
      /\ o[r].replied = requests[r].replied
  BY <1>1, ReplyingWaited
<1> HIDE DEF o
<1>3. re \in SUBSET Medias
  <2>1. q \in Request
    BY SessionFacts
  <2> QED BY <1>1, <1>2, <2>1 DEF Request
<1> HIDE DEF re
<1>4. /\ DOMAIN next = DOMAIN requests
      /\ next[r] = [o[r] EXCEPT !.replied = re]
      /\ \A x \in DOMAIN requests : x # r => next[x] = o[x]
  BY <1>2
<1> HIDE DEF next
<1>5. /\ next[r] \in Request /\ next[r].session = o[r].session
      /\ next[r].pending = o[r].pending /\ next[r].done = o[r].done
  BY <1>2, <1>3, <1>4 DEF Request
<1>6. Typed(next) /\ Waited(next, requests)
  BY <1>2, <1>4, <1>5 DEF Typed, Waited
<1>7. CASE requests' = next /\ UNCHANGED sessions
  BY <1>1, <1>6, <1>7, UnmarksSame, DropsSame
<1>8. CASE Replied(next, r)
  BY <1>1, <1>2, <1>4, <1>5, <1>6, <1>8, RepliedOK
<1> QED BY <1>1, <1>7, <1>8

\* A reply to a SETUP: what the application accepts is there.
LEMMA ReplySetupOK ==
    ASSUME ServerInv, NEW r \in DOMAIN requests, NEW p,
           NEW code \in Codes \cup {"none"}, reply_to_setup(r, p, code)
    PROVE  UnmarksOK /\ DropsOK
<1> DEFINE s == requests[r].session
           q == Replying(r, p, code)
           d == [q EXCEPT ![r].done = TRUE]
           o == pending_request_remove(q, r)
<1>1. /\ MayReply(r, p) /\ requests[r].pending /\ p \notin requests[r].freed
      /\ p \in requests[r].medias /\ held' \subseteq held \cup {<<s, p>>}
      /\ \/ requests' = d /\ UNCHANGED sessions
         \/ requests' = Remembered(o) /\ sessions' = [sessions EXCEPT ![s].op = "UNKNOWN"]
  BY DEF reply_to_setup, MayReply
<1>2. s \in DOMAIN sessions /\ p \in sessions[s].medias
  BY <1>1, RepliesToLive
<1>3. /\ Typed(q) /\ DOMAIN q = DOMAIN requests /\ Waited(q, requests)
      /\ q[r].session = requests[r].session /\ q[r] \in Request
  BY <1>1, ReplyingWaited
<1> HIDE DEF q
<1>4. /\ DOMAIN sessions' = DOMAIN sessions
      /\ \A x \in DOMAIN sessions : /\ sessions'[x].medias = sessions[x].medias
                                    /\ x # s => sessions'[x] = sessions[x]
  BY <1>1, SessionFacts DEF SessionsOK, Session
<1>5. DropsOK
  <2>1. MediasKept
    BY <1>4 DEF MediasKept
  <2>2. \A h \in held' \ held : h[1] \in DOMAIN sessions' /\ h[2] \in sessions'[h[1]].medias
    BY <1>1, <1>2, <1>4
  <2> QED BY <2>1, <2>2, DropsStep
<1>6. CASE requests' = d /\ UNCHANGED sessions
  <2>1. /\ DOMAIN d = DOMAIN q /\ d[r] = [q[r] EXCEPT !.done = TRUE]
        /\ \A x \in DOMAIN q : x # r => d[x] = q[x]
    BY <1>3
  <2> HIDE DEF d
  <2>2. d[r].session = q[r].session /\ d[r].pending = q[r].pending /\ d[r].done
    BY <1>3, <2>1 DEF Request
  <2>3. Waited(d, requests)
    BY <1>3, <2>1, <2>2 DEF Waited
  <2> QED BY <1>5, <1>6, <2>3, UnmarksSame
<1>7. CASE requests' = Remembered(o) /\ sessions' = [sessions EXCEPT ![s].op = "UNKNOWN"]
  <2>1. Later(o, q, {r}) /\ Typed(o)
    BY <1>3, RemoveLater, LaterTyped
  <2>2. Later(requests', o, {})
    BY <1>7, <2>1, RememberedLater
  <2> HIDE DEF o
  <2>3. Waited(requests', requests) /\ (r \in DOMAIN requests' => ~requests'[r].pending)
    <3>1. Waited(o, requests)
      BY <1>3, <2>1, LaterWaited
    <3>2. Waited(requests', requests)
      BY <2>2, <3>1, LaterWaited
    <3> QED BY <2>1, <2>2, <3>2 DEF Later
  <2>4. OpsKept(s)
    BY <1>4 DEF OpsKept
  <2>5. UnmarksOK
    BY <1>1, <2>3, <2>4, UnmarksStep
  <2> QED BY <1>5, <2>5
<1> QED BY <1>1, <1>6, <1>7

\* A reply that comes too late.
LEMMA LateReplyOK ==
    ASSUME ServerInv, NEW r \in DOMAIN requests, NEW p, LateReply(r, p)
    PROVE  UnmarksOK /\ DropsOK
<1> DEFINE q == [requests EXCEPT ![r].answered = @ \cup {p}]
<1>1. /\ UNCHANGED <<sessions, held>>
      /\ requests' = requests \/ requests' = Remembered(q)
  BY DEF LateReply
<1>2. requests[r] \in Request /\ p \in Medias
  BY SessionFacts DEF LateReply, MayReply, Request
<1>3. /\ DOMAIN q = DOMAIN requests
      /\ q[r] = [requests[r] EXCEPT !.answered = @ \cup {p}]
      /\ \A x \in DOMAIN requests : x # r => q[x] = requests[x]
  OBVIOUS
<1> HIDE DEF q
<1>4. /\ q[r] \in Request /\ q[r].session = requests[r].session
      /\ q[r].pending = requests[r].pending /\ q[r].done = requests[r].done
  BY <1>2, <1>3 DEF Request
<1>5. Typed(q) /\ Waited(q, requests)
  BY <1>3, <1>4, SessionFacts DEF Typed, Waited
<1>6. Waited(requests', requests)
  BY <1>1, <1>5, SameWaited, RememberedLater, LaterWaited
<1> QED BY <1>1, <1>6, UnmarksSame, DropsSame

\* A forced teardown tells the application of all it frees.
LEMMA ForceTeardownOK ==
    ASSUME ServerInv, NEW s, NEW t, force_teardown(s, t)
    PROVE  UnmarksOK /\ DropsOK
<1>1. s \in DOMAIN sessions
  BY DEF force_teardown
<1>2. CASE t = AllPaths
  <2>1. /\ requests' = Remembered(FreeMedias(requests, s, sessions[s].medias, Methods))
        /\ session_remove(s) /\ held' = held \ ({s} \X sessions[s].medias)
    BY <1>2 DEF force_teardown
  <2> QED BY <2>1, RemovalOK
<1>3. CASE t # AllPaths
  <2> DEFINE f == FreeMedias(requests, s, {t}, Methods)
  <2>1. /\ requests' = Remembered(f) /\ held' = held \ ({s} \X {t})
        /\ sessions' = [sessions EXCEPT ![s].medias = @ \ {t}, ![s].tearing = @ \ {t}]
    BY <1>3 DEF force_teardown
  <2>2. Later(f, requests, {}) /\ Typed(f)
    BY SessionFacts, FreeMediasLater, LaterTyped
  <2> HIDE DEF f
  <2>3. Waited(requests', requests)
    BY <2>1, <2>2, RememberedLater, SameWaited, LaterWaited
  <2>4. /\ DOMAIN sessions' = DOMAIN sessions
        /\ \A x \in DOMAIN sessions : x # s => sessions'[x] = sessions[x]
        /\ sessions'[s].op = sessions[s].op /\ sessions'[s].medias = sessions[s].medias \ {t}
    BY <1>1, <2>1, SessionFacts DEF SessionsOK, Session
  <2>5. OpsKept(s)
    BY <2>4 DEF OpsKept
  <2>6. MediasKept
    <3> SUFFICES ASSUME NEW x \in DOMAIN sessions, NEW m \in sessions[x].medias
                 PROVE  (x \in DOMAIN sessions' /\ m \in sessions'[x].medias) \/ <<x, m>> \notin held'
      BY DEF MediasKept
    <3>1. CASE x = s /\ m = t
      BY <2>1, <3>1
    <3>2. CASE ~(x = s /\ m = t)
      BY <2>4, <3>2
    <3> QED BY <3>1, <3>2
  <2>7. UnmarksOK
    BY <2>3, <2>4, <2>5, UnmarksStep
  <2>8. DropsOK
    BY <2>1, <2>6, DropsStep
  <2> QED BY <2>7, <2>8
<1> QED BY <1>2, <1>3

\* Every step of the application.
LEMMA ApplicationOK ==
    ASSUME ServerInv, ApplicationNext
    PROVE  UnmarksOK /\ DropsOK
<1>1. ASSUME NEW r \in DOMAIN requests, NEW m \in {"DESCRIBE", "ANNOUNCE"}, NEW code,
             reply_sessionless(r, m, code)
      PROVE  UnmarksOK /\ DropsOK
  <2> DEFINE d == [requests EXCEPT ![r].done = TRUE]
  <2>1. /\ requests[r].method = m /\ held' = held
        /\ IF cb = r THEN requests' = d /\ UNCHANGED sessions ELSE Finish(d, r)
    BY <1>1 DEF reply_sessionless, Replied
  <2>2. /\ DOMAIN d = DOMAIN requests /\ d[r] = [requests[r] EXCEPT !.done = TRUE]
        /\ \A x \in DOMAIN requests : x # r => d[x] = requests[x]
    OBVIOUS
  <2> HIDE DEF d
  <2>3. requests[r] \in Request
    BY SessionFacts
  <2>4. /\ d[r] \in Request /\ d[r].session = requests[r].session /\ d[r].method = m
        /\ d[r].pending = requests[r].pending /\ d[r].done
    BY <2>1, <2>2, <2>3 DEF Request
  <2>5. Typed(d) /\ Waited(d, requests)
    BY <2>2, <2>4, SessionFacts DEF Typed, Waited
  <2>6. CASE cb = r
    BY <2>1, <2>5, <2>6, UnmarksSame, DropsSame
  <2>7. CASE cb # r
    <3>1. Later(requests', d, {r})
      BY <2>1, <2>2, <2>5, <2>7, FinishLater
    <3>2. UNCHANGED sessions
      BY <2>1, <2>4, <2>7 DEF Finish, Sessionless
    <3> QED BY <2>1, <2>5, <3>1, <3>2, LaterWaited, UnmarksSame, DropsSame
  <2> QED BY <2>6, <2>7
<1>2. ASSUME NEW r \in DOMAIN requests, NEW code \in Codes \cup {"none"}, NEW p,
             \/ reply_to_play(r, p, code) \/ reply_to_pause(r, p, code)
             \/ reply_to_record(r, p, code) \/ reply_to_teardown(r, p, code)
      PROVE  UnmarksOK /\ DropsOK
  BY <1>2, ReplyMediaOK DEF reply_to_play, reply_to_pause, reply_to_record,
     reply_to_teardown
<1>3. CASE Destroy
  <2>1. DOMAIN requests' = {} /\ held' = {}
    BY <1>3 DEF Destroy
  <2>2. Unmarked' = {} /\ Dropped' = {}
    BY <2>1 DEF Unmarked, Dropped
  <2> QED BY <2>2 DEF UnmarksOK, DropsOK
<1>4. ASSUME NEW r \in DOMAIN requests, NEW code,
             reply_to_describe(r, code) \/ reply_to_announce(r, code)
      PROVE  UnmarksOK /\ DropsOK
  BY <1>1, <1>4 DEF reply_to_describe, reply_to_announce
<1> QED BY <1>2, <1>3, <1>4, ReplySetupOK, LateReplyOK, ForceTeardownOK DEF ApplicationNext

\* Every step of the loop.
LEMMA LoopOK ==
    ASSUME ServerInv, LoopNext
    PROVE  UnmarksOK /\ DropsOK
<1>1. ASSUME NEW r, CallbackReturn(r) PROVE UnmarksOK /\ DropsOK
  <2>1. r \in DOMAIN requests /\ requests[r].pending /\ held' = held
    BY <1>1 DEF CallbackReturn, ServerInv, CallbackOK
  <2>2. UNCHANGED <<requests, sessions>> \/ Finish(requests, r)
    BY <1>1 DEF CallbackReturn
  <2>3. CASE UNCHANGED <<requests, sessions>>
    BY <2>1, <2>3, SameWaited, UnmarksSame, DropsSame
  <2>4. CASE Finish(requests, r)
    BY <2>1, <2>4, SessionFacts, SameWaited, FinishOK
  <2> QED BY <2>2, <2>3, <2>4
<1>2. ASSUME NEW k, RequestTimeout(k) PROVE UnmarksOK /\ DropsOK
  <2>1. UNCHANGED <<sessions, held>>
    BY <1>2 DEF RequestTimeout
  <2>2. Waited(requests', requests)
    BY <1>2 DEF RequestTimeout, Restrict, Waited
  <2> QED BY <2>1, <2>2, UnmarksSame, DropsSame
<1>3. ASSUME NEW s, SessionTimeout(s) PROVE UnmarksOK /\ DropsOK
  <2>1. /\ session_remove(s) /\ held' = held \ ({s} \X sessions[s].medias)
        /\ requests' = Remembered(FreeMedias(requests, s, sessions[s].medias, Methods))
    BY <1>3 DEF SessionTimeout
  <2> QED BY <2>1, RemovalOK
<1>4. ASSUME NEW s, SessionRemoveIdle(s) PROVE UnmarksOK /\ DropsOK
  <2>1. s \in idle /\ s \in DOMAIN sessions /\ held' = held
    BY <1>4 DEF SessionRemoveIdle, ServerInv, IdleIsLive
  <2>2. /\ requests' = Remembered(FreeMedias(requests, s, sessions[s].medias, {}))
        /\ session_remove(s)
    BY <1>4, <2>1 DEF SessionRemoveIdle
  <2> QED BY <2>1, <2>2, RemovalOK
<1>5. CASE Stopped
  BY <1>5, SameWaited, UnmarksSame, DropsSame DEF Stopped, vars
<1> QED BY <1>1, <1>2, <1>3, <1>4, <1>5 DEF LoopNext

\* Every step.
LEMMA OverlapStep ==
    ASSUME ServerInv, [Next]_vars
    PROVE  [UnmarksOK]_vars /\ [DropsOK]_vars
BY ConnOK, ApplicationOK, LoopOK DEF Next

\* Whatever the clients send, a request that waits for the application loses the
\* op_in_progress that keeps rtsp_server_force_teardown() away from it only by the
\* end of another request of its session that was waiting as well.
THEOREM UnmarkTheorem == Spec => OnlyOverlapUnmarks
<1>1. ServerInv /\ [Next]_vars => [UnmarksOK]_vars
  BY OverlapStep
<1>2. [UnmarksOK]_vars =>
      [\A r \in Unmarked' \ Unmarked :
          \E q \in PendingOn(requests'[r].session) :
             q \in DOMAIN requests' => ~requests'[q].pending]_vars
  BY DEF UnmarksOK
<1> QED BY <1>1, <1>2, ServerInvariant, PTL DEF Spec, OnlyOverlapUnmarks

\* Whatever the clients send, the server drops a media the application holds only
\* if the TEARDOWN callback for it came before it was accepted, or its session
\* waits for the removal a failed SETUP has scheduled.
THEOREM DropTheorem == Spec => OnlyOverlapDrops
<1>1. ServerInv /\ [Next]_vars => [DropsOK]_vars
  BY OverlapStep
<1>2. [DropsOK]_vars =>
      [\A h \in Dropped' \ Dropped :
          /\ h[1] \in DOMAIN sessions
          /\ h[2] \in sessions[h[1]].tearing \/ h[1] \in idle]_vars
  BY DEF DropsOK
<1> QED BY <1>1, <1>2, ServerInvariant, PTL DEF Spec, OnlyOverlapDrops

=============================================================================
