----------------------------- MODULE RtspSystem -----------------------------
(***************************************************************************)
(* A librtsp client connected to a librtsp server: RtspClient and          *)
(* RtspServer, whose messages travel over TCP.                             *)
(*                                                                         *)
(* Where RtspClient lets a server answer anything in any order, here the   *)
(* answers are those of RtspServer: each with the CSeq of its request, 454 *)
(* for a session the server does not have, and TEARDOWN requests of the    *)
(* server's own in between.  A connection keeps the order of the messages, *)
(* until either end closes it and the rest is lost.                        *)
(*                                                                         *)
(* The application of the client waits for the response callback before    *)
(* its next request, and tears down what it has; it gives no timeout, and  *)
(* may cancel.  The one of the server does not reply to a request that has *)
(* ended.  PLAY stands for PAUSE and RECORD; requests without a session    *)
(* (OPTIONS, DESCRIBE, ANNOUNCE) are left to RtspClient and RtspServer.    *)
(***************************************************************************)
EXTENDS Naturals, Sequences, FiniteSets

CONSTANTS
    SessionIds, Medias, NoSession, NoMedia, Conns, NoConn,
    MaxFailedKeepAlive, MaxFailedRequests,
    Forced,             \* what the application of the server tears down by
                        \* force: medias, or "all" of a session
    MaxCseq,            \* bound: CSeq numbers used
    MaxAccepts          \* bound: connections accepted

ASSUME SystemAssumption ==
    /\ NoSession \notin SessionIds /\ NoMedia \notin Medias /\ NoConn \notin Conns
    /\ IsFiniteSet(Medias) /\ {"all", "none"} \cap Medias = {}
    /\ MaxFailedKeepAlive \in Nat \ {0} /\ MaxFailedRequests \in Nat \ {0}
    /\ Forced \subseteq Medias \cup {"all"}
    /\ MaxCseq \in Nat \ {0} /\ MaxAccepts \in Nat

VARIABLES
    client,                                         \* RtspClient
    conns, sessions, idle, requests, cb, status,    \* RtspServer
    accepted, received, created, known, held, out,
    link,       \* the connection of the client: the number of its accept, or 0
    up,         \* messages sent on each connection, not read by the server
    down,       \* messages of the server on link, not read by the client
    asked       \* the client's request behind each request of the server

serverVars == <<conns, sessions, idle, requests, cb, status, accepted,
                received, created, known, held, out>>
netVars == <<link, up, down, asked>>
vars == <<client, serverVars, netVars>>

\* A client sends no more requests than MaxCseq - 1; each may reach the
\* application of the server.
C == INSTANCE RtspClient WITH
        SendResults <- {"OK"}, PublicMethods <- {}, MaxLookups <- 1
S == INSTANCE RtspServer WITH
        MaxRequests <- MaxCseq - 1

Links == 1..MaxAccepts

Message == [type : {"response"}, request : C!Request,
            code : {"2xx", "454", "other"}, session : C!SessionOrNone]
           \cup [type : {"TEARDOWN"}, session : SessionIds,
                 media : C!MediaOrNone]

\* Types; each message the server reads was sent by the client.
TypeOK ==
    /\ C!TypeOK
    /\ S!TypeOK
    /\ link \in Links \cup {0}
    /\ up \in [Links -> Seq(C!Request)]
    /\ down \in Seq(Message)
    /\ DOMAIN asked \subseteq S!RequestIds
    /\ \A r \in DOMAIN asked : asked[r] \in C!Request

Init ==
    /\ C!Init /\ S!Init
    /\ link = 0 /\ up = [n \in Links |-> << >>] /\ down = << >>
    /\ asked = << >>

(***************************************************************************)
(* The client                                                              *)
(***************************************************************************)

\* The client's connection is open at the server.
LinkOpen == S!Running /\ link \in {conns[c] : c \in DOMAIN conns}

\* What a step of the client sends: nothing, or the header in the slot.
Sent == IF client'.wire \subseteq client.wire THEN << >> ELSE <<client'.request>>

\* A step of the client: what it sends goes to its connection, and is lost if
\* the other end has been closed.
Sends ==
    /\ up' = [n \in Links |-> IF n = link /\ LinkOpen THEN up[n] \o Sent
                              ELSE up[n]]
    /\ UNCHANGED <<serverVars, link, down, asked>>

\* The client has closed its connection, or has found it closed.
Closes ==
    /\ link' = 0 /\ down' = << >>
    /\ UNCHANGED <<serverVars, up, asked>>

\* Bound: the server has an id left for the session of another SETUP.
SessionIdLeft ==
    /\ created # SessionIds
    /\ \A n \in Links : \A i \in DOMAIN up[n] :
          ~(up[n][i].method = "SETUP" /\ up[n][i].session = NoSession)

\* A call of the application, once its last request has been answered.
Request ==
    /\ client.owed = {}
    /\ \/ SessionIdLeft /\ \E md \in Medias : C!Setup(NoSession, md, "OK", FALSE)
       \/ \E s \in client.sessions, md \in Medias : C!Setup(s, md, "OK", FALSE)
       \/ \E s \in client.sessions : C!Play(s, "OK", FALSE)
       \/ \E s \in client.sessions : \E md \in client.medias[s] \cup {NoMedia} :
             C!Teardown(s, md, "OK", FALSE)
    /\ Sends

Cancel == C!Cancel /\ Sends
KeepAliveTimer(s) == C!KeepAliveTimer(s, "OK") /\ Sends

\* The timeout that makes the client connect again closes the connection.
ResponseTimeout ==
    /\ C!ResponseTimeout("OK", TRUE)
    /\ IF client'.sock THEN Sends ELSE Closes

\* The url is resolved before the client connects.
Connect == C!Connect("OK") /\ UNCHANGED <<serverVars, netVars>>
ResolvDone(ok) == C!ResolvDone(ok) /\ UNCHANGED <<serverVars, netVars>>
ResolvTimeout == C!ResolvTimeout /\ UNCHANGED <<serverVars, netVars>>
Disconnect == C!Disconnect /\ Closes

\* Both ends learn of the connection.
Connected(c) ==
    /\ \E failed \in SUBSET client.sessions, first \in C!SessionOrNone :
          C!SocketConnected(failed, first, "OK")
    /\ S!Connected(c)
    /\ link' = accepted'
    /\ up' = [up EXCEPT ![accepted'] = Sent]
    /\ down' = << >> /\ UNCHANGED asked

(***************************************************************************)
(* The connection                                                          *)
(***************************************************************************)

\* The client finds its connection closed, by the server or on the way.
ClientLoses == C!SocketDisconnected /\ Closes

\* The server finds a connection closed.
ServerLoses(c) ==
    /\ S!Disconnected(c)
    /\ up' = [up EXCEPT ![conns[c]] = << >>]
    /\ UNCHANGED <<client, link, down, asked>>

\* The client reads a response; s is the session that takes a late one for
\* the answer to its keep-alive.
ReceiveResponse(d, s) ==
    /\ IF client.keep_alive = {} THEN s = NoSession ELSE s \in client.keep_alive
    /\ C!Becomes([C!response_process(client, d.request.cseq,
                     [code |-> d.code, session |-> d.session, public |-> {}], s)
                    EXCEPT !.wire = @ \ {d.request}])

\* The client reads a message; a TEARDOWN of a session it does not have is
\* refused.
Receive ==
    /\ down # << >>
    /\ LET d == Head(down)
       IN  IF d.type = "response"
           THEN \E s \in C!SessionOrNone : ReceiveResponse(d, s)
           ELSE \/ C!ServerTeardown(d.session, d.media)
                \/ d.session \notin client.sessions /\ UNCHANGED client
    /\ down' = Tail(down)
    /\ UNCHANGED <<serverVars, link, up, asked>>

(***************************************************************************)
(* The server                                                              *)
(***************************************************************************)

\* The response to the client's request m, with the session if it succeeds;
\* s is the session the server has, or had, for it.
ResponseTo(m, s, code) ==
    [type |-> "response", request |-> m, code |-> code,
     session |-> IF code = "2xx" THEN s ELSE NoSession]

\* A message is sent, if there is a client at the other end of connection n.
Deliver(n, msg) == down' = IF n = link /\ n # 0 THEN Append(down, msg) ELSE down

\* The code of an error response that a handler sends.
ErrorCode(m) ==
    IF \/ m.session \notin DOMAIN sessions
       \/ m.method # "SETUP" /\ S!NotFound(m.session)
    THEN "454" ELSE "other"

\* rtsp_server_request_process() of a message of the client: the handler of
\* its method, for the whole session if it names no media.
request_process(c, m) ==
    \/ /\ m.method = "SETUP"
       /\ IF m.session = NoSession
          THEN \E s \in SessionIds : S!SetupNew(c, s, m.media)
          ELSE S!Setup(c, m.session, m.media)
    \/ m.method = "PLAY" /\ S!Play(c, m.session)
    \/ /\ m.method = "TEARDOWN"
       /\ S!Teardown(c, m.session, IF m.media = NoMedia THEN S!AllPaths ELSE m.media)
    \/ m.method = "GET_PARAMETER" /\ S!GetParameter(c, m.session)

Serve(c) ==
    /\ c \in DOMAIN conns /\ up[conns[c]] # << >>
    /\ LET n == conns[c]
           m == Head(up[n])
       IN  /\ request_process(c, m)
           /\ up' = [up EXCEPT ![n] = Tail(@)]
           /\ asked' = IF received' = received THEN asked
                       ELSE [r \in DOMAIN asked \cup {received'} |->
                                IF r = received' THEN m ELSE asked[r]]
           /\ \/ out' = {} /\ UNCHANGED down
              \/ \E o \in out' :
                    Deliver(n, ResponseTo(m, m.session,
                                  IF o.code = "2xx" THEN "2xx" ELSE ErrorCode(m)))
    /\ UNCHANGED <<client, link>>

\* The application of the server replies to request r.
Reply(r) ==
    /\ r \in DOMAIN requests
    /\ \E code \in S!Codes :
          \E p \in requests[r].medias :
              \/ S!reply_to_setup(r, p, code)
              \/ S!reply_to_play(r, p, code)
              \/ S!reply_to_teardown(r, p, code)
    /\ \/ out' = {} /\ UNCHANGED down
       \/ \E o \in out' :
             Deliver(o.from, ResponseTo(asked[r], requests[r].session,
                                 IF o.code = "2xx" THEN "2xx" ELSE "other"))
    /\ UNCHANGED <<client, link, up, asked>>

CallbackReturn == (\E r \in S!RequestIds : S!CallbackReturn(r)) /\ UNCHANGED <<client, netVars>>

\* The reply timer answers the late requests, oldest first.
RequestTimeout ==
    /\ \E k \in S!RequestIds :
          /\ S!RequestTimeout(k)
          /\ LET late == {r \in DOMAIN requests : requests[r].pending /\ r <= k
                             /\ requests[r].conn # NoConn /\ requests[r].from = link}
             IN  \E order \in [1..Cardinality(late) -> late] :
                    /\ \A i, j \in DOMAIN order : i < j => order[i] < order[j]
                    /\ down' = down \o [i \in DOMAIN order |->
                          ResponseTo(asked[order[i]], NoSession, "other")]
    /\ UNCHANGED <<client, link, up, asked>>

\* rtsp_server_send_teardown(): to all clients; path t stands for the session
\* unless it is a media.
rtsp_server_send_teardown(s, t) ==
    down' = IF LinkOpen
            THEN Append(down, [type |-> "TEARDOWN", session |-> s,
                               media |-> IF t \in Medias THEN t ELSE NoMedia])
            ELSE down

ForceTeardown(s, t) ==
    /\ S!force_teardown(s, t)
    /\ rtsp_server_send_teardown(s, t)
    /\ UNCHANGED <<client, link, up, asked>>

SessionTimeout(s) == S!SessionTimeout(s) /\ UNCHANGED <<client, netVars>>
SessionRemoveIdle(s) == S!SessionRemoveIdle(s) /\ UNCHANGED <<client, netVars>>

ClientNext ==
    \/ Request
    \/ Cancel
    \/ \E s \in SessionIds : KeepAliveTimer(s)
    \/ ResponseTimeout
    \/ Connect
    \/ \E ok \in BOOLEAN : ResolvDone(ok)
    \/ ResolvTimeout
    \/ Disconnect

NetworkNext ==
    \/ \E c \in Conns : Connected(c)
    \/ ClientLoses
    \/ \E c \in Conns : ServerLoses(c)
    \/ Receive

ServerNext ==
    \/ \E c \in Conns : Serve(c)
    \/ \E r \in S!RequestIds : Reply(r)
    \/ CallbackReturn
    \/ RequestTimeout
    \/ \E s \in SessionIds, t \in Forced : ForceTeardown(s, t)
    \/ \E s \in SessionIds : SessionTimeout(s)
    \/ \E s \in SessionIds : SessionRemoveIdle(s)

Next == ClientNext \/ NetworkNext \/ ServerNext

Spec == Init /\ [][Next]_vars

\* Both loops serve their sockets and timers again and again, and a
\* connection that one end has closed is found closed by the other.  The
\* application of the server owes nothing but the return of its callbacks.
Fairness ==
    /\ WF_vars(CallbackReturn)
    /\ SF_vars(\E c \in Conns : Serve(c))
    /\ SF_vars(RequestTimeout)
    /\ WF_vars(Receive)
    /\ WF_vars(~LinkOpen /\ ClientLoses)
    /\ WF_vars(\E s \in SessionIds : KeepAliveTimer(s))

FairSpec == Spec /\ Fairness

(***************************************************************************)
(* Properties                                                              *)
(***************************************************************************)

\* Nothing is on its way, in the connection or in the hands of the server's
\* application.
Quiet ==
    /\ LinkOpen /\ up[link] = << >> /\ down = << >> /\ cb = 0
    /\ ~client.is_pending
    /\ \A r \in DOMAIN requests : ~requests[r].pending

\* The two sides agree: a media the client has set up is one the server has,
\* and does not tear down, whoever tore down what (rtsp_client_teardown(),
\* rtsp_server_force_teardown(), in any order with SETUPs, timeouts and
\* cancelled requests).  On the first connection: what a lost one carried is
\* only found out by the next keep-alive.
ClientHasWhatServerHas ==
    (Quiet /\ accepted = 1) =>
        \A s \in client.sessions \cap DOMAIN sessions :
            client.medias[s] \subseteq sessions[s].medias \ sessions[s].tearing

\* A response that the client would take for the answer to its request is the
\* answer to that request, although the server may send two error responses
\* to one request, answers late what was cancelled, and may have read requests
\* of a connection that is closed.
ResponseIsToRequest ==
    \A i \in DOMAIN down :
        (down[i].type = "response" /\ down[i].request.cseq = client.request.cseq)
            => client.is_pending /\ down[i].request = client.request

\* A response callback that the application waits for runs, even if it gave
\* no timeout: the server's reply timer answers for an application that does
\* not, and the end of the connection aborts the request.  None is lost: a
\* request the client forgets stays in forgotten for ever.  (With medias in
\* Forced one can be, a TEARDOWN of a media that the server tears down at the
\* same time.)
OwedEnds ==
    LET waiting == client.owed \cup client.forgotten
    IN  waiting # {} ~> waiting = {}

\* A session that the server has dropped is dropped by the client, too, by
\* its keep-alives or the server's TEARDOWN, whatever got lost (bound: unless
\* the client runs out of CSeq numbers).
DeadSessionDropped ==
    \A s \in SessionIds :
        (s \in client.sessions /\ s \notin DOMAIN sessions)
            ~> (s \notin client.sessions \/ client.cseq = MaxCseq)
=============================================================================
