-------------------------- MODULE RtspSystemProofs --------------------------
(***************************************************************************)
(* Proofs about RtspSystem, for every number of connections, sessions,     *)
(* medias and CSeq numbers.                                                *)
(*                                                                         *)
(* The invariant composes those of the two components with what is between *)
(* them.  Whatever is on its way to the server, in the hands of its        *)
(* application or on its way back is a header that the client has sent     *)
(* (SentBy), and no other header of the client will ever have its CSeq:    *)
(* RtspClientSlot shows it of each step of the client (Moves), and         *)
(* RtspServerProofs that a request of the server stays the request it was  *)
(* (KeepsRequests).  The client's invariant needs the server in return: a  *)
(* response names the session of its request or none (SentTo).             *)
(*                                                                         *)
(* That the two sides agree on the medias rests on a second invariant      *)
(* (AgreeInv), about what each message on its way will do: a TEARDOWN is   *)
(* one that the client waits for or has forgotten with all it named        *)
(* (Whole, Single), one of a media finds that media (Single), a SETUP that *)
(* the server has read is the last message, and its media is there         *)
(* (SetUp), and the request in the slot is the last one sent (Last).  What *)
(* the client has the server has, but for what it waits to tear down       *)
(* (Agreed).                                                               *)
(*                                                                         *)
(* CP and SP are the components C and S once more, with their theorems.    *)
(* tlapm takes the operators of two instances for different ones even when *)
(* the parameters are the same, so the two lemmas that say they are the    *)
(* same come first.                                                        *)
(***************************************************************************)
EXTENDS RtspSystem, FiniteSetTheorems, SequenceTheorems, TLAPS

CP == INSTANCE RtspClientSlot WITH
        SendResults <- {"OK"}, PublicMethods <- {}, MaxLookups <- 1
SP == INSTANCE RtspServerProofs WITH
        MaxRequests <- MaxCseq - 1

\* C and CP are the same client: each operator of one is that of the other.
LEMMA ClientIsTheSame ==
    /\ C!Init <=> CP!Init
    /\ C!TypeOK <=> CP!TypeOK
    /\ \A s, md, res, timed : C!Setup(s, md, res, timed) <=> CP!Setup(s, md, res, timed)
    /\ \A s, res, timed : C!Play(s, res, timed) <=> CP!Play(s, res, timed)
    /\ \A s, md, res, timed :
           C!Teardown(s, md, res, timed) <=> CP!Teardown(s, md, res, timed)
    /\ C!Cancel <=> CP!Cancel
    /\ \A s, res : C!KeepAliveTimer(s, res) <=> CP!KeepAliveTimer(s, res)
    /\ \A res, connect_ok :
           C!ResponseTimeout(res, connect_ok) <=> CP!ResponseTimeout(res, connect_ok)
    /\ \A res : C!Connect(res) <=> CP!Connect(res)
    /\ \A ok : C!ResolvDone(ok) <=> CP!ResolvDone(ok)
    /\ C!ResolvTimeout <=> CP!ResolvTimeout
    /\ C!Disconnect <=> CP!Disconnect
    /\ \A failed, first, res :
           C!SocketConnected(failed, first, res)
              <=> CP!SocketConnected(failed, first, res)
    /\ C!SocketDisconnected <=> CP!SocketDisconnected
    /\ \A s, md : C!ServerTeardown(s, md) <=> CP!ServerTeardown(s, md)
    /\ \A c : C!Becomes(c) <=> CP!Becomes(c)
    /\ \A c, cseq, resp, s :
           C!response_process(c, cseq, resp, s) = CP!response_process(c, cseq, resp, s)
    /\ C!Request = CP!Request
    /\ C!SessionOrNone = CP!SessionOrNone
    /\ C!MediaOrNone = CP!MediaOrNone
<1>1. C!States = CP!States
  BY DEF C!States, CP!States
<1>2. C!SessionlessMethods = CP!SessionlessMethods
  BY DEF C!SessionlessMethods, CP!SessionlessMethods
<1>3. C!SessionMethods = CP!SessionMethods
  BY DEF C!SessionMethods, CP!SessionMethods
<1>4. C!Methods = CP!Methods
  BY <1>2, <1>3 DEF C!Methods, CP!Methods
<1>5. C!SessionOrNone = CP!SessionOrNone
  BY DEF C!SessionOrNone, CP!SessionOrNone
<1>6. C!MediaOrNone = CP!MediaOrNone
  BY DEF C!MediaOrNone, CP!MediaOrNone
<1>7. C!Request = CP!Request
  BY <1>4, <1>5, <1>6 DEF C!Request, CP!Request
<1>8. C!NoRequest = CP!NoRequest
  BY DEF C!NoRequest, CP!NoRequest
<1>9. C!Client = CP!Client
  BY <1>1, <1>4, <1>7 DEF C!Client, CP!Client
<1>10. C!TypeOK <=> CP!TypeOK
  BY <1>9 DEF C!TypeOK, CP!TypeOK
<1>11. C!NewClient = CP!NewClient
  BY <1>8 DEF C!NewClient, CP!NewClient
<1>12. \A c, new_state :
           C!set_connection_state(c, new_state) = CP!set_connection_state(c, new_state)
  BY DEF C!set_connection_state, CP!set_connection_state
<1>13. \A c, m : C!Allowed(c, m) <=> CP!Allowed(c, m)
  BY DEF C!Allowed, CP!Allowed
<1>14. \A c, s : C!get_session_add(c, s) = CP!get_session_add(c, s)
  BY DEF C!get_session_add, CP!get_session_add
<1>15. \A c, s : C!remove_session_internal(c, s) = CP!remove_session_internal(c, s)
  BY DEF C!remove_session_internal, CP!remove_session_internal
<1>16. \A c : C!remove_all_sessions(c) = CP!remove_all_sessions(c)
  BY DEF C!remove_all_sessions, CP!remove_all_sessions
<1>17. \A c, cseq : C!Forget(c, cseq) = CP!Forget(c, cseq)
  BY DEF C!Forget, CP!Forget
<1>18. \A c, q : C!SetHeader(c, q) = CP!SetHeader(c, q)
  BY <1>17 DEF C!SetHeader, CP!SetHeader
<1>19. \A c, q : C!TakeSlot(c, q) = CP!TakeSlot(c, q)
  BY <1>18 DEF C!TakeSlot, CP!TakeSlot
<1>20. \A c : C!clear_pending_keep_alive_timer(c) = CP!clear_pending_keep_alive_timer(c)
  BY DEF C!clear_pending_keep_alive_timer, CP!clear_pending_keep_alive_timer
<1>21. \A c, s : C!RetryLater(c, s) = CP!RetryLater(c, s)
  BY DEF C!RetryLater, CP!RetryLater
<1>22. \A c, s, res : C!send_keep_alive(c, s, res) = CP!send_keep_alive(c, s, res)
  <2> TAKE c, s, res
  <2> DEFINE q == [method |-> "GET_PARAMETER", cseq |-> c.cseq,
                   session |-> IF res = "EAUTH" THEN NoSession ELSE s,
                   media |-> NoMedia]
             f == [c EXCEPT !.failed_keep_alive[s] = c.failed_keep_alive[s] + 1]
  <2>1. /\ C!Allowed(c, "GET_PARAMETER") <=> CP!Allowed(c, "GET_PARAMETER")
        /\ C!remove_session_internal(c, s) = CP!remove_session_internal(c, s)
        /\ C!SetHeader(c, q) = CP!SetHeader(c, q)
        /\ C!TakeSlot(c, q) = CP!TakeSlot(c, q)
        /\ C!RetryLater(c, s) = CP!RetryLater(c, s)
        /\ C!RetryLater(f, s) = CP!RetryLater(f, s)
    BY <1>13, <1>15, <1>18, <1>19, <1>21, Zenon
  <2> QED BY <2>1, Zenon DEF C!send_keep_alive, CP!send_keep_alive
<1>23. \A c, m, s, md, res, timed :
           C!SendRequest(c, m, s, md, res, timed)
              = CP!SendRequest(c, m, s, md, res, timed)
  <2> TAKE c, m, s, md, res, timed
  <2> DEFINE d == C!clear_pending_keep_alive_timer(c)
             q == [method |-> m, cseq |-> c.cseq,
                   session |-> IF res = "EAUTH" THEN NoSession ELSE s,
                   media |-> md]
  <2>1. /\ CP!clear_pending_keep_alive_timer(c) = d
        /\ C!SetHeader(d, q) = CP!SetHeader(d, q)
        /\ C!TakeSlot(d, q) = CP!TakeSlot(d, q)
    BY <1>18, <1>19, <1>20, Zenon
  <2> QED BY <2>1, Zenon DEF C!SendRequest, CP!SendRequest
<1>24. \A c : C!CanSend(c) <=> CP!CanSend(c)
  BY DEF C!CanSend, CP!CanSend
<1>25. \A c, m : C!CanRequest(c, m) <=> CP!CanRequest(c, m)
  BY <1>13, <1>24 DEF C!CanRequest, CP!CanRequest
<1>26. \A c, md, s, res, timed, internal :
           C!send_teardown(c, md, s, res, timed, internal)
              = CP!send_teardown(c, md, s, res, timed, internal)
  <2> TAKE c, md, s, res, timed, internal
  <2>1. /\ C!clear_pending_keep_alive_timer(c) = CP!clear_pending_keep_alive_timer(c)
        /\ C!SendRequest(c, "TEARDOWN", s, md, res, timed)
              = CP!SendRequest(c, "TEARDOWN", s, md, res, timed)
        /\ C!CanRequest(c, "TEARDOWN") <=> CP!CanRequest(c, "TEARDOWN")
    BY <1>20, <1>23, <1>25, Zenon
  <2> QED BY <2>1, Zenon DEF C!send_teardown, CP!send_teardown
<1>27. \A c, s, res : C!send_teardown_ok(c, s, res) <=> CP!send_teardown_ok(c, s, res)
  BY <1>25 DEF C!send_teardown_ok, CP!send_teardown_ok
<1>28. \A c : C!Dummy(c) = CP!Dummy(c)
  BY DEF C!Dummy, CP!Dummy
<1>29. \A c, cseq : C!Callback(c, cseq) = CP!Callback(c, cseq)
  BY DEF C!Callback, CP!Callback
<1>30. \A q, resp : C!SessionOf(q, resp) = CP!SessionOf(q, resp)
  BY DEF C!SessionOf, CP!SessionOf
<1>31. \A c, q, sid : C!SessionAlive(c, q, sid) = CP!SessionAlive(c, q, sid)
  BY <1>14, <1>21 DEF C!SessionAlive, CP!SessionAlive
<1>32. \A c, q, sid, st :
           C!setup_request_complete(c, q, sid, st)
              = CP!setup_request_complete(c, q, sid, st)
  BY <1>29 DEF C!setup_request_complete, CP!setup_request_complete
<1>33. \A c, q, sid : C!UnknownMedia(c, q, sid) <=> CP!UnknownMedia(c, q, sid)
  BY DEF C!UnknownMedia, CP!UnknownMedia
<1>34. \A c, q, sid :
           C!teardown_request_complete(c, q, sid)
              = CP!teardown_request_complete(c, q, sid)
  <2> TAKE c, q, sid
  <2>1. /\ C!Callback(c, q.cseq) = CP!Callback(c, q.cseq)
        /\ C!Forget(c, q.cseq) = CP!Forget(c, q.cseq)
        /\ C!UnknownMedia(c, q, sid) <=> CP!UnknownMedia(c, q, sid)
    BY <1>17, <1>29, <1>33, Zenon
  <2> QED BY <2>1, Zenon DEF C!teardown_request_complete, CP!teardown_request_complete
<1>35. \A c, q, sid : C!TeardownRemoves(c, q, sid) <=> CP!TeardownRemoves(c, q, sid)
  BY DEF C!TeardownRemoves, CP!TeardownRemoves
<1>36. \A c : C!ClearSlot(c) = CP!ClearSlot(c)
  BY <1>8 DEF C!ClearSlot, CP!ClearSlot
<1>37. \A c, resp, st : C!Completed(c, resp, st) = CP!Completed(c, resp, st)
  <2> TAKE c, resp, st
  <2> DEFINE q == c.request
             sid == C!SessionOf(q, resp)
             d == C!SessionAlive(C!ClearSlot(c), q, sid)
             o == [d EXCEPT !.methods_allowed = resp.public]
  <2>1. CP!SessionOf(q, resp) = sid /\ CP!ClearSlot(c) = C!ClearSlot(c)
    BY <1>30, <1>36, Zenon
  <2>2. CP!SessionAlive(C!ClearSlot(c), q, sid) = d
    BY <1>31, Zenon
  <2>3. /\ C!Callback(o, q.cseq) = CP!Callback(o, q.cseq)
        /\ C!Callback(d, q.cseq) = CP!Callback(d, q.cseq)
        /\ C!setup_request_complete(d, q, sid, st) = CP!setup_request_complete(d, q, sid, st)
        /\ C!teardown_request_complete(d, q, sid) = CP!teardown_request_complete(d, q, sid)
        /\ C!Methods = CP!Methods
    BY <1>4, <1>29, <1>32, <1>34, Zenon
  <2> QED BY <2>1, <2>2, <2>3, Zenon DEF C!Completed, CP!Completed
<1>38. \A c, resp : C!SessionRemoved(c, resp) <=> CP!SessionRemoved(c, resp)
  BY <1>30, <1>33, <1>35 DEF C!SessionRemoved, CP!SessionRemoved
<1>39. \A c, resp, st : C!request_complete(c, resp, st) = CP!request_complete(c, resp, st)
  BY <1>15, <1>30, <1>37, <1>38 DEF C!request_complete, CP!request_complete
<1>40. \A c : C!abort_request(c) = CP!abort_request(c)
  BY <1>28, <1>39 DEF C!abort_request, CP!abort_request
<1>41. \A c : C!event_disconnected(c) = CP!event_disconnected(c)
  BY <1>12, <1>40 DEF C!event_disconnected, CP!event_disconnected
<1>42. \A c : C!tskt_client_stop(c) = CP!tskt_client_stop(c)
  BY <1>41 DEF C!tskt_client_stop, CP!tskt_client_stop
<1>43. \A c, s, res : C!GiveUp(c, s, res) = CP!GiveUp(c, s, res)
  BY <1>15, <1>26, <1>27 DEF C!GiveUp, CP!GiveUp
<1>44. \A c, s, res : C!keep_alive_timeout(c, s, res) = CP!keep_alive_timeout(c, s, res)
  BY <1>22, <1>43 DEF C!keep_alive_timeout, CP!keep_alive_timeout
<1>45. \A c, res, connect_ok :
           C!request_timeout(c, res, connect_ok) = CP!request_timeout(c, res, connect_ok)
  BY <1>12, <1>15, <1>28, <1>37, <1>38, <1>42, <1>44 DEF C!request_timeout, CP!request_timeout
<1>46. \A c : C!rtsp_client_disconnect(c) = CP!rtsp_client_disconnect(c)
  BY <1>12, <1>16, <1>40, <1>42 DEF C!rtsp_client_disconnect, CP!rtsp_client_disconnect
<1>47. C!Init <=> CP!Init
  BY <1>11 DEF C!Init, CP!Init
<1>48. \A c : C!Becomes(c) <=> CP!Becomes(c)
  BY DEF C!Becomes, CP!Becomes
<1>49. \A res : C!Connect(res) <=> CP!Connect(res)
  BY <1>12, <1>48 DEF C!Connect, CP!Connect
<1>50. \A ok : C!ResolvDone(ok) <=> CP!ResolvDone(ok)
  BY <1>12, <1>48 DEF C!ResolvDone, CP!ResolvDone
<1>51. C!ResolvTimeout <=> CP!ResolvTimeout
  BY <1>46, <1>48 DEF C!ResolvTimeout, CP!ResolvTimeout
<1>52. \A c, failed, first, res :
           C!keep_alive_all(c, failed, first, res)
              = CP!keep_alive_all(c, failed, first, res)
  BY <1>13, <1>22 DEF C!keep_alive_all, CP!keep_alive_all
<1>53. \A failed, first, res :
           C!SocketConnected(failed, first, res)
              <=> CP!SocketConnected(failed, first, res)
  BY <1>12, <1>48, <1>52 DEF C!SocketConnected, CP!SocketConnected
<1>54. C!SocketDisconnected <=> CP!SocketDisconnected
  BY <1>41, <1>48 DEF C!SocketDisconnected, CP!SocketDisconnected
<1>55. C!Disconnect <=> CP!Disconnect
  BY <1>46, <1>48 DEF C!Disconnect, CP!Disconnect
<1>56. \A c, d : C!Accepted(c, d) = CP!Accepted(c, d)
  BY DEF C!Accepted, CP!Accepted
<1>57. \A c, m, s, md, res, timed :
           C!ForSession(c, m, s, md, res, timed) = CP!ForSession(c, m, s, md, res, timed)
  BY <1>20, <1>23 DEF C!ForSession, CP!ForSession
<1>58. \A c, s, md, res, timed :
           C!rtsp_client_setup(c, s, md, res, timed)
              = CP!rtsp_client_setup(c, s, md, res, timed)
  BY <1>23, <1>57 DEF C!rtsp_client_setup, CP!rtsp_client_setup
<1>59. \A c, s, res, timed :
           C!rtsp_client_play(c, s, res, timed) = CP!rtsp_client_play(c, s, res, timed)
  BY <1>57 DEF C!rtsp_client_play, CP!rtsp_client_play
<1>60. \A s, md, res, timed : C!Setup(s, md, res, timed) <=> CP!Setup(s, md, res, timed)
  BY <1>25, <1>48, <1>56, <1>58 DEF C!Setup, CP!Setup
<1>61. \A s, res, timed : C!Play(s, res, timed) <=> CP!Play(s, res, timed)
  BY <1>25, <1>48, <1>56, <1>59 DEF C!Play, CP!Play
<1>62. \A s, md, res, timed :
           C!Teardown(s, md, res, timed) <=> CP!Teardown(s, md, res, timed)
  BY <1>25, <1>26, <1>48, <1>56 DEF C!Teardown, CP!Teardown
<1>63. C!Cancel <=> CP!Cancel
  BY <1>28, <1>39, <1>48 DEF C!Cancel, CP!Cancel
<1>64. \A c, cseq, resp, s :
           C!response_process(c, cseq, resp, s) = CP!response_process(c, cseq, resp, s)
  BY <1>21, <1>39 DEF C!response_process, CP!response_process
<1>65. \A s, md : C!ServerTeardown(s, md) <=> CP!ServerTeardown(s, md)
  BY <1>15, <1>48 DEF C!ServerTeardown, CP!ServerTeardown
<1>66. \A res, connect_ok :
           C!ResponseTimeout(res, connect_ok) <=> CP!ResponseTimeout(res, connect_ok)
  BY <1>45, <1>48 DEF C!ResponseTimeout, CP!ResponseTimeout
<1>67. \A s, res : C!KeepAliveTimer(s, res) <=> CP!KeepAliveTimer(s, res)
  BY <1>22, <1>48 DEF C!KeepAliveTimer, CP!KeepAliveTimer
<1> QED BY <1>47, <1>10, <1>60, <1>61, <1>62, <1>63, <1>67, <1>66, <1>49,
           <1>50, <1>51, <1>55, <1>53, <1>54, <1>65, <1>48, <1>64, <1>7, <1>5,
           <1>6

\* So are S and SP.
LEMMA ServerIsTheSame ==
    /\ S!Init <=> SP!Init
    /\ S!TypeOK <=> SP!TypeOK
    /\ \A c : S!Connected(c) <=> SP!Connected(c)
    /\ \A c : S!Disconnected(c) <=> SP!Disconnected(c)
    /\ \A c, s, p : S!SetupNew(c, s, p) <=> SP!SetupNew(c, s, p)
    /\ \A c, s, p : S!Setup(c, s, p) <=> SP!Setup(c, s, p)
    /\ \A c, s : S!Play(c, s) <=> SP!Play(c, s)
    /\ \A c, s, t : S!Teardown(c, s, t) <=> SP!Teardown(c, s, t)
    /\ \A c, s : S!GetParameter(c, s) <=> SP!GetParameter(c, s)
    /\ \A r : S!CallbackReturn(r) <=> SP!CallbackReturn(r)
    /\ \A r, p, code : S!reply_to_setup(r, p, code) <=> SP!reply_to_setup(r, p, code)
    /\ \A r, p, code : S!reply_to_play(r, p, code) <=> SP!reply_to_play(r, p, code)
    /\ \A r, p, code :
           S!reply_to_teardown(r, p, code) <=> SP!reply_to_teardown(r, p, code)
    /\ \A s, t : S!force_teardown(s, t) <=> SP!force_teardown(s, t)
    /\ \A k : S!RequestTimeout(k) <=> SP!RequestTimeout(k)
    /\ \A s : S!SessionTimeout(s) <=> SP!SessionTimeout(s)
    /\ \A s : S!SessionRemoveIdle(s) <=> SP!SessionRemoveIdle(s)
    /\ \A s : S!NotFound(s) <=> SP!NotFound(s)
    /\ S!RequestIds = SP!RequestIds
    /\ S!Codes = SP!Codes
    /\ S!AllPaths = SP!AllPaths
<1>1. S!AllPaths = SP!AllPaths
  BY DEF S!AllPaths, SP!AllPaths
<1>2. S!NoPath = SP!NoPath
  BY DEF S!NoPath, SP!NoPath
<1>3. S!Sessionless = SP!Sessionless
  BY DEF S!Sessionless, SP!Sessionless
<1>4. S!PerMedia = SP!PerMedia
  BY DEF S!PerMedia, SP!PerMedia
<1>5. S!Methods = SP!Methods
  BY <1>3, <1>4 DEF S!Methods, SP!Methods
<1>6. S!Codes = SP!Codes
  BY DEF S!Codes, SP!Codes
<1>7. S!RequestIds = SP!RequestIds
  BY DEF S!RequestIds, SP!RequestIds
<1>8. S!Session = SP!Session
  BY <1>5 DEF S!Session, SP!Session
<1>9. S!Request = SP!Request
  BY <1>5, <1>6 DEF S!Request, SP!Request
<1>10. S!TypeOK <=> SP!TypeOK
  BY <1>7, <1>8, <1>9 DEF S!TypeOK, SP!TypeOK
<1>11. S!Init <=> SP!Init
  BY DEF S!Init, SP!Init
<1>12. \A s : S!PendingOn(s) = SP!PendingOn(s)
  BY DEF S!PendingOn, SP!PendingOn
<1>13. \A s : S!session_remove(s) <=> SP!session_remove(s)
  BY DEF S!session_remove, SP!session_remove, S!Restrict, SP!Restrict
<1>14. \A q, s, ps, methods :
           S!FreeMedias(q, s, ps, methods) = SP!FreeMedias(q, s, ps, methods)
  BY DEF S!FreeMedias, SP!FreeMedias
<1>15. \A q : S!Remembered(q) = SP!Remembered(q)
  BY Zenon DEF S!Remembered, SP!Remembered, S!RestrictDomain, SP!RestrictDomain, S!Restrict, SP!Restrict
<1>16. \A q, r : S!pending_request_remove(q, r) = SP!pending_request_remove(q, r)
  BY DEF S!pending_request_remove, SP!pending_request_remove
<1>17. \A q, r : S!Finish(q, r) <=> SP!Finish(q, r)
  BY <1>3, <1>5, <1>13, <1>14, <1>15, <1>16, ZenonT(60) DEF S!Finish, SP!Finish
<1>18. \A c, from, code, before :
           S!Response(c, from, code, before) = SP!Response(c, from, code, before)
  BY DEF S!Response, SP!Response
<1>19. \A q, code : S!ResponseTo(q, code) = SP!ResponseTo(q, code)
  BY <1>18 DEF S!ResponseTo, SP!ResponseTo
<1>20. \A c, code : S!Answer(c, code) <=> SP!Answer(c, code)
  BY <1>18 DEF S!Answer, SP!Answer
<1>21. S!Running <=> SP!Running
  BY DEF S!Running, SP!Running
<1>22. S!InLoop <=> SP!InLoop
  BY <1>21 DEF S!InLoop, SP!InLoop
<1>23. \A c : S!Connected(c) <=> SP!Connected(c)
  BY <1>22 DEF S!Connected, SP!Connected
<1>24. \A c : S!Disconnected(c) <=> SP!Disconnected(c)
  BY <1>22 DEF S!Disconnected, SP!Disconnected, S!Restrict, SP!Restrict
<1>25. \A c : S!Arrives(c) <=> SP!Arrives(c)
  BY <1>12, <1>22 DEF S!Arrives, SP!Arrives
<1>26. \A c, m, s, ps :
           S!pending_request_add(c, m, s, ps) = SP!pending_request_add(c, m, s, ps)
  BY DEF S!pending_request_add, SP!pending_request_add
<1>27. \A c, m, s, ps : S!Passed(c, m, s, ps) <=> SP!Passed(c, m, s, ps)
  BY <1>26 DEF S!Passed, SP!Passed
<1>28. \A c, s, p : S!SetupNew(c, s, p) <=> SP!SetupNew(c, s, p)
  BY <1>22, <1>27 DEF S!SetupNew, SP!SetupNew
<1>29. \A s : S!NotFound(s) <=> SP!NotFound(s)
  BY DEF S!NotFound, SP!NotFound
<1>30. \A c, s, p : S!Setup(c, s, p) <=> SP!Setup(c, s, p)
  BY <1>20, <1>25, <1>27 DEF S!Setup, SP!Setup
<1>31. \A c, m, s : S!SessionRequest(c, m, s) <=> SP!SessionRequest(c, m, s)
  BY <1>20, <1>25, <1>27, <1>29 DEF S!SessionRequest, SP!SessionRequest
<1>32. \A c, s : S!Play(c, s) <=> SP!Play(c, s)
  BY <1>31 DEF S!Play, SP!Play
<1>33. \A s, t : S!TornDown(s, t) = SP!TornDown(s, t)
  BY <1>2 DEF S!TornDown, SP!TornDown
<1>34. \A c, s, t : S!Teardown(c, s, t) <=> SP!Teardown(c, s, t)
  BY <1>20, <1>25, <1>27, <1>29, <1>33 DEF S!Teardown, SP!Teardown
<1>35. \A c, s : S!GetParameter(c, s) <=> SP!GetParameter(c, s)
  BY <1>20, <1>22, <1>29 DEF S!GetParameter, SP!GetParameter
<1>36. \A r : S!CallbackReturn(r) <=> SP!CallbackReturn(r)
  BY <1>17, <1>21 DEF S!CallbackReturn, SP!CallbackReturn
<1>37. \A q, r : S!Replied(q, r) <=> SP!Replied(q, r)
  BY <1>17 DEF S!Replied, SP!Replied
<1>38. \A r, p, code : S!Replying(r, p, code) = SP!Replying(r, p, code)
  BY DEF S!Replying, SP!Replying
<1>39. \A r, p : S!MayReply(r, p) <=> SP!MayReply(r, p)
  BY <1>21 DEF S!MayReply, SP!MayReply
<1>40. \A r, p, code : S!reply_to_setup(r, p, code) <=> SP!reply_to_setup(r, p, code)
  <2> TAKE r, p, code
  <2> DEFINE q == S!Replying(r, p, code)
             e == S!pending_request_remove(q, r)
  <2>1. /\ SP!Replying(r, p, code) = q /\ SP!pending_request_remove(q, r) = e
        /\ S!Remembered(e) = SP!Remembered(e)
        /\ S!ResponseTo(requests[r], code) = SP!ResponseTo(requests[r], code)
        /\ S!MayReply(r, p) <=> SP!MayReply(r, p)
    BY <1>15, <1>16, <1>19, <1>38, <1>39, Zenon
  <2>2. \A x : S!Cardinality(x) = SP!Cardinality(x)
    BY Zenon DEF S!Cardinality, SP!Cardinality
  <2> QED BY <2>1, <2>2 DEF S!reply_to_setup, SP!reply_to_setup
<1>41. \A r, m, p, code :
           S!reply_to_media(r, m, p, code) <=> SP!reply_to_media(r, m, p, code)
  BY <1>19, <1>37, <1>38, <1>39 DEF S!reply_to_media, SP!reply_to_media
<1>42. \A r, p, code : S!reply_to_play(r, p, code) <=> SP!reply_to_play(r, p, code)
  BY <1>41 DEF S!reply_to_play, SP!reply_to_play
<1>43. \A r, p, code :
           S!reply_to_teardown(r, p, code) <=> SP!reply_to_teardown(r, p, code)
  BY <1>41 DEF S!reply_to_teardown, SP!reply_to_teardown
<1>44. \A s, t : S!force_teardown(s, t) <=> SP!force_teardown(s, t)
  BY <1>1, <1>5, <1>13, <1>14, <1>15, <1>21 DEF S!force_teardown, SP!force_teardown
<1>45. \A k : S!RequestTimeout(k) <=> SP!RequestTimeout(k)
  BY <1>19, <1>22 DEF S!RequestTimeout, SP!RequestTimeout, S!Restrict, SP!Restrict
<1>46. \A s : S!SessionTimeout(s) <=> SP!SessionTimeout(s)
  BY <1>5, <1>13, <1>14, <1>15, <1>22 DEF S!SessionTimeout, SP!SessionTimeout
<1>47. \A s : S!SessionRemoveIdle(s) <=> SP!SessionRemoveIdle(s)
  BY <1>13, <1>14, <1>15, <1>22 DEF S!SessionRemoveIdle, SP!SessionRemoveIdle
<1> QED BY <1>11, <1>10, <1>23, <1>24, <1>28, <1>30, <1>32, <1>34, <1>35,
           <1>36, <1>40, <1>42, <1>43, <1>44, <1>45, <1>46, <1>47, <1>29, <1>7,
           <1>6, <1>1
(***************************************************************************)
(* The hypotheses of the two components                                    *)
(***************************************************************************)

ClientHypotheses ==
    /\ NoSession \notin SessionIds /\ NoMedia \notin Medias
    /\ MaxFailedKeepAlive \in Nat \ {0} /\ MaxFailedRequests \in Nat \ {0}
    /\ {"OK"} \subseteq CP!AllSendResults /\ {} \subseteq SUBSET CP!Methods
    /\ 1 \in Nat /\ MaxCseq \in Nat

ServerHypotheses ==
    /\ NoConn \notin Conns /\ NoSession \notin SessionIds
    /\ SP!IsFiniteSet(Medias)
    /\ SP!AllPaths \notin Medias /\ SP!NoPath \notin Medias
    /\ TRUE \in BOOLEAN
    /\ MaxAccepts \in Nat /\ MaxCseq - 1 \in Nat

\* They follow from those of the system.
LEMMA Hypotheses == ClientHypotheses /\ ServerHypotheses
<1>1. ClientHypotheses
  BY SystemAssumption DEF CP!AllSendResults, ClientHypotheses
<1>2. IsFiniteSet(Medias) = SP!IsFiniteSet(Medias)
  BY Zenon DEF SP!IsFiniteSet, IsFiniteSet
<1>3. ServerHypotheses
  BY <1>2, SystemAssumption DEF ServerHypotheses, SP!AllPaths, SP!NoPath
<1> QED BY <1>1, <1>3

(***************************************************************************)
(* The invariant                                                           *)
(***************************************************************************)

\* The headers client c may have sent: their CSeq has been used, and the one
\* with the CSeq of the slot is the one in the slot, still waited for.
SentBy(c) ==
    {m \in CP!Request :
        /\ 0 < m.cseq /\ m.cseq < c.cseq
        /\ m.cseq = c.request.cseq => c.is_pending /\ m = c.request
        /\ m.method = "SETUP" => m.media \in Medias}

\* The messages the server may have sent to client c: a response is to a
\* header of the client, and for the session that this one names, if any.
SentTo(c) ==
    {d \in Message : d.type = "response" =>
        /\ d.request \in SentBy(c)
        /\ d.request.session # NoSession =>
              d.session \in {d.request.session, NoSession}}

\* Each request of the server is one of the client, for its session.
AskedOK ==
    /\ DOMAIN asked = 1..received
    /\ \A r \in DOMAIN asked : asked[r] \in SentBy(client)
    /\ \A r \in DOMAIN requests : asked[r].session \in {NoSession, requests[r].session}

Inv ==
    /\ CP!IInv /\ SP!ServerInv
    /\ link \in Links \cup {0}
    /\ up \in [Links -> Seq(SentBy(client))]
    /\ down \in Seq(SentTo(client))
    /\ AskedOK

\* What a client has sent it has sent, however its slot moves on: this is
\* where the CSeq of a new header must be fresh.
LEMMA SentMoves ==
    ASSUME NEW c, NEW d, CP!Good(c), CP!Good(d), CP!Moves(c, d)
    PROVE  SentBy(c) \subseteq SentBy(d) /\ SentTo(c) \subseteq SentTo(d)
<1>1. c.cseq \in Nat /\ d.cseq \in Nat /\ c.request.cseq \in Nat /\ d.request.cseq \in Nat
  BY Hypotheses, CP!CseqTypes DEF ClientHypotheses
<1>2. ASSUME NEW m \in SentBy(c) PROVE m \in SentBy(d)
  <2>1. m \in CP!Request /\ m.cseq \in Nat
    BY DEF SentBy, CP!Request
  <2>2. m.cseq < d.cseq
    BY <1>1, <2>1 DEF SentBy, CP!Moves
  <2>3. ASSUME m.cseq = d.request.cseq PROVE d.is_pending /\ m = d.request
    BY <1>1, <2>1, <2>3 DEF SentBy, CP!Moves, CP!NoRequest
  <2> QED BY <2>1, <2>2, <2>3 DEF SentBy
<1> QED BY <1>2 DEF SentTo

\* The header that a step of the client sends is one it has sent.
LEMMA SentIsSent ==
    ASSUME CP!Good(client), CP!Good(client'), CP!Sends(client, client')
    PROVE  Sent \in Seq(SentBy(client'))
<1>1. CASE client'.wire \subseteq client.wire
  BY <1>1 DEF Sent
<1>2. CASE ~(client'.wire \subseteq client.wire)
  <2>1. client'.request \in client'.wire
    BY <1>2 DEF CP!Sends
  <2>2. client'.request \in SentBy(client')
    BY <2>1 DEF CP!Good, CP!Slot, CP!Client, SentBy
  <2> QED BY <1>2, <2>2 DEF Sent
<1> QED BY <1>1, <1>2

\* The messages on their way and in the hands of the server stay so.
LEMMA NetKept ==
    ASSUME Inv, CP!IInv', CP!Sends(client, client')
    PROVE  /\ up \in [Links -> Seq(SentBy(client'))]
           /\ down \in Seq(SentTo(client'))
           /\ \A r \in DOMAIN asked : asked[r] \in SentBy(client')
           /\ Sent \in Seq(SentBy(client'))
<1>1. CP!Good(client) /\ CP!Good(client') /\ CP!Moves(client, client')
  BY DEF Inv, CP!IInv, CP!Sends
<1>2. SentBy(client) \subseteq SentBy(client') /\ SentTo(client) \subseteq SentTo(client')
  BY <1>1, SentMoves
<1>3. /\ Seq(SentBy(client)) \subseteq Seq(SentBy(client'))
      /\ Seq(SentTo(client)) \subseteq Seq(SentTo(client'))
  BY <1>2, SeqMonotonic
<1>4. Sent \in Seq(SentBy(client'))
  BY <1>1, SentIsSent
<1>5. up \in [Links -> Seq(SentBy(client'))]
  BY <1>3 DEF Inv
<1> QED BY <1>2, <1>3, <1>4, <1>5 DEF Inv, AskedOK

\* The server does nothing.
LEMMA ServerRests ==
    ASSUME SP!ServerInv, UNCHANGED serverVars
    PROVE  SP!ServerInv'
<1>1. UNCHANGED SP!vars
  BY DEF serverVars, SP!vars
<1> QED BY <1>1, Hypotheses, SP!ServerStep DEF ServerHypotheses

(***************************************************************************)
(* The client's steps                                                      *)
(***************************************************************************)

\* A step of the client, whatever it sends.
LEMMA SendsStep ==
    ASSUME Inv, CP!IInv', CP!Sends(client, client'), Sends
    PROVE  Inv'
<1>1. SP!ServerInv' /\ UNCHANGED <<received, requests, link, down, asked>>
  BY ServerRests DEF Inv, Sends, serverVars
<1>2. /\ up \in [Links -> Seq(SentBy(client'))]
      /\ down \in Seq(SentTo(client'))
      /\ \A r \in DOMAIN asked : asked[r] \in SentBy(client')
      /\ Sent \in Seq(SentBy(client'))
  BY NetKept
<1>3. up' \in [Links -> Seq(SentBy(client'))]
  <2>1. \A n \in Links : up[n] \o Sent \in Seq(SentBy(client'))
    BY <1>2
  <2>2. up' = [n \in Links |-> IF n = link /\ LinkOpen THEN up[n] \o Sent ELSE up[n]]
    BY DEF Sends
  <2> QED BY <1>2, <2>1, <2>2
<1> QED BY <1>1, <1>2, <1>3 DEF Inv, AskedOK

\* One that closes the connection.
LEMMA ClosesStep ==
    ASSUME Inv, CP!IInv', CP!Sends(client, client'), Closes
    PROVE  Inv'
<1>1. SP!ServerInv' /\ UNCHANGED <<received, requests, up, asked>>
  BY ServerRests DEF Inv, Closes, serverVars
<1>2. link' = 0 /\ down' \in Seq(SentTo(client'))
  BY DEF Closes
<1> QED BY <1>1, <1>2, NetKept DEF Inv, AskedOK

\* One that the network takes no part in.
LEMMA AloneStep ==
    ASSUME Inv, CP!IInv', CP!Sends(client, client'), UNCHANGED <<serverVars, netVars>>
    PROVE  Inv'
<1>1. SP!ServerInv' /\ UNCHANGED <<received, requests, link, up, down, asked>>
  BY ServerRests DEF Inv, serverVars, netVars
<1> QED BY <1>1, NetKept DEF Inv, AskedOK

\* A call of the application of the client.
LEMMA RequestInv == ASSUME Inv, Request PROVE Inv'
<1>1. client.sessions \subseteq SessionIds
      /\ \A s \in client.sessions : client.medias[s] \subseteq Medias
  BY DEF Inv, CP!IInv, CP!Good, CP!Client
<1>2. \/ \E md \in Medias : CP!Setup(NoSession, md, "OK", FALSE)
      \/ \E s \in client.sessions, md \in Medias : CP!Setup(s, md, "OK", FALSE)
      \/ \E s \in client.sessions : CP!Play(s, "OK", FALSE)
      \/ \E s \in client.sessions : \E md \in client.medias[s] \cup {NoMedia} :
            CP!Teardown(s, md, "OK", FALSE)
  BY ClientIsTheSame, Zenon DEF Request
<1>3. PICK timed \in BOOLEAN :
         \/ \E s \in CP!SessionOrNone, md \in Medias : CP!Setup(s, md, "OK", timed)
         \/ \E s \in SessionIds : CP!Play(s, "OK", timed)
         \/ \E s \in SessionIds, md \in CP!MediaOrNone : CP!Teardown(s, md, "OK", timed)
  <2>1. FALSE \in BOOLEAN /\ NoSession \in CP!SessionOrNone
        /\ client.sessions \subseteq CP!SessionOrNone
        /\ \A s \in client.sessions : client.medias[s] \cup {NoMedia} \subseteq CP!MediaOrNone
    BY <1>1 DEF CP!SessionOrNone, CP!MediaOrNone
  <2> QED BY <1>1, <1>2, <2>1, Zenon
<1>4. CP!RequestNext
  <2>1. "OK" \in {"OK"}
    OBVIOUS
  <2> QED BY <1>3, <2>1, Zenon DEF CP!RequestNext
<1>5. CP!IInv
  BY DEF Inv
<1>6. CP!IInv'
  BY <1>4, <1>5, Hypotheses, CP!RequestStep DEF ClientHypotheses
<1>7. CP!Sends(client, client')
  BY <1>4, <1>5, Hypotheses, CP!RequestNextSends DEF ClientHypotheses
<1> QED BY <1>6, <1>7, SendsStep DEF Request

\* rtsp_client_cancel(), and the timers of the client.
LEMMA CancelInv == ASSUME Inv, Cancel PROVE Inv'
<1>1. CP!Cancel /\ CP!IInv
  BY ClientIsTheSame DEF Cancel, Inv
<1>2. CP!EventNext
  BY <1>1 DEF CP!EventNext
<1>3. CP!IInv'
  BY <1>1, <1>2, Hypotheses, CP!EventStep DEF ClientHypotheses
<1>4. CP!Sends(client, client')
  BY <1>1, Hypotheses, CP!CancelSends DEF ClientHypotheses
<1> QED BY <1>3, <1>4, SendsStep DEF Cancel

\* A keep-alive goes to the connection.
LEMMA KeepAliveTimerInv ==
    ASSUME Inv, NEW s \in SessionIds, KeepAliveTimer(s) PROVE Inv'
<1>1. CP!KeepAliveTimer(s, "OK") /\ CP!IInv
  BY ClientIsTheSame DEF KeepAliveTimer, Inv
<1>2. CP!IInv'
  BY <1>1, Hypotheses, CP!KeepAliveTimerStep DEF ClientHypotheses
<1>3. CP!Sends(client, client')
  BY <1>1, Hypotheses, CP!KeepAliveTimerSends DEF ClientHypotheses
<1> QED BY <1>2, <1>3, SendsStep DEF KeepAliveTimer

\* A timeout may send, or close the connection.
LEMMA ResponseTimeoutInv == ASSUME Inv, ResponseTimeout PROVE Inv'
<1>1. CP!ResponseTimeout("OK", TRUE) /\ CP!IInv
  BY ClientIsTheSame, Zenon DEF ResponseTimeout, Inv
<1>2. \E ok \in BOOLEAN : CP!ResponseTimeout("OK", ok)
  BY <1>1, Zenon
<1>3. CP!IInv'
  BY <1>1, <1>2, Hypotheses, CP!ResponseTimeoutStep DEF ClientHypotheses
<1>4. CP!Sends(client, client')
  BY <1>1, <1>2, Hypotheses, CP!ResponseTimeoutSends DEF ClientHypotheses
<1> QED BY <1>3, <1>4, SendsStep, ClosesStep DEF ResponseTimeout

\* Connecting takes no part of the network before the socket is connected.
LEMMA ConnectInv == ASSUME Inv, Connect PROVE Inv'
<1>1. CP!Connect("OK") /\ CP!IInv
  BY ClientIsTheSame DEF Connect, Inv
<1>2. CP!IInv'
  BY <1>1, Hypotheses, CP!ConnectStep DEF ClientHypotheses, CP!OneLookup
<1>3. CP!Sends(client, client')
  BY <1>1, Hypotheses, CP!ConnectSends DEF ClientHypotheses
<1> QED BY <1>2, <1>3, AloneStep DEF Connect

\* The end of the lookup starts the connection.
LEMMA ResolvDoneInv ==
    ASSUME Inv, NEW ok \in BOOLEAN, ResolvDone(ok) PROVE Inv'
<1>1. CP!ResolvDone(ok) /\ CP!IInv
  BY ClientIsTheSame, Zenon DEF ResolvDone, Inv
<1>2. CP!IInv'
  BY <1>1, Hypotheses, CP!ResolvDoneStep DEF ClientHypotheses
<1>3. CP!Sends(client, client')
  BY <1>1, Hypotheses, CP!ResolvDoneSends DEF ClientHypotheses
<1> QED BY <1>2, <1>3, AloneStep DEF ResolvDone

\* Its timeout ends the attempt.
LEMMA ResolvTimeoutInv == ASSUME Inv, ResolvTimeout PROVE Inv'
<1>1. CP!ResolvTimeout /\ CP!IInv
  BY ClientIsTheSame DEF ResolvTimeout, Inv
<1>2. CP!IInv'
  BY <1>1, Hypotheses, CP!ResolvTimeoutStep DEF ClientHypotheses
<1>3. CP!Sends(client, client')
  BY <1>1, Hypotheses, CP!ResolvTimeoutSends DEF ClientHypotheses
<1> QED BY <1>2, <1>3, AloneStep DEF ResolvTimeout

\* A disconnection loses what is on the connection.
LEMMA DisconnectInv == ASSUME Inv, Disconnect PROVE Inv'
<1>1. CP!Disconnect /\ CP!IInv
  BY ClientIsTheSame DEF Disconnect, Inv
<1>2. CP!IInv'
  BY <1>1, Hypotheses, CP!DisconnectStep DEF ClientHypotheses
<1>3. CP!Sends(client, client')
  BY <1>1, Hypotheses, CP!DisconnectSends DEF ClientHypotheses
<1> QED BY <1>2, <1>3, ClosesStep DEF Disconnect

(***************************************************************************)
(* The connection                                                          *)
(***************************************************************************)

\* The new connection carries nothing but what the client sends at once.
LEMMA ConnectedInv == ASSUME Inv, NEW c \in Conns, Connected(c) PROVE Inv'
<1>1. PICK failed \in SUBSET client.sessions, first \in CP!SessionOrNone :
          CP!SocketConnected(failed, first, "OK")
  BY ClientIsTheSame, Zenon DEF Connected
<1>2. SP!Connected(c) /\ CP!IInv /\ SP!ServerInv
  BY ServerIsTheSame DEF Connected, Inv
<1>3. CP!IInv'
  BY <1>1, <1>2, Hypotheses, CP!SocketConnectedStep DEF ClientHypotheses
<1>4. CP!Sends(client, client')
  BY <1>1, <1>2, Hypotheses, CP!SocketConnectedSends DEF ClientHypotheses
<1>5. SP!ServerInv'
  BY <1>2, Hypotheses, SP!ConnectedStep DEF ServerHypotheses
<1>6. UNCHANGED <<received, requests, asked>> /\ accepted' \in Links
  <2>1. accepted' = accepted + 1 /\ accepted < MaxAccepts /\ accepted \in Nat
    BY <1>2 DEF SP!Connected, SP!ServerInv, SP!Scalars
  <2> QED BY <1>2, <2>1, SystemAssumption DEF Links, Connected, SP!Connected
<1>7. /\ up \in [Links -> Seq(SentBy(client'))]
      /\ \A r \in DOMAIN asked : asked[r] \in SentBy(client')
      /\ Sent \in Seq(SentBy(client'))
  BY <1>3, <1>4, NetKept
<1>8. link' \in Links \cup {0} /\ down' \in Seq(SentTo(client'))
  BY <1>6 DEF Connected
<1>9. up' \in [Links -> Seq(SentBy(client'))]
  BY <1>6, <1>7 DEF Connected
<1> QED BY <1>3, <1>5, <1>6, <1>7, <1>8, <1>9 DEF Inv, AskedOK

\* Either end loses the connection with what is on it.
LEMMA ClientLosesInv == ASSUME Inv, ClientLoses PROVE Inv'
<1>1. CP!SocketDisconnected /\ CP!IInv
  BY ClientIsTheSame DEF ClientLoses, Inv
<1>2. CP!IInv'
  BY <1>1, Hypotheses, CP!SocketDisconnectedStep DEF ClientHypotheses
<1>3. CP!Sends(client, client')
  BY <1>1, Hypotheses, CP!SocketDisconnectedSends DEF ClientHypotheses
<1> QED BY <1>2, <1>3, ClosesStep DEF ClientLoses

\* A step of the server that reads no message of the client: its requests
\* are those it had.
LEMMA ServerInvStep ==
    ASSUME Inv, SP!Next, received' = received, UNCHANGED <<client, link, asked>>,
           up' \in [Links -> Seq(SentBy(client))], down' \in Seq(SentTo(client))
    PROVE  Inv'
<1>1. SP!ServerInv /\ CP!IInv /\ received \in Nat
  BY DEF Inv, SP!ServerInv, SP!Scalars
<1>2. SP!ServerInv'
  BY <1>1, Hypotheses, SP!ServerStep DEF ServerHypotheses
<1>3. SP!KeepsRequests
  BY <1>1, Hypotheses, SP!NextKept DEF ServerHypotheses
<1>4. \A r \in DOMAIN requests' :
         r \in DOMAIN requests /\ requests'[r].session = requests[r].session
  BY <1>1, <1>3 DEF SP!KeepsRequests, SP!Kept
<1>5. AskedOK'
  BY <1>4 DEF Inv, AskedOK
<1>6. CP!IInv'
  BY <1>1 DEF CP!IInv
<1> QED BY <1>2, <1>5, <1>6 DEF Inv

\* The requests of a connection that the server has lost remain those of the client.
LEMMA ServerLosesInv == ASSUME Inv, NEW c \in Conns, ServerLoses(c) PROVE Inv'
<1>1. SP!Disconnected(c)
  BY ServerIsTheSame DEF ServerLoses
<1>2. SP!Next /\ received' = received
  BY <1>1 DEF SP!Next, SP!ConnNext, SP!Disconnected
<1>3. up' \in [Links -> Seq(SentBy(client))]
  <2>1. << >> \in Seq(SentBy(client)) /\ up \in [Links -> Seq(SentBy(client))]
    BY DEF Inv
  <2>2. up' = [up EXCEPT ![conns[c]] = << >>]
    BY DEF ServerLoses
  <2> QED BY <2>1, <2>2, Zenon
<1> QED BY <1>2, <1>3, ServerInvStep DEF ServerLoses, Inv

\* The client reads a message: a response with the CSeq of its request is for
\* the session of that request.
LEMMA ReceiveInv == ASSUME Inv, Receive PROVE Inv'
<1> DEFINE d == Head(down)
<1>1. /\ down # << >> /\ down' = Tail(down)
      /\ UNCHANGED <<serverVars, link, up, asked>>
      /\ IF d.type = "response"
         THEN \E s \in C!SessionOrNone : ReceiveResponse(d, s)
         ELSE \/ C!ServerTeardown(d.session, d.media)
              \/ d.session \notin client.sessions /\ UNCHANGED client
  BY DEF Receive
<1>2. d \in SentTo(client) /\ Tail(down) \in Seq(SentTo(client))
  BY <1>1 DEF Inv
<1> HIDE DEF d
<1>3. CP!IInv' /\ CP!Sends(client, client')
  <2>1. CASE d.type = "response"
    <3>1. PICK s \in C!SessionOrNone : ReceiveResponse(d, s)
      BY <1>1, <2>1
    <3> DEFINE resp == [code |-> d.code, session |-> d.session, public |-> {}]
               e == [CP!response_process(client, d.request.cseq, resp, s)
                        EXCEPT !.wire = @ \ {d.request}]
    <3>2. s # NoSession => s \in client.keep_alive
      BY <3>1 DEF ReceiveResponse
    <3>3. client' = e
      <4>1. C!response_process(client, d.request.cseq, resp, s)
               = CP!response_process(client, d.request.cseq, resp, s)
        BY ClientIsTheSame, Zenon
      <4> QED BY <3>1, <4>1, ClientIsTheSame, Zenon DEF ReceiveResponse, CP!Becomes
    <3>4. /\ d.request \in SentBy(client) /\ d.code \in {"2xx", "454", "other"}
          /\ d.session \in CP!SessionOrNone
          /\ d.request.session # NoSession => d.session \in {d.request.session, NoSession}
      BY <1>2, <2>1, ClientIsTheSame DEF SentTo, Message
    <3>5. resp \in CP!Response
      BY <3>4 DEF CP!Response
    <3>6. d.request.cseq = client.request.cseq /\ client.request.session # NoSession =>
             resp.session \in {client.request.session, NoSession}
      BY <3>4 DEF SentBy
    <3>7. CP!Good(client) /\ CP!Connection(client)
      BY DEF Inv, CP!IInv
    <3> HIDE DEF resp
    <3>8. CP!Good(e) /\ CP!Connection(e) /\ CP!Sends(client, e)
      BY <3>2, <3>5, <3>6, <3>7, Hypotheses, CP!ResponseProcessSends DEF ClientHypotheses
    <3> HIDE DEF e
    <3> QED BY <3>3, <3>8 DEF CP!IInv
  <2>2. CASE d.type # "response" /\ C!ServerTeardown(d.session, d.media)
    <3>1. d.session \in SessionIds /\ CP!ServerTeardown(d.session, d.media) /\ CP!IInv
      BY <1>2, <2>2, ClientIsTheSame DEF SentTo, Message, Inv
    <3>2. CP!IInv'
      BY <3>1, Hypotheses, CP!ServerTeardownStep DEF ClientHypotheses
    <3>3. CP!Sends(client, client')
      BY <3>1, Hypotheses, CP!ServerTeardownSends DEF ClientHypotheses
    <3> QED BY <3>2, <3>3
  <2>3. CASE UNCHANGED client
    <3>1. CP!IInv' /\ client.cseq \in Nat
      BY <2>3 DEF Inv, CP!IInv, CP!Good, CP!Client
    <3> QED BY <2>3, <3>1 DEF CP!Sends, CP!Moves
  <2> QED BY <1>1, <2>1, <2>2, <2>3
<1>4. /\ SentTo(client) \subseteq SentTo(client')
      /\ up \in [Links -> Seq(SentBy(client'))]
      /\ \A r \in DOMAIN asked : asked[r] \in SentBy(client')
  <2>1. CP!Good(client) /\ CP!Good(client') /\ CP!Moves(client, client')
    BY <1>3 DEF Inv, CP!IInv, CP!Sends
  <2> QED BY <1>3, <2>1, SentMoves, NetKept
<1>5. down' \in Seq(SentTo(client'))
  BY <1>1, <1>2, <1>4, SeqMonotonic
<1>6. SP!ServerInv' /\ UNCHANGED <<received, requests>>
  BY <1>1, ServerRests DEF Inv, serverVars
<1> QED BY <1>1, <1>3, <1>4, <1>5, <1>6 DEF Inv, AskedOK

(***************************************************************************)
(* The server's steps                                                      *)
(***************************************************************************)

\* A response to a header of the client is one the server may send.
LEMMA ResponseIsTo ==
    ASSUME NEW c, NEW m \in SentBy(c), NEW s \in CP!SessionOrNone,
           NEW code \in {"2xx", "454", "other"},
           code = "2xx" => m.session \in {NoSession, s}
    PROVE  ResponseTo(m, s, code) \in SentTo(c)
<1> DEFINE d == ResponseTo(m, s, code)
           sid == IF code = "2xx" THEN s ELSE NoSession
<1>1. d = [type |-> "response", request |-> m, code |-> code, session |-> sid]
  BY DEF ResponseTo
<1>2. sid \in CP!SessionOrNone /\ m \in CP!Request
      /\ (m.session # NoSession => sid \in {m.session, NoSession})
  BY DEF CP!SessionOrNone, SentBy
<1> HIDE DEF d, sid
<1>3. d \in Message
  BY <1>1, <1>2, ClientIsTheSame DEF Message
<1>4. d \in SentTo(c)
  BY <1>1, <1>2, <1>3 DEF SentTo
<1> QED BY <1>4 DEF d

\* What a connection delivers is as good as what it is given.
LEMMA DeliverStep ==
    ASSUME Inv, NEW n, NEW msg \in SentTo(client), Deliver(n, msg)
    PROVE  down' \in Seq(SentTo(client))
BY DEF Deliver, Inv

\* rtsp_server_request_process(): a step of the server, and what it passes on
\* is for the session that the client named.
LEMMA RequestProcess ==
    ASSUME Inv, NEW c \in Conns, NEW m \in SentBy(client), request_process(c, m)
    PROVE  /\ SP!Next
           /\ m.session # NoSession =>
                 \A r \in DOMAIN requests' \ DOMAIN requests :
                    requests'[r].session = m.session
<1>0. SP!ServerInv /\ known \subseteq SessionIds /\ NoSession \notin SessionIds
      /\ m.media \in CP!MediaOrNone
  BY SystemAssumption DEF Inv, SP!ServerInv, SP!Scalars, SentBy, CP!Request
<1>1. CASE m.method = "SETUP" /\ m.session = NoSession
           /\ \E s \in SessionIds : S!SetupNew(c, s, m.media)
  <2>1. m.media \in Medias /\ \E s \in SessionIds : SP!SetupNew(c, s, m.media)
    BY <1>1, ServerIsTheSame DEF SentBy
  <2> QED BY <1>1, <2>1 DEF SP!Next, SP!ConnNext
<1>2. CASE m.method = "SETUP" /\ m.session # NoSession /\ S!Setup(c, m.session, m.media)
  <2>1. m.media \in Medias /\ SP!Setup(c, m.session, m.media)
    BY <1>2, ServerIsTheSame DEF SentBy
  <2>2. m.session \in SessionIds
    BY <1>0, <2>1 DEF SP!Setup
  <2>3. SP!Next
    BY <2>1, <2>2 DEF SP!Next, SP!ConnNext
  <2> QED BY <1>0, <2>1, <2>3, Hypotheses, SP!SetupKept DEF ServerHypotheses
<1>3. CASE S!Play(c, m.session)
  <2>1. SP!Play(c, m.session) /\ SP!SessionRequest(c, "PLAY", m.session)
    BY <1>3, ServerIsTheSame DEF SP!Play
  <2>2. m.session \in SessionIds
    BY <1>0, <2>1 DEF SP!SessionRequest
  <2>3. SP!Next
    BY <2>1, <2>2 DEF SP!Next, SP!ConnNext
  <2> QED BY <1>0, <2>1, <2>3, Hypotheses, SP!SessionRequestKept DEF ServerHypotheses
<1>4. CASE \E t \in Medias \cup {S!AllPaths} : S!Teardown(c, m.session, t)
  <2>1. PICK t \in Medias \cup {SP!AllPaths} : SP!Teardown(c, m.session, t)
    BY <1>4, ServerIsTheSame
  <2>2. m.session \in SessionIds
    BY <1>0, <2>1 DEF SP!Teardown
  <2>3. SP!Next
    BY <2>1, <2>2 DEF SP!Next, SP!ConnNext
  <2> QED BY <1>0, <2>1, <2>3, Hypotheses, SP!TeardownKept DEF ServerHypotheses
<1>5. CASE S!GetParameter(c, m.session)
  <2>1. SP!GetParameter(c, m.session)
    BY <1>5, ServerIsTheSame
  <2>2. m.session \in SessionIds /\ requests' = requests
    BY <1>0, <2>1 DEF SP!GetParameter
  <2>3. SP!Next
    BY <2>1, <2>2 DEF SP!Next, SP!ConnNext
  <2> QED BY <2>2, <2>3
<1>6. \/ m.method = "SETUP" /\ m.session = NoSession
           /\ \E s \in SessionIds : S!SetupNew(c, s, m.media)
      \/ m.method = "SETUP" /\ m.session # NoSession /\ S!Setup(c, m.session, m.media)
      \/ S!Play(c, m.session)
      \/ \E t \in Medias \cup {S!AllPaths} : S!Teardown(c, m.session, t)
      \/ S!GetParameter(c, m.session)
  BY <1>0 DEF request_process, CP!MediaOrNone
<1> QED BY <1>1, <1>2, <1>3, <1>4, <1>5, <1>6

\* The server reads a message of the client: asked notes which.
LEMMA ServeInv == ASSUME Inv, NEW c \in Conns, Serve(c) PROVE Inv'
<1> DEFINE n == conns[c]
           m == Head(up[n])
<1>1. /\ c \in DOMAIN conns /\ up[n] # << >>
      /\ request_process(c, m)
      /\ up' = [up EXCEPT ![n] = Tail(@)]
      /\ asked' = IF received' = received THEN asked
                  ELSE [r \in DOMAIN asked \cup {received'} |->
                           IF r = received' THEN m ELSE asked[r]]
      /\ \/ out' = {} /\ UNCHANGED down
         \/ \E o \in out' :
               Deliver(n, ResponseTo(m, m.session,
                             IF o.code = "2xx" THEN "2xx" ELSE ErrorCode(m)))
      /\ UNCHANGED <<client, link>>
  BY DEF Serve
<1>2. n \in Links /\ SP!ServerInv /\ CP!IInv /\ received \in Nat
      /\ DOMAIN requests \subseteq 1..received
  BY <1>1 DEF Inv, SP!ServerInv, SP!Scalars, SP!Good, Links
<1>3. m \in SentBy(client) /\ Tail(up[n]) \in Seq(SentBy(client))
  BY <1>1, <1>2 DEF Inv
<1> HIDE DEF m, n
<1>4. /\ SP!Next
      /\ m.session # NoSession => \A r \in DOMAIN requests' \ DOMAIN requests :
                                     requests'[r].session = m.session
  BY <1>1, <1>3, RequestProcess
<1>5. SP!ServerInv'
  BY <1>2, <1>4, Hypotheses, SP!ServerStep DEF ServerHypotheses
<1>6. SP!KeepsRequests
  BY <1>2, <1>4, Hypotheses, SP!NextKept DEF ServerHypotheses
<1>7. up' \in [Links -> Seq(SentBy(client))]
  BY <1>1, <1>2, <1>3 DEF Inv
<1>8. down' \in Seq(SentTo(client))
  <2>1. m.session \in CP!SessionOrNone /\ ErrorCode(m) \in {"454", "other"}
    BY <1>3 DEF SentBy, CP!Request, ErrorCode
  <2>2. \A code \in {"2xx", "454", "other"} :
           ResponseTo(m, m.session, code) \in SentTo(client)
    BY <1>3, <2>1, ResponseIsTo
  <2>3. CASE UNCHANGED down
    BY <2>3 DEF Inv
  <2>4. ASSUME NEW o \in out',
               Deliver(n, ResponseTo(m, m.session,
                             IF o.code = "2xx" THEN "2xx" ELSE ErrorCode(m)))
        PROVE  down' \in Seq(SentTo(client))
    BY <2>1, <2>2, <2>4, DeliverStep
  <2> QED BY <1>1, <2>3, <2>4
<1>9. AskedOK'
  <2>1. CASE received' = received
    <3>1. \A r \in DOMAIN requests' :
             r \in DOMAIN requests /\ requests'[r].session = requests[r].session
      BY <1>2, <1>6, <2>1 DEF SP!KeepsRequests, SP!Kept
    <3> QED BY <1>1, <2>1, <3>1 DEF Inv, AskedOK
  <2>2. CASE received' # received
    <3>1. received' = received + 1
      BY <1>6, <2>2 DEF SP!KeepsRequests
    <3>2. /\ DOMAIN asked = 1..received /\ DOMAIN asked' = 1..received'
          /\ asked'[received'] = m
          /\ \A r \in DOMAIN asked : asked'[r] = asked[r]
      BY <1>1, <1>2, <2>2, <3>1 DEF Inv, AskedOK
    <3>3. \A r \in DOMAIN asked' : asked'[r] \in SentBy(client')
      BY <1>1, <1>2, <1>3, <3>1, <3>2 DEF Inv, AskedOK
    <3>4. ASSUME NEW r \in DOMAIN requests'
          PROVE  asked'[r].session \in {NoSession, requests'[r].session}
      <4>1. CASE r \in DOMAIN requests
        <5>1. requests'[r].session = requests[r].session
          BY <1>6, <4>1 DEF SP!KeepsRequests, SP!Kept
        <5>2. asked'[r] = asked[r]
          BY <1>2, <3>2, <4>1
        <5> QED BY <4>1, <5>1, <5>2 DEF Inv, AskedOK
      <4>2. CASE r \notin DOMAIN requests
        <5>1. asked'[r] = m
          BY <1>6, <3>2, <4>2 DEF SP!KeepsRequests
        <5> QED BY <1>4, <4>2, <5>1
      <4> QED BY <4>1, <4>2
    <3> QED BY <3>2, <3>3, <3>4 DEF AskedOK
  <2> QED BY <2>1, <2>2
<1>10. CP!IInv'
  BY <1>1, <1>2 DEF CP!IInv
<1> QED BY <1>1, <1>5, <1>7, <1>8, <1>9, <1>10 DEF Inv

\* The application of the server replies: to the client's request behind it.
LEMMA ReplyInv == ASSUME Inv, NEW r, Reply(r) PROVE Inv'
<1>1. /\ r \in DOMAIN requests
      /\ \E code \in SP!Codes : \E p \in requests[r].medias :
            \/ SP!reply_to_setup(r, p, code)
            \/ SP!reply_to_play(r, p, code)
            \/ SP!reply_to_teardown(r, p, code)
      /\ UNCHANGED <<client, link, up, asked>>
  BY ServerIsTheSame, Zenon DEF Reply
<1>2. SP!Next /\ received' = received
  <2>1. SP!ApplicationNext
    BY <1>1, Zenon DEF SP!ApplicationNext
  <2>2. received' = received
    BY <1>1 DEF SP!reply_to_setup, SP!reply_to_play, SP!reply_to_teardown,
                SP!reply_to_media
  <2> QED BY <2>1, <2>2 DEF SP!Next
<1>3. /\ asked[r] \in SentBy(client) /\ requests[r].session \in CP!SessionOrNone
      /\ asked[r].session \in {NoSession, requests[r].session}
  <2>1. r \in 1..received /\ requests[r].session \in SessionIds \cup {NoSession}
    BY <1>1 DEF Inv, SP!ServerInv, SP!Good, SP!RequestOK, SP!Request
  <2> QED BY <1>1, <2>1 DEF Inv, AskedOK, CP!SessionOrNone
<1>4. down' \in Seq(SentTo(client))
  <2>1. \A code \in {"2xx", "other"} :
           ResponseTo(asked[r], requests[r].session, code) \in SentTo(client)
    BY <1>3, ResponseIsTo
  <2>2. CASE UNCHANGED down
    BY <2>2 DEF Inv
  <2>3. ASSUME NEW o \in out',
               Deliver(o.from, ResponseTo(asked[r], requests[r].session,
                                   IF o.code = "2xx" THEN "2xx" ELSE "other"))
        PROVE  down' \in Seq(SentTo(client))
    BY <2>1, <2>3, DeliverStep
  <2> QED BY <2>2, <2>3 DEF Reply
<1> QED BY <1>1, <1>2, <1>4, ServerInvStep DEF Inv

\* A step of the server that sends nothing.
LEMMA SilentStep ==
    ASSUME Inv, SP!Next, received' = received, UNCHANGED <<client, netVars>>
    PROVE  Inv'
BY ServerInvStep DEF netVars, Inv

\* The remaining steps of the server's loop.
LEMMA CallbackReturnInv == ASSUME Inv, CallbackReturn PROVE Inv'
<1>1. \E r \in SP!RequestIds : SP!CallbackReturn(r)
  BY ServerIsTheSame, Zenon DEF CallbackReturn
<1>2. SP!Next /\ received' = received
  BY <1>1 DEF SP!Next, SP!LoopNext, SP!CallbackReturn
<1> QED BY <1>2, SilentStep DEF CallbackReturn

\* A session that expires takes its medias, not the identity of requests.
LEMMA SessionTimeoutInv ==
    ASSUME Inv, NEW s \in SessionIds, SessionTimeout(s) PROVE Inv'
<1>1. SP!SessionTimeout(s)
  BY ServerIsTheSame DEF SessionTimeout
<1>2. SP!Next /\ received' = received
  BY <1>1 DEF SP!Next, SP!LoopNext, SP!SessionTimeout
<1> QED BY <1>2, SilentStep DEF SessionTimeout

\* The same for a session whose first SETUP failed.
LEMMA SessionRemoveIdleInv ==
    ASSUME Inv, NEW s \in SessionIds, SessionRemoveIdle(s) PROVE Inv'
<1>1. SP!SessionRemoveIdle(s)
  BY ServerIsTheSame DEF SessionRemoveIdle
<1>2. SP!Next /\ received' = received
  BY <1>1 DEF SP!Next, SP!LoopNext, SP!SessionRemoveIdle
<1> QED BY <1>2, SilentStep DEF SessionRemoveIdle

\* The reply timer: every late request is one of the client's.
LEMMA RequestTimeoutInv == ASSUME Inv, RequestTimeout PROVE Inv'
<1>1. PICK k \in SP!RequestIds :
         /\ SP!RequestTimeout(k)
         /\ LET late == {r \in DOMAIN requests : requests[r].pending /\ r <= k
                            /\ requests[r].conn # NoConn /\ requests[r].from = link}
            IN  \E order \in [1..Cardinality(late) -> late] :
                    down' = down \o [i \in DOMAIN order |->
                          ResponseTo(asked[order[i]], NoSession, "other")]
  BY ServerIsTheSame, Zenon DEF RequestTimeout
<1> DEFINE late == {r \in DOMAIN requests : requests[r].pending /\ r <= k
                            /\ requests[r].conn # NoConn /\ requests[r].from = link}
<1>2. PICK order \in [1..Cardinality(late) -> late] :
          down' = down \o [i \in DOMAIN order |->
                              ResponseTo(asked[order[i]], NoSession, "other")]
  BY <1>1
<1>3. received \in Nat /\ late \subseteq 1..received
  BY DEF Inv, SP!ServerInv, SP!Scalars, SP!Good
<1> HIDE DEF late
<1>4. Cardinality(late) \in Nat
  <2>1. IsFiniteSet(1..received)
    BY <1>3, FS_Interval
  <2>2. IsFiniteSet(late)
    BY <1>3, <2>1, FS_Subset
  <2> QED BY <2>2, FS_CardinalityType
<1> DEFINE answers == [i \in DOMAIN order |-> ResponseTo(asked[order[i]], NoSession, "other")]
<1>5. answers \in [1..Cardinality(late) -> SentTo(client)]
  <2>1. ASSUME NEW r \in late PROVE ResponseTo(asked[r], NoSession, "other") \in SentTo(client)
    <3>1. asked[r] \in SentBy(client) /\ NoSession \in CP!SessionOrNone
      BY <1>3 DEF Inv, AskedOK, CP!SessionOrNone
    <3> QED BY <3>1, ResponseIsTo
  <2> QED BY <2>1
<1>6. down' = down \o answers
  BY <1>2
<1> HIDE DEF answers
<1>7. answers \in Seq(SentTo(client))
  BY <1>4, <1>5, SeqDef
<1>8. down' \in Seq(SentTo(client))
  BY <1>6, <1>7 DEF Inv
<1>9. SP!Next /\ received' = received
  BY <1>1 DEF SP!Next, SP!LoopNext, SP!RequestTimeout
<1> QED BY <1>8, <1>9, ServerInvStep DEF RequestTimeout, Inv

\* A TEARDOWN of the server's own is no response.
LEMMA ForceTeardownInv ==
    ASSUME Inv, NEW s \in SessionIds, NEW t \in Forced, ForceTeardown(s, t) PROVE Inv'
<1> DEFINE d == [type |-> "TEARDOWN", session |-> s,
                 media |-> IF t \in Medias THEN t ELSE NoMedia]
<1>1. SP!force_teardown(s, t)
  BY ServerIsTheSame DEF ForceTeardown
<1>2. SP!Next /\ received' = received
  <2>1. t \in Medias \cup {SP!AllPaths}
    BY SystemAssumption DEF SP!AllPaths
  <2> QED BY <1>1, <2>1 DEF SP!Next, SP!ApplicationNext, SP!force_teardown
<1>3. d \in SentTo(client)
  BY ClientIsTheSame DEF SentTo, Message, CP!MediaOrNone
<1>4. down' = down \/ down' = Append(down, d)
  BY DEF ForceTeardown, rtsp_server_send_teardown
<1> HIDE DEF d
<1>5. down' \in Seq(SentTo(client))
  BY <1>3, <1>4 DEF Inv
<1> QED BY <1>2, <1>5, ServerInvStep DEF ForceTeardown, Inv

(***************************************************************************)
(* The theorems                                                            *)
(***************************************************************************)

\* The invariant holds before the first connection.
LEMMA InitInv == ASSUME Init PROVE Inv
<1>1. CP!Init /\ SP!Init
  BY ClientIsTheSame, ServerIsTheSame DEF Init
<1>2. CP!IInv
  BY <1>1, Hypotheses, CP!InitIInv DEF ClientHypotheses
<1>3. SP!ServerInv
  BY <1>1, Hypotheses, SP!ServerInit DEF ServerHypotheses
<1>4. received = 0 /\ DOMAIN requests = {}
  BY <1>1 DEF SP!Init
<1>5. up \in [Links -> Seq(SentBy(client))] /\ down \in Seq(SentTo(client)) /\ link = 0
  BY DEF Init
<1>6. AskedOK
  BY <1>4 DEF Init, AskedOK
<1> QED BY <1>2, <1>3, <1>5, <1>6 DEF Inv

\* Every step keeps it.
LEMMA StepInv == ASSUME Inv, [Next]_vars PROVE Inv'
<1>1. CASE UNCHANGED vars
  <2>1. UNCHANGED <<client, serverVars, link, up, down, asked, received, requests>>
    BY <1>1 DEF vars, netVars, serverVars
  <2>2. SP!ServerInv'
    BY <2>1, ServerRests DEF Inv
  <2> QED BY <2>1, <2>2 DEF Inv, AskedOK, CP!IInv
<1>2. CASE ClientNext
  BY <1>2, RequestInv, CancelInv, KeepAliveTimerInv, ResponseTimeoutInv, ConnectInv,
     ResolvDoneInv, ResolvTimeoutInv, DisconnectInv DEF ClientNext
<1>3. CASE NetworkNext
  BY <1>3, ConnectedInv, ClientLosesInv, ServerLosesInv, ReceiveInv DEF NetworkNext
<1>4. CASE ServerNext
  BY <1>4, ServeInv, ReplyInv, CallbackReturnInv, RequestTimeoutInv, ForceTeardownInv,
     SessionTimeoutInv, SessionRemoveIdleInv DEF ServerNext
<1> QED BY <1>1, <1>2, <1>3, <1>4 DEF Next

\* The inductive invariant.
LEMMA SystemInvariant == Spec => []Inv
<1>1. Init => Inv
  BY InitInv
<1>2. Inv /\ [Next]_vars => Inv'
  BY StepInv
<1> QED BY <1>1, <1>2, PTL DEF Spec

\* The invariant has the types.
LEMMA InvTypeOK == ASSUME Inv PROVE TypeOK
<1>1. CP!TypeOK
  BY DEF Inv, CP!IInv, CP!Good, CP!TypeOK
<1>2. SP!TypeOK
  BY Hypotheses, SP!InvIsTyped DEF Inv, ServerHypotheses
<1>3. SentBy(client) \subseteq C!Request /\ SentTo(client) \subseteq Message
  BY ClientIsTheSame DEF SentBy, SentTo
<1>4. up \in [Links -> Seq(C!Request)] /\ down \in Seq(Message)
  <2>1. \A q \in Seq(SentBy(client)) : q \in Seq(C!Request)
    BY <1>3, SeqMonotonic
  <2>2. \A q \in Seq(SentTo(client)) : q \in Seq(Message)
    BY <1>3, SeqMonotonic
  <2> QED BY <2>1, <2>2 DEF Inv
<1>5. DOMAIN asked \subseteq S!RequestIds
  <2>1. DOMAIN asked = 1..received /\ received \in 0..MaxCseq - 1
    BY DEF Inv, AskedOK, SP!ServerInv, SP!Scalars
  <2>2. S!RequestIds = 1..MaxCseq - 1
    BY ServerIsTheSame DEF SP!RequestIds
  <2> QED BY <2>1, <2>2, SystemAssumption
<1>6. \A r \in DOMAIN asked : asked[r] \in C!Request
  BY <1>3 DEF Inv, AskedOK
<1> QED BY <1>1, <1>2, <1>4, <1>5, <1>6, ClientIsTheSame, ServerIsTheSame DEF TypeOK, Inv

\* The system stays within its types: in particular each request in the hands
\* of the server's application is one that the client has sent, and the server
\* never runs out of numbers before the client does.
THEOREM SystemTypeTheorem == Spec => []TypeOK
BY SystemInvariant, InvTypeOK, PTL

\* A response on its way with the CSeq of the client's request is to that very
\* request, which still waits for it, for every number of connections, sessions
\* and requests: CSeq numbers are fresh, what was cancelled has left the slot,
\* and the server answers with the header it read.
THEOREM ResponseTheorem == Spec => []ResponseIsToRequest
<1>1. ASSUME Inv PROVE ResponseIsToRequest
  <2> SUFFICES ASSUME NEW i \in DOMAIN down, down[i].type = "response",
                      down[i].request.cseq = client.request.cseq
               PROVE  client.is_pending /\ down[i].request = client.request
    BY DEF ResponseIsToRequest
  <2>1. down[i] \in SentTo(client)
    BY <1>1 DEF Inv
  <2>2. down[i].request \in SentBy(client)
    BY <2>1 DEF SentTo
  <2> QED BY <2>2 DEF SentBy
<1> QED BY <1>1, SystemInvariant, PTL

(***************************************************************************)
(* What the two sides agree on: the invariant                              *)
(***************************************************************************)

\* Client c, the messages u on their way to the server, the messages W on
\* their way back, sessions G, requests R, each asked by A[r], and the session
\* ids K given so far.

TearsDown(m, s) == m.method = "TEARDOWN" /\ m.session = s
Waits(c, m) == c.is_pending /\ c.request = m

\* Whatever names a session names one that the server has given.
Names(c, u, W, K) ==
    /\ c.sessions \subseteq K
    /\ c.is_pending => c.request.session \in K \cup {NoSession}
    /\ \A i \in DOMAIN u : u[i].session \in K \cup {NoSession}
    /\ \A x \in W : /\ x.session \in K \cup {NoSession}
                    /\ x.type = "response" => (x.code = "2xx" <=> x.session # NoSession)

\* The TEARDOWN of a session on its way is waited for, or the client neither
\* has the session nor sets up a media in it.
Whole(c, u, G) ==
    \A s \in DOMAIN G, i \in DOMAIN u :
        TearsDown(u[i], s) /\ u[i].media = NoMedia =>
            \/ Waits(c, u[i])
            \/ s \notin c.sessions /\ ~(c.is_pending /\ c.request.method = "SETUP"
                                           /\ c.request.session = s)

\* The TEARDOWN of a media on its way finds the media: it comes before any
\* other that tears it down.  It is waited for, or the client does not have
\* the media.
Single(c, u, G) ==
    \A s \in DOMAIN G, i \in DOMAIN u :
        TearsDown(u[i], s) /\ u[i].media # NoMedia =>
            /\ u[i].media \in SP!Has(G, s)
            /\ u[i].media \in c.medias[s] => Waits(c, u[i])
            /\ \A j \in DOMAIN u :
                  TearsDown(u[j], s) /\ u[j].media \in {NoMedia, u[i].media} => i <= j

\* A media the client has is one the server has, unless the client waits for
\* the answer to its TEARDOWN.
Agreed(c, G) ==
    \A s \in DOMAIN G : \A p \in c.medias[s] :
        \/ p \in SP!Has(G, s)
        \/ c.is_pending /\ TearsDown(c.request, s) /\ c.request.media \in {p, NoMedia}

\* The SETUP the client waits for has reached the server: it has the media,
\* and nothing is on its way that could tear it down.
Found(c, u, G, s) ==
    s \in DOMAIN G => c.request.media \in SP!Has(G, s) /\ u = << >>

SetUp(c, u, W, G, R, A) ==
    c.is_pending /\ c.request.method = "SETUP" =>
        /\ \A x \in W : x.type = "response" /\ x.request = c.request /\ x.code = "2xx" =>
              Found(c, u, G, x.session)
        /\ \A r \in DOMAIN R : A[r] = c.request => Found(c, u, G, R[r].session)

\* The request in the slot is the last message on its way.
Last(c, u) == \A i \in DOMAIN u : Waits(c, u[i]) => i = Len(u)

Agrees(c, u, W, G, R, A, K) ==
    /\ Names(c, u, W, K)
    /\ Whole(c, u, G) /\ Single(c, u, G) /\ Agreed(c, G)
    /\ SetUp(c, u, W, G, R, A)
    /\ Last(c, u)

(***************************************************************************)
(* The steps of the client                                                 *)
(***************************************************************************)

\* Sessions or medias may be removed on the client's side.
LEMMA StaysAgrees ==
    ASSUME NEW c, NEW d, NEW u, NEW W, NEW X, NEW G, NEW R, NEW A, NEW K,
           Agrees(c, u, W, G, R, A, K), CP!Stays(c, d), X \subseteq W,
           DOMAIN G \subseteq SessionIds
    PROVE  Agrees(d, u, X, G, R, A, K)
<1>1. /\ d.sessions \subseteq c.sessions /\ d.request = c.request
      /\ d.is_pending = c.is_pending
      /\ \A s \in DOMAIN G : d.medias[s] \subseteq c.medias[s]
  BY DEF CP!Stays, CP!Fewer
<1>2. Names(d, u, X, K)
  BY <1>1 DEF Agrees, Names
<1>3. Whole(d, u, G)
  BY <1>1 DEF Agrees, Whole, Waits
<1>4. Single(d, u, G)
  BY <1>1 DEF Agrees, Single, Waits
<1>5. Agreed(d, G)
  BY <1>1 DEF Agrees, Agreed
<1>6. SetUp(d, u, X, G, R, A)
  BY <1>1 DEF Agrees, SetUp, Found
<1>7. Last(d, u)
  BY <1>1 DEF Agrees, Last, Waits
<1> QED BY <1>2, <1>3, <1>4, <1>5, <1>6, <1>7 DEF Agrees

\* The request in the slot ends: by an answer that brings session sid, or
\* without one.
LEMMA EndsAgrees ==
    ASSUME NEW c, NEW d, NEW u, NEW W, NEW X, NEW G, NEW R, NEW A, NEW K,
           Agrees(c, u, W, G, R, A, K), NEW sid, NEW ok \in BOOLEAN,
           CP!Ends(c, d, sid, ok), CP!Tidy(d), d.sessions \subseteq SessionIds, X \subseteq W,
           DOMAIN G \subseteq SessionIds, sid \in K \cup {NoSession},
           c.request.method = "SETUP" =>
              (sid = c.request.session /\ ~ok) \/ Found(c, u, G, sid),
           c.is_pending
    PROVE  Agrees(d, u, X, G, R, A, K)
<1>0. NoSession \notin SessionIds
  BY SystemAssumption
<1>1. /\ ~d.is_pending
      /\ \A s \in d.sessions : s \in c.sessions \/ (c.request.method = "SETUP" /\ s = sid)
      /\ \A s \in DOMAIN G : \A p \in d.medias[s] :
            \/ p \in c.medias[s]
            \/ c.request.method = "SETUP" /\ ok /\ s = sid /\ p = c.request.media
  BY DEF CP!Ends, CP!EndsSetup, CP!Fewer
<1>2. ASSUME NEW s \in DOMAIN G, TearsDown(c.request, s)
      PROVE  /\ c.request.media = NoMedia => s \notin d.sessions
             /\ c.request.media # NoMedia => c.request.media \notin d.medias[s]
  BY <1>0, <1>2 DEF TearsDown, CP!Ends, CP!EndsTeardown
<1>3. Names(d, u, X, K)
  <2>1. d.sessions \subseteq K
    BY <1>0, <1>1 DEF Agrees, Names
  <2> QED BY <1>1, <2>1 DEF Agrees, Names
<1>4. Whole(d, u, G)
  <2> SUFFICES ASSUME NEW s \in DOMAIN G, NEW i \in DOMAIN u,
                      TearsDown(u[i], s), u[i].media = NoMedia
               PROVE  s \notin d.sessions
    BY <1>1 DEF Whole
  <2>1. u # << >>
    OBVIOUS
  <2>2. CASE Waits(c, u[i])
    BY <1>2, <2>2 DEF Waits
  <2>3. CASE s \notin c.sessions
             /\ ~(c.request.method = "SETUP" /\ c.request.session = s)
    BY <1>1, <2>1, <2>3 DEF Found
  <2> QED BY <2>2, <2>3 DEF Agrees, Whole
<1>5. Single(d, u, G)
  <2> SUFFICES ASSUME NEW s \in DOMAIN G, NEW i \in DOMAIN u,
                      TearsDown(u[i], s), u[i].media # NoMedia
               PROVE  u[i].media \notin d.medias[s]
    BY DEF Single, Agrees
  <2>1. u # << >>
    OBVIOUS
  <2>2. CASE u[i].media \in c.medias[s]
    <3>1. c.request = u[i]
      BY <2>2 DEF Agrees, Single, Waits
    <3> QED BY <1>2, <3>1
  <2>3. CASE u[i].media \notin c.medias[s]
    BY <1>1, <2>1, <2>3 DEF Found
  <2> QED BY <2>2, <2>3
<1>6. Agreed(d, G)
  <2> SUFFICES ASSUME NEW s \in DOMAIN G, NEW p \in d.medias[s]
               PROVE  p \in SP!Has(G, s)
    BY DEF Agreed
  <2>1. s \in d.sessions
    BY DEF CP!Tidy
  <2>2. CASE p \in c.medias[s]
    BY <1>2, <2>1, <2>2 DEF Agrees, Agreed
  <2>3. CASE p \notin c.medias[s]
    BY <1>1, <2>3 DEF Found
  <2> QED BY <2>2, <2>3
<1>7. SetUp(d, u, X, G, R, A) /\ Last(d, u)
  BY <1>1 DEF SetUp, Last, Waits
<1> QED BY <1>3, <1>4, <1>5, <1>6, <1>7 DEF Agrees

\* The index of a message once another has been sent.
LEMMA AppendIs ==
    ASSUME NEW M, NEW u \in Seq(M), NEW m \in M
    PROVE  /\ DOMAIN Append(u, m) = DOMAIN u \cup {Len(u) + 1}
           /\ Len(u) \in Nat /\ Len(Append(u, m)) = Len(u) + 1
           /\ Append(u, m)[Len(u) + 1] = m
           /\ \A i \in DOMAIN u : Append(u, m)[i] = u[i] /\ i \in Nat /\ i <= Len(u)
OBVIOUS

\* A new request is sent.  It has a CSeq of its own, and overtakes nothing but
\* a keep-alive.
LEMMA AsksAgrees ==
    ASSUME NEW c, NEW d, NEW M, NEW u \in Seq(M), d.request \in M,
           NEW W, NEW G, NEW R, NEW A, NEW K,
           Agrees(c, u, W, G, R, A, K), CP!Asks(c, d),
           c.sessions \subseteq SessionIds, DOMAIN G \subseteq SessionIds,
           \A i \in DOMAIN u : u[i] # d.request,
           \A x \in W : x.type = "response" => x.request # d.request,
           \A r \in DOMAIN R : A[r] # d.request
    PROVE  Agrees(d, Append(u, d.request), W, G, R, A, K)
<1> DEFINE n == Len(u) + 1
           v == Append(u, d.request)
<1>0. NoSession \notin SessionIds
  BY SystemAssumption
<1>1. /\ DOMAIN v = DOMAIN u \cup {n} /\ n \in Nat /\ Len(v) = n /\ v[n] = d.request
      /\ \A i \in DOMAIN u : v[i] = u[i] /\ i \in Nat /\ i < n
  BY AppendIs
<1>2. /\ d.sessions \subseteq c.sessions /\ d.is_pending
      /\ d.request.session \in c.sessions \cup {NoSession}
      /\ d.request.method = "TEARDOWN" =>
            /\ d.request.session \in c.sessions
            /\ d.request.media \in c.medias[d.request.session] \cup {NoMedia}
      /\ c.is_pending => c.request.method = "GET_PARAMETER"
      /\ \A s \in DOMAIN G : d.medias[s] \subseteq c.medias[s]
  BY DEF CP!Asks, CP!Fewer
<1>3. \A m, s : TearsDown(m, s) => ~Waits(c, m)
  BY <1>2 DEF TearsDown, Waits
<1> HIDE DEF n, v
<1>4. Names(d, v, W, K)
  <2>1. d.request.session \in K \cup {NoSession}
    BY <1>2 DEF Agrees, Names
  <2> QED BY <1>1, <1>2, <2>1 DEF Agrees, Names
<1>5. Whole(d, v, G)
  <2> SUFFICES ASSUME NEW s \in DOMAIN G, NEW i \in DOMAIN v,
                      TearsDown(v[i], s), v[i].media = NoMedia
               PROVE  \/ Waits(d, v[i])
                      \/ s \notin d.sessions /\ ~(d.request.method = "SETUP"
                                                     /\ d.request.session = s)
    BY DEF Whole
  <2>1. CASE i = n
    BY <1>1, <1>2, <2>1 DEF Waits
  <2>2. CASE i \in DOMAIN u
    <3>1. s \notin c.sessions
      BY <1>1, <1>3, <2>2 DEF Agrees, Whole
    <3> QED BY <1>0, <1>2, <3>1
  <2> QED BY <1>1, <2>1, <2>2
<1>6. ASSUME NEW s \in DOMAIN G, NEW p \in c.medias[s] PROVE p \in SP!Has(G, s)
  BY <1>2 DEF Agrees, Agreed, TearsDown
<1>7. Single(d, v, G)
  <2> SUFFICES ASSUME NEW s \in DOMAIN G, NEW i \in DOMAIN v,
                      TearsDown(v[i], s), v[i].media # NoMedia
               PROVE  /\ v[i].media \in SP!Has(G, s)
                      /\ v[i].media \in d.medias[s] => Waits(d, v[i])
                      /\ \A j \in DOMAIN v :
                            TearsDown(v[j], s) /\ v[j].media \in {NoMedia, v[i].media} => i <= j
    BY DEF Single
  <2>1. CASE i = n
    <3>1. v[i].media \in c.medias[s] /\ s \in c.sessions
      BY <1>1, <1>2, <2>1 DEF TearsDown
    <3>2. ASSUME NEW j \in DOMAIN u, TearsDown(u[j], s), u[j].media \in {NoMedia, v[i].media}
          PROVE  FALSE
      <4>1. CASE u[j].media = NoMedia
        BY <1>3, <3>1, <3>2, <4>1 DEF Agrees, Whole
      <4>2. CASE u[j].media = v[i].media
        BY <1>3, <3>1, <3>2, <4>2 DEF Agrees, Single
      <4> QED BY <3>2, <4>1, <4>2
    <3> QED BY <1>1, <1>2, <1>6, <2>1, <3>1, <3>2 DEF Waits
  <2>2. CASE i \in DOMAIN u
    <3>1. /\ v[i].media \in SP!Has(G, s) /\ v[i].media \notin c.medias[s]
          /\ \A j \in DOMAIN u :
                TearsDown(u[j], s) /\ u[j].media \in {NoMedia, v[i].media} => i <= j
      BY <1>1, <1>3, <2>2 DEF Agrees, Single
    <3> QED BY <1>1, <1>2, <2>2, <3>1
  <2> QED BY <1>1, <2>1, <2>2
<1>8. Agreed(d, G)
  BY <1>2, <1>6 DEF Agreed
<1>9. SetUp(d, v, W, G, R, A)
  BY DEF SetUp
<1>10. Last(d, v)
  BY <1>1 DEF Last, Waits
<1> QED BY <1>4, <1>5, <1>7, <1>8, <1>9, <1>10 DEF Agrees, v

(***************************************************************************)
(* The steps of the server                                                 *)
(***************************************************************************)

\* A message x that the server may send, with the client's requests A[r] in its
\* hands.
MaySend(x, R, A, K) ==
    \/ x.type = "TEARDOWN" /\ x.session \in K
    \/ x.type = "response" /\ x.code # "2xx" /\ x.session = NoSession
    \/ /\ x.type = "response" /\ x.code = "2xx" /\ x.session \in K /\ x.session # NoSession
       /\ \E r \in DOMAIN R : x.request = A[r] /\ x.session = R[r].session

\* A step of the server that reads no message: sessions may be removed, requests
\* end, and answers be sent.
LEMMA KeepsAgrees ==
    ASSUME NEW c, NEW u, NEW v, NEW W, NEW X, NEW G, NEW T, NEW R, NEW Q, NEW A, NEW K,
           Agrees(c, u, W, G, R, A, K), v = u \/ v = << >>, SP!KeepsMedias(G, T),
           \A r \in DOMAIN Q : r \in DOMAIN R /\ Q[r].session = R[r].session,
           \A x \in X : x \in W \/ MaySend(x, R, A, K)
    PROVE  Agrees(c, v, X, T, Q, A, K)
<1>1. /\ DOMAIN T \subseteq DOMAIN G
      /\ \A s \in DOMAIN T : \A p \in SP!Has(G, s) : p \in SP!Has(T, s)
  BY DEF SP!KeepsMedias
<1>2. DOMAIN v \subseteq DOMAIN u /\ \A i \in DOMAIN v : v[i] = u[i] /\ v = u
  OBVIOUS
<1>3. Names(c, v, X, K)
  <2>1. ASSUME NEW x \in X
        PROVE  /\ x.session \in K \cup {NoSession}
               /\ x.type = "response" => (x.code = "2xx" <=> x.session # NoSession)
    BY DEF Agrees, Names, MaySend
  <2> QED BY <1>2, <2>1 DEF Agrees, Names
<1>4. Whole(c, v, T)
  BY <1>1, <1>2 DEF Agrees, Whole
<1>5. Single(c, v, T)
  BY <1>1, <1>2 DEF Agrees, Single
<1>6. Agreed(c, T)
  BY <1>1 DEF Agrees, Agreed
<1>7. SetUp(c, v, X, T, Q, A)
  <2> SUFFICES ASSUME c.is_pending, c.request.method = "SETUP"
               PROVE  /\ \A x \in X :
                            x.type = "response" /\ x.request = c.request /\ x.code = "2xx" =>
                               Found(c, v, T, x.session)
                      /\ \A r \in DOMAIN Q : A[r] = c.request => Found(c, v, T, Q[r].session)
    BY DEF SetUp
  <2>1. \A s : Found(c, u, G, s) => Found(c, v, T, s)
    BY <1>1 DEF Found
  <2>2. ASSUME NEW r \in DOMAIN R, A[r] = c.request
        PROVE  Found(c, v, T, R[r].session)
    BY <2>1, <2>2 DEF Agrees, SetUp
  <2>3. ASSUME NEW x \in X, x.type = "response", x.request = c.request, x.code = "2xx"
        PROVE  Found(c, v, T, x.session)
    <3>1. CASE x \in W
      BY <2>1, <2>3, <3>1 DEF Agrees, SetUp
    <3>2. CASE x \notin W
      <4>1. PICK r \in DOMAIN R : x.request = A[r] /\ x.session = R[r].session
        BY <2>3, <3>2 DEF MaySend
      <4> QED BY <2>2, <2>3, <4>1
    <3> QED BY <3>1, <3>2
  <2> QED BY <2>2, <2>3
<1>8. Last(c, v)
  BY <1>2 DEF Agrees, Last
<1> QED BY <1>3, <1>4, <1>5, <1>6, <1>7, <1>8 DEF Agrees

\* The index of a message once the first has been read.
LEMMA TailIs ==
    ASSUME NEW M, NEW u \in Seq(M), u # << >>
    PROVE  /\ \A i \in DOMAIN Tail(u) :
                 i \in Nat /\ i + 1 \in DOMAIN u /\ Tail(u)[i] = u[i + 1]
                 /\ 1 < i + 1
           /\ Len(Tail(u)) = Len(u) - 1 /\ Len(u) \in Nat
           /\ 1 \in DOMAIN u /\ Head(u) = u[1]
OBVIOUS

\* What holds of messages u on their way holds once the first of them is read,
\* whatever is asked in it; the client's SETUP has not been answered if it was
\* still on its way.
LEMMA TailAgrees ==
    ASSUME NEW c, NEW M, NEW u \in Seq(M), u # << >>, NEW W, NEW G, NEW R, NEW A, NEW K,
           Agrees(c, u, W, G, R, A, K)
    PROVE  /\ Names(c, Tail(u), W, K)
           /\ Whole(c, Tail(u), G) /\ Single(c, Tail(u), G) /\ Last(c, Tail(u))
           /\ Waits(c, Head(u)) => Tail(u) = << >>
           /\ c.is_pending /\ c.request.method = "SETUP" =>
                 /\ \A x \in W : x.type = "response" /\ x.request = c.request
                       /\ x.code = "2xx" => x.session \notin DOMAIN G
                 /\ \A r \in DOMAIN R : A[r] = c.request => R[r].session \notin DOMAIN G
<1> DEFINE v == Tail(u)
<1>1. /\ \A i \in DOMAIN v : i \in Nat /\ i + 1 \in DOMAIN u /\ v[i] = u[i + 1]
      /\ Len(v) = Len(u) - 1 /\ Len(u) \in Nat
      /\ 1 \in DOMAIN u /\ Head(u) = u[1]
  BY TailIs
<1>2. Waits(c, Head(u)) => v = << >>
  BY DEF Agrees, Last
<1> HIDE DEF v
<1>3. Names(c, v, W, K)
  BY <1>1 DEF Agrees, Names
<1>4. Whole(c, v, G)
  BY <1>1 DEF Agrees, Whole
<1>5. Single(c, v, G)
  <2> SUFFICES ASSUME NEW s \in DOMAIN G, NEW i \in DOMAIN v,
                      TearsDown(v[i], s), v[i].media # NoMedia
               PROVE  /\ v[i].media \in SP!Has(G, s)
                      /\ v[i].media \in c.medias[s] => Waits(c, v[i])
                      /\ \A j \in DOMAIN v :
                            TearsDown(v[j], s) /\ v[j].media \in {NoMedia, v[i].media} => i <= j
    BY DEF Single
  <2>1. /\ v[i].media \in SP!Has(G, s)
        /\ v[i].media \in c.medias[s] => Waits(c, v[i])
        /\ \A j \in DOMAIN u :
              TearsDown(u[j], s) /\ u[j].media \in {NoMedia, v[i].media} => i + 1 <= j
    BY <1>1 DEF Agrees, Single
  <2>2. ASSUME NEW j \in DOMAIN v, TearsDown(v[j], s), v[j].media \in {NoMedia, v[i].media}
        PROVE  i <= j
    <3>1. j + 1 \in DOMAIN u /\ v[j] = u[j + 1] /\ j \in Nat /\ i \in Nat
      BY <1>1
    <3>2. i + 1 <= j + 1
      BY <2>1, <2>2, <3>1
    <3> QED BY <3>1, <3>2
  <2> QED BY <2>1, <2>2
<1>6. Last(c, v)
  BY <1>1 DEF Agrees, Last
<1>7. c.is_pending /\ c.request.method = "SETUP" =>
         /\ \A x \in W : x.type = "response" /\ x.request = c.request
               /\ x.code = "2xx" => x.session \notin DOMAIN G
         /\ \A r \in DOMAIN R : A[r] = c.request => R[r].session \notin DOMAIN G
  BY DEF Agrees, SetUp, Found
<1> QED BY <1>2, <1>3, <1>4, <1>5, <1>6, <1>7 DEF v

\* The messages X and the requests Q asked by B, once message m has been read:
\* an answer to m is a success only if m is no SETUP, and a request for it has
\* session s.
Reads(m, s, W, X, R, Q, A, B, K) ==
    /\ \A x \in X : x \in W \/ (/\ x.type = "response" /\ x.request = m
                                /\ x.session \in K \cup {NoSession}
                                /\ x.code = "2xx" <=> x.session # NoSession
                                /\ x.code = "2xx" => m.method # "SETUP")
    /\ \A r \in DOMAIN Q : \/ r \in DOMAIN R /\ Q[r].session = R[r].session /\ B[r] = A[r]
                           \/ B[r] = m /\ Q[r].session = s

\* The server reads a message that tears nothing down: a SETUP of session s that
\* is passed on adds its media.
LEMMA ServeAgrees ==
    ASSUME NEW c, CP!Tidy(c), NEW M, NEW u \in Seq(M), u # << >>, NEW W, NEW X, NEW G, NEW T,
           NEW R, NEW Q, NEW A, NEW B, NEW K, NEW L, NEW s,
           Agrees(c, u, W, G, R, A, K), Reads(Head(u), s, W, X, R, Q, A, B, K),
           K \subseteq L, L \subseteq SessionIds, DOMAIN T \subseteq SessionIds,
           \A r \in DOMAIN R : R[r].session \in K \cup {NoSession},
           \A x \in DOMAIN T : (x \in DOMAIN G /\ SP!Has(G, x) \subseteq SP!Has(T, x))
                                  \/ x \notin K,
           Head(u).method = "SETUP" /\ s \in DOMAIN T
              /\ (\E r \in DOMAIN Q : B[r] = Head(u)) => Head(u).media \in SP!Has(T, s)
    PROVE  Agrees(c, Tail(u), X, T, Q, B, L)
<1> DEFINE v == Tail(u)
           m == Head(u)
<1>1. /\ Names(c, v, W, K)
      /\ Whole(c, v, G) /\ Single(c, v, G) /\ Last(c, v)
      /\ Waits(c, m) => v = << >>
      /\ c.is_pending /\ c.request.method = "SETUP" =>
            /\ \A x \in W : x.type = "response" /\ x.request = c.request
                  /\ x.code = "2xx" => x.session \notin DOMAIN G
            /\ \A r \in DOMAIN R : A[r] = c.request => R[r].session \notin DOMAIN G
  BY TailAgrees
<1>2. Agreed(c, G)
  BY DEF Agrees
<1>0. NoSession \notin DOMAIN T
  BY SystemAssumption
<1> HIDE DEF v, m
<1>3. /\ \A x \in X : x \in W \/ (/\ x.type = "response" /\ x.request = m
                                  /\ x.session \in K \cup {NoSession}
                                  /\ x.code = "2xx" <=> x.session # NoSession
                                  /\ x.code = "2xx" => m.method # "SETUP")
      /\ \A r \in DOMAIN Q : \/ r \in DOMAIN R /\ Q[r].session = R[r].session /\ B[r] = A[r]
                             \/ B[r] = m /\ Q[r].session = s
      /\ m.method = "SETUP" /\ s \in DOMAIN T
              /\ (\E r \in DOMAIN Q : B[r] = m) => m.media \in SP!Has(T, s)
  BY DEF Reads, m
<1>4. Names(c, v, X, L)
  <2>1. ASSUME NEW x \in X
        PROVE  /\ x.session \in L \cup {NoSession}
               /\ x.type = "response" => (x.code = "2xx" <=> x.session # NoSession)
    BY <1>1, <1>3 DEF Names
  <2> QED BY <1>1, <2>1 DEF Names
<1>5. ASSUME NEW x \in DOMAIN T, NEW i \in DOMAIN v, TearsDown(v[i], x)
      PROVE  x \in DOMAIN G /\ SP!Has(G, x) \subseteq SP!Has(T, x)
  BY <1>0, <1>1, <1>5 DEF Names, TearsDown
<1>6. Whole(c, v, T)
  BY <1>1, <1>5 DEF Whole
<1>7. Single(c, v, T)
  <2> SUFFICES ASSUME NEW x \in DOMAIN T, NEW i \in DOMAIN v,
                      TearsDown(v[i], x), v[i].media # NoMedia
               PROVE  /\ v[i].media \in SP!Has(T, x)
                      /\ v[i].media \in c.medias[x] => Waits(c, v[i])
                      /\ \A j \in DOMAIN v :
                            TearsDown(v[j], x) /\ v[j].media \in {NoMedia, v[i].media} => i <= j
    BY DEF Single
  <2>1. x \in DOMAIN G /\ SP!Has(G, x) \subseteq SP!Has(T, x)
    BY <1>5
  <2> QED BY <1>1, <2>1 DEF Single
<1>8. Agreed(c, T)
  <2> SUFFICES ASSUME NEW x \in DOMAIN T, NEW p \in c.medias[x]
               PROVE  \/ p \in SP!Has(T, x)
                      \/ c.is_pending /\ TearsDown(c.request, x)
                            /\ c.request.media \in {p, NoMedia}
    BY DEF Agreed
  <2>1. x \in K
    BY <1>1 DEF CP!Tidy, Names
  <2> QED BY <1>2, <2>1 DEF Agreed
<1>9. SetUp(c, v, X, T, Q, B)
  <2> SUFFICES ASSUME c.is_pending, c.request.method = "SETUP"
               PROVE  /\ \A x \in X :
                            x.type = "response" /\ x.request = c.request /\ x.code = "2xx" =>
                               Found(c, v, T, x.session)
                      /\ \A r \in DOMAIN Q : B[r] = c.request => Found(c, v, T, Q[r].session)
    BY DEF SetUp
  <2>1. ASSUME NEW x \in X, x.type = "response", x.request = c.request, x.code = "2xx"
        PROVE  Found(c, v, T, x.session)
    <3>1. x \in W
      BY <1>3, <2>1
    <3>2. x.session \notin DOMAIN G /\ x.session \in K \cup {NoSession}
      BY <1>1, <2>1, <3>1 DEF Names
    <3> QED BY <1>0, <3>2 DEF Found
  <2>2. ASSUME NEW r \in DOMAIN Q, B[r] = c.request
        PROVE  Found(c, v, T, Q[r].session)
    <3>1. CASE r \in DOMAIN R /\ Q[r].session = R[r].session /\ B[r] = A[r]
      <4>1. Q[r].session \notin DOMAIN G /\ Q[r].session \in K \cup {NoSession}
        BY <1>1, <2>2, <3>1
      <4> QED BY <1>0, <4>1 DEF Found
    <3>2. CASE B[r] = m /\ Q[r].session = s
      <4>1. Waits(c, m) /\ v = << >>
        BY <1>1, <2>2, <3>2 DEF Waits
      <4> QED BY <1>3, <2>2, <3>2, <4>1 DEF Found, Waits
    <3> QED BY <1>3, <3>1, <3>2
  <2> QED BY <2>1, <2>2
<1> QED BY <1>1, <1>4, <1>6, <1>7, <1>8, <1>9 DEF Agrees, v

\* The server reads a TEARDOWN: what it names is torn down, and either the client
\* waits for the answer or it does not have it any more.
LEMMA TeardownAgrees ==
    ASSUME NEW c, CP!Tidy(c), NEW M, NEW u \in Seq(M), u # << >>, NEW W, NEW X, NEW G, NEW T,
           NEW R, NEW Q, NEW A, NEW B, NEW K, NEW s \in DOMAIN G,
           Agrees(c, u, W, G, R, A, K), Reads(Head(u), s, W, X, R, Q, A, B, K),
           TearsDown(Head(u), s), DOMAIN T \subseteq DOMAIN G,
           DOMAIN G \subseteq SessionIds,
           \A x \in DOMAIN T : \A p \in SP!Has(G, x) :
              x # s \/ (Head(u).media # NoMedia /\ Head(u).media # p) => p \in SP!Has(T, x)
    PROVE  Agrees(c, Tail(u), X, T, Q, B, K)
<1> DEFINE v == Tail(u)
           m == Head(u)
<1>1. /\ Names(c, v, W, K)
      /\ Whole(c, v, G) /\ Single(c, v, G) /\ Last(c, v)
      /\ c.is_pending /\ c.request.method = "SETUP" =>
            /\ \A x \in W : x.type = "response" /\ x.request = c.request
                  /\ x.code = "2xx" => x.session \notin DOMAIN G
            /\ \A r \in DOMAIN R : A[r] = c.request => R[r].session \notin DOMAIN G
  BY TailAgrees
<1>2. /\ \A i \in DOMAIN v :
            i \in Nat /\ i + 1 \in DOMAIN u /\ v[i] = u[i + 1] /\ 1 < i + 1
      /\ 1 \in DOMAIN u /\ m = u[1]
  BY TailIs
<1> HIDE DEF v, m
<1>3. /\ \A x \in X : x \in W \/ (/\ x.type = "response" /\ x.request = m
                                  /\ x.session \in K \cup {NoSession}
                                  /\ x.code = "2xx" <=> x.session # NoSession
                                  /\ x.code = "2xx" => m.method # "SETUP")
      /\ \A r \in DOMAIN Q : \/ r \in DOMAIN R /\ Q[r].session = R[r].session /\ B[r] = A[r]
                             \/ B[r] = m /\ Q[r].session = s
      /\ TearsDown(m, s) /\ m.method # "SETUP"
      /\ \A x \in DOMAIN T : \A p \in SP!Has(G, x) :
            x # s \/ (m.media # NoMedia /\ m.media # p) => p \in SP!Has(T, x)
  BY DEF Reads, TearsDown, m
<1>4. Names(c, v, X, K)
  <2>1. ASSUME NEW x \in X
        PROVE  /\ x.session \in K \cup {NoSession}
               /\ x.type = "response" => (x.code = "2xx" <=> x.session # NoSession)
    BY <1>1, <1>3 DEF Names
  <2> QED BY <1>1, <2>1 DEF Names
<1>5. Whole(c, v, T)
  BY <1>1 DEF Whole
<1>6. Single(c, v, T)
  <2> SUFFICES ASSUME NEW x \in DOMAIN T, NEW i \in DOMAIN v,
                      TearsDown(v[i], x), v[i].media # NoMedia
               PROVE  /\ v[i].media \in SP!Has(T, x)
                      /\ v[i].media \in c.medias[x] => Waits(c, v[i])
                      /\ \A j \in DOMAIN v :
                            TearsDown(v[j], x) /\ v[j].media \in {NoMedia, v[i].media} => i <= j
    BY DEF Single
  <2>1. /\ v[i].media \in SP!Has(G, x)
        /\ v[i].media \in c.medias[x] => Waits(c, v[i])
        /\ \A j \in DOMAIN v :
              TearsDown(v[j], x) /\ v[j].media \in {NoMedia, v[i].media} => i <= j
    BY <1>1 DEF Single
  <2>2. ASSUME x = s PROVE m.media \notin {NoMedia, v[i].media}
    <3>1. \A j \in DOMAIN u :
              TearsDown(u[j], s) /\ u[j].media \in {NoMedia, v[i].media} => i + 1 <= j
      BY <1>2, <2>2 DEF Agrees, Single
    <3>2. i \in Nat /\ ~(i + 1 <= 1)
      BY <1>2
    <3> QED BY <1>2, <1>3, <3>1, <3>2
  <2> QED BY <1>3, <2>1, <2>2
<1>7. Agreed(c, T)
  <2> SUFFICES ASSUME NEW x \in DOMAIN T, NEW p \in c.medias[x], p \notin SP!Has(T, x)
               PROVE  c.is_pending /\ TearsDown(c.request, x)
                         /\ c.request.media \in {p, NoMedia}
    BY DEF Agreed
  <2>1. CASE p \notin SP!Has(G, x)
    BY <2>1 DEF Agrees, Agreed
  <2>2. CASE p \in SP!Has(G, x)
    <3>1. x = s /\ (m.media = NoMedia \/ m.media = p)
      BY <1>3, <2>2
    <3>2. CASE m.media = NoMedia
      <4>1. s \in c.sessions
        BY <3>1 DEF CP!Tidy
      <4>2. Waits(c, m)
        BY <1>2, <1>3, <3>2, <4>1 DEF Agrees, Whole
      <4> QED BY <1>3, <3>1, <3>2, <4>2 DEF Waits
    <3>3. CASE m.media # NoMedia
      <4>1. Waits(c, m)
        BY <1>2, <1>3, <3>1, <3>3 DEF Agrees, Single
      <4> QED BY <1>3, <3>1, <3>3, <4>1 DEF Waits
    <3> QED BY <3>2, <3>3
  <2> QED BY <2>1, <2>2
<1>8. SetUp(c, v, X, T, Q, B)
  <2> SUFFICES ASSUME c.is_pending, c.request.method = "SETUP"
               PROVE  /\ \A x \in X :
                            x.type = "response" /\ x.request = c.request /\ x.code = "2xx" =>
                               x.session \notin DOMAIN G
                      /\ \A r \in DOMAIN Q : B[r] = c.request => Q[r].session \notin DOMAIN G
    BY DEF SetUp, Found
  <2>1. m # c.request
    BY <1>3
  <2> QED BY <1>1, <1>3, <2>1
<1> QED BY <1>1, <1>4, <1>5, <1>6, <1>7, <1>8 DEF Agrees, v

(***************************************************************************)
(* The invariant of the system                                             *)
(***************************************************************************)

\* The client's first connection is open at both ends.
First == accepted = 1 /\ LinkOpen

\* What is on its way to the client.
Coming == {down[i] : i \in DOMAIN down}

AgreeInv ==
    /\ \A c \in DOMAIN conns : conns[c] <= accepted
    /\ accepted = 0 =>
          /\ created = {} /\ received = 0 /\ DOMAIN conns = {}
          /\ down = << >> /\ CP!Drops(client)
    /\ First =>
          /\ CP!Tidy(client)
          /\ Agrees(client, up[1], Coming, sessions, requests, asked, created)

\* The first connection has number 1.
LEMMA FirstLink == ASSUME Inv, AgreeInv, First PROVE link = 1 /\ 1 \in Links /\ 1 # 0
<1>1. PICK c \in DOMAIN conns : link = conns[c]
  BY DEF First, LinkOpen
<1>2. conns[c] \in 1..MaxAccepts /\ conns[c] <= 1 /\ MaxAccepts \in Nat
  BY <1>1, SystemAssumption DEF AgreeInv, First, Inv, SP!ServerInv, SP!Scalars
<1> QED BY <1>1, <1>2 DEF Links

\* The types behind it.
LEMMA AgreeTypes ==
    ASSUME Inv
    PROVE  /\ CP!Good(client) /\ CP!Connection(client) /\ CP!IInv
           /\ client.sessions \subseteq SessionIds
           /\ DOMAIN sessions \subseteq SessionIds /\ DOMAIN sessions \subseteq created
           /\ created \subseteq SessionIds
           /\ \A r \in DOMAIN requests : /\ requests[r].session \in created \cup {NoSession}
                                         /\ asked[r] \in SentBy(client)
           /\ \A x \in Coming : x \in SentTo(client)
           /\ \A n \in Links : up[n] \in Seq(SentBy(client))
           /\ accepted \in Nat /\ received \in Nat
           /\ \A c \in DOMAIN conns : conns[c] # 0
<1>1. /\ CP!Good(client) /\ CP!Connection(client) /\ CP!IInv
      /\ client.sessions \subseteq SessionIds
  BY DEF Inv, CP!IInv, CP!Good, CP!Client
<1>2. /\ DOMAIN sessions \subseteq created /\ created \subseteq SessionIds
      /\ accepted \in Nat /\ received \in Nat /\ \A c \in DOMAIN conns : conns[c] # 0
  BY DEF Inv, SP!ServerInv, SP!SessionsOK, SP!Scalars
<1>3. /\ \A r \in DOMAIN requests : requests[r].session \in created \cup {NoSession}
      /\ DOMAIN requests \subseteq 1..received
  BY DEF Inv, SP!ServerInv, SP!Good
<1>4. \A r \in DOMAIN requests : asked[r] \in SentBy(client)
  BY <1>3 DEF Inv, AskedOK
<1>5. \A x \in Coming : x \in SentTo(client)
  BY DEF Inv, Coming
<1> QED BY <1>1, <1>2, <1>3, <1>4, <1>5 DEF Inv

\* All sessions are removed on the client's side.
LEMMA DropsAgrees ==
    ASSUME NEW c, NEW d, NEW u, NEW W, NEW G, NEW R, NEW A, NEW K,
           Agrees(c, u, W, G, R, A, K), CP!Drops(d), DOMAIN G \subseteq SessionIds
    PROVE  Agrees(d, u, W, G, R, A, K)
<1>1. ~d.is_pending /\ d.sessions = {} /\ \A s \in DOMAIN G : d.medias[s] = {}
  BY DEF CP!Drops
<1>2. Names(d, u, W, K)
  BY <1>1 DEF Agrees, Names
<1>3. Single(d, u, G)
  BY <1>1 DEF Agrees, Single
<1>4. Whole(d, u, G) /\ Agreed(d, G) /\ SetUp(d, u, W, G, R, A) /\ Last(d, u)
  BY <1>1 DEF Whole, Agreed, SetUp, Last, Waits
<1> QED BY <1>2, <1>3, <1>4 DEF Agrees

\* Before the first connection and on it the client is tidy.
LEMMA EarlyTidy == ASSUME AgreeInv, First \/ accepted = 0 PROVE CP!Tidy(client)
BY DEF AgreeInv, CP!Drops, CP!Tidy

\* A step of the client on its first connection, which sends or does not.
LEMMA SendsAgree ==
    ASSUME Inv, AgreeInv, accepted # 0, Sends, CP!Good(client'),
           First => /\ CP!Tidy(client')
                    /\ \/ CP!Stays(client, client')
                       \/ CP!Asks(client, client')
                       \/ /\ client.is_pending
                          /\ \E ok \in BOOLEAN : ~ok /\
                                CP!Ends(client, client', client.request.session, ok)
    PROVE  AgreeInv'
<1>1. /\ UNCHANGED <<conns, sessions, requests, status, accepted, received, created>>
      /\ UNCHANGED <<link, down, asked>>
  BY DEF Sends, serverVars
<1>2. (First' <=> First) /\ Coming' = Coming
  BY <1>1 DEF First, LinkOpen, Coming, S!Running
<1>3. ASSUME First
      PROVE  Agrees(client', up'[1], Coming, sessions, requests, asked, created)
  <2>1. link = 1 /\ 1 \in Links /\ LinkOpen
    BY <1>3, FirstLink DEF First
  <2>2. up'[1] = up[1] \o Sent
    BY <2>1 DEF Sends
  <2>3. /\ Agrees(client, up[1], Coming, sessions, requests, asked, created)
        /\ CP!Good(client) /\ client.sessions \subseteq SessionIds
        /\ DOMAIN sessions \subseteq SessionIds
        /\ up[1] \in Seq(SentBy(client)) /\ Coming \subseteq Coming
    BY <1>3, <2>1, AgreeTypes DEF AgreeInv
  <2>4. CASE CP!Stays(client, client')
    <3>1. Sent = << >>
      BY <2>4 DEF CP!Stays, Sent
    <3>2. up'[1] = up[1]
      BY <2>2, <2>3, <3>1
    <3> QED BY <2>3, <2>4, <3>2, StaysAgrees
  <2>5. ASSUME client.is_pending, NEW ok \in BOOLEAN, ~ok,
               CP!Ends(client, client', client.request.session, ok)
        PROVE  Agrees(client', up'[1], Coming, sessions, requests, asked, created)
    <3>1. Sent = << >>
      BY <2>5 DEF CP!Ends, Sent
    <3>2. up'[1] = up[1]
      BY <2>2, <2>3, <3>1
    <3>3. client.request.session \in created \cup {NoSession}
      BY <2>3, <2>5 DEF Agrees, Names
    <3>4. client'.sessions \subseteq SessionIds /\ CP!Tidy(client')
      BY <1>3 DEF CP!Good, CP!Client
    <3> QED BY <2>3, <2>5, <3>2, <3>3, <3>4, EndsAgrees
  <2>6. CASE CP!Asks(client, client')
    <3> DEFINE q == client'.request
    <3>1. q.cseq = client.cseq /\ q \in client'.wire /\ client.cseq \in Nat
      BY <2>3, <2>6 DEF CP!Asks, CP!Good, CP!Client
    <3>2. q \notin client.wire /\ q \in CP!Request
      BY <2>3, <3>1 DEF CP!Good, CP!Slot, CP!Client
    <3>3. \A m \in SentBy(client) : m # q
      BY <3>1 DEF SentBy
    <3>4. Sent = <<q>>
      BY <3>1, <3>2 DEF Sent
    <3>5. up[1] \in Seq(CP!Request)
      <4>1. SentBy(client) \subseteq CP!Request
        BY DEF SentBy
      <4> QED BY <2>3, <4>1, SeqMonotonic
    <3> HIDE DEF q
    <3>6. up'[1] = Append(up[1], q)
      BY <2>2, <3>2, <3>4, <3>5
    <3>7. /\ \A i \in DOMAIN up[1] : up[1][i] # q
          /\ \A x \in Coming : x.type = "response" => x.request # q
          /\ \A r \in DOMAIN requests : asked[r] # q
      <4>1. \A i \in DOMAIN up[1] : up[1][i] \in SentBy(client)
        BY <2>3
      <4> QED BY <3>3, <4>1, AgreeTypes DEF SentTo
    <3> QED BY <2>3, <2>6, <3>2, <3>5, <3>6, <3>7, AsksAgrees DEF q
  <2> QED BY <1>3, <2>4, <2>5, <2>6
<1> QED BY <1>1, <1>2, <1>3 DEF AgreeInv

\* A step of the client that closes the connection.
LEMMA ClosesAgree ==
    ASSUME Inv, AgreeInv, Closes, accepted = 0 => CP!Drops(client')
    PROVE  AgreeInv'
<1>1. /\ UNCHANGED <<conns, sessions, requests, status, accepted, received, created>>
      /\ link' = 0 /\ down' = << >>
  BY DEF Closes, serverVars
<1>2. ~First'
  BY <1>1, AgreeTypes DEF First, LinkOpen
<1> QED BY <1>1, <1>2 DEF AgreeInv

\* A step of the client that the network takes no part in.
LEMMA AloneAgree ==
    ASSUME Inv, AgreeInv, UNCHANGED <<serverVars, netVars>>,
           First \/ accepted = 0 =>
              \/ CP!Drops(client')
              \/ /\ CP!Stays(client, client') /\ CP!Tidy(client')
                 /\ client'.conn_state = "CONNECTED" => client.conn_state = "CONNECTED"
    PROVE  AgreeInv'
<1>1. /\ UNCHANGED <<conns, sessions, requests, status, accepted, received, created>>
      /\ UNCHANGED <<link, up, down, asked>>
  BY DEF serverVars, netVars
<1>2. (First' <=> First) /\ Coming' = Coming
  BY <1>1 DEF First, LinkOpen, Coming, S!Running
<1>3. ASSUME First
      PROVE  /\ CP!Tidy(client')
             /\ Agrees(client', up[1], Coming, sessions, requests, asked, created)
  <2>1. /\ Agrees(client, up[1], Coming, sessions, requests, asked, created)
        /\ DOMAIN sessions \subseteq SessionIds /\ Coming \subseteq Coming
    BY <1>3, AgreeTypes DEF AgreeInv
  <2>2. CASE CP!Drops(client')
    BY <2>1, <2>2, DropsAgrees DEF CP!Tidy, CP!Drops
  <2>3. CASE CP!Stays(client, client') /\ CP!Tidy(client')
    BY <2>1, <2>3, StaysAgrees
  <2> QED BY <1>3, <2>2, <2>3
<1>4. ASSUME accepted = 0 PROVE CP!Drops(client')
  <2>1. CP!Drops(client)
    BY <1>4 DEF AgreeInv
  <2>2. ASSUME CP!Stays(client, client'),
               client'.conn_state = "CONNECTED" => client.conn_state = "CONNECTED"
        PROVE  CP!Drops(client')
    BY <2>1, <2>2 DEF CP!Stays, CP!Fewer, CP!Drops
  <2> QED BY <1>4, <2>2
<1> QED BY <1>1, <1>2, <1>3, <1>4 DEF AgreeInv

\* A call of the client's application.
LEMMA RequestAgree == ASSUME Inv, AgreeInv, Request PROVE AgreeInv'
<1>1. client.owed = {} /\ Sends /\ CP!Good(client')
  BY RequestInv DEF Request, Inv, CP!IInv
<1>2. \/ \E s \in client.sessions \cup {NoSession}, md \in Medias : CP!Setup(s, md, "OK", FALSE)
      \/ \E s \in client.sessions : CP!Play(s, "OK", FALSE)
      \/ \E s \in client.sessions : \E md \in client.medias[s] \cup {NoMedia} :
            CP!Teardown(s, md, "OK", FALSE)
  BY ClientIsTheSame, Zenon DEF Request
<1>3. client.conn_state = "CONNECTED"
  BY <1>2 DEF CP!Setup, CP!Play, CP!Teardown, CP!CanRequest, CP!CanSend
<1>4. accepted # 0
  BY <1>3 DEF AgreeInv, CP!Drops
<1>5. ASSUME First PROVE CP!Asks(client, client') /\ CP!Tidy(client')
  <2>1. CP!IInv /\ CP!Tidy(client)
    BY <1>5 DEF Inv, AgreeInv
  <2>2. ASSUME NEW s \in client.sessions \cup {NoSession}, NEW md \in Medias,
               CP!Setup(s, md, "OK", FALSE)
        PROVE  CP!Asks(client, client') /\ CP!Tidy(client')
    BY <1>1, <2>1, <2>2, Hypotheses, CP!SetupAsks DEF ClientHypotheses
  <2>3. ASSUME NEW s \in client.sessions, CP!Play(s, "OK", FALSE)
        PROVE  CP!Asks(client, client') /\ CP!Tidy(client')
    BY <1>1, <2>1, <2>3, Hypotheses, CP!PlayAsks DEF ClientHypotheses
  <2>4. ASSUME NEW s \in client.sessions, NEW md \in client.medias[s] \cup {NoMedia},
               CP!Teardown(s, md, "OK", FALSE)
        PROVE  CP!Asks(client, client') /\ CP!Tidy(client')
    BY <1>1, <2>1, <2>4, Hypotheses, CP!TeardownAsks DEF ClientHypotheses
  <2> QED BY <1>2, <2>2, <2>3, <2>4
<1> QED BY <1>1, <1>4, <1>5, SendsAgree

\* rtsp_client_cancel()
LEMMA CancelAgree == ASSUME Inv, AgreeInv, Cancel PROVE AgreeInv'
<1>1. CP!Cancel /\ Sends /\ CP!Good(client') /\ CP!IInv
  BY ClientIsTheSame, CancelInv DEF Cancel, Inv, CP!IInv
<1>2. client.is_pending
  BY <1>1 DEF CP!Cancel
<1>3. accepted # 0
  BY <1>2 DEF AgreeInv, CP!Drops
<1>4. ASSUME First
      PROVE  /\ CP!Tidy(client')
             /\ \E ok \in BOOLEAN : ~ok /\
                   CP!Ends(client, client', client.request.session, ok)
  <2>1. CP!Tidy(client)
    BY <1>4 DEF AgreeInv
  <2>2. CP!Tidy(client') /\ CP!Ends(client, client', client.request.session, FALSE)
    BY <1>1, <2>1, Hypotheses, CP!CancelEnds DEF ClientHypotheses
  <2>3. FALSE \in BOOLEAN /\ ~FALSE
    OBVIOUS
  <2> QED BY <2>2, <2>3, Zenon
<1> QED BY <1>1, <1>2, <1>3, <1>4, SendsAgree

\* A keep-alive.
LEMMA KeepAliveTimerAgree ==
    ASSUME Inv, AgreeInv, NEW s \in SessionIds, KeepAliveTimer(s) PROVE AgreeInv'
<1>1. CP!KeepAliveTimer(s, "OK") /\ Sends /\ CP!Good(client') /\ CP!IInv
  BY ClientIsTheSame, KeepAliveTimerInv DEF KeepAliveTimer, Inv, CP!IInv
<1>2. s \in client.sessions
  BY <1>1 DEF CP!KeepAliveTimer, CP!IInv, CP!Good, CP!Flags
<1>3. accepted # 0
  BY <1>2 DEF AgreeInv, CP!Drops
<1>4. ASSUME First
      PROVE  /\ CP!Tidy(client')
             /\ CP!Stays(client, client') \/ CP!Asks(client, client')
  <2>1. CP!Tidy(client)
    BY <1>4 DEF AgreeInv
  <2> QED BY <1>1, <2>1, Hypotheses, CP!KeepAliveTimerAsks DEF ClientHypotheses
<1> QED BY <1>1, <1>3, <1>4, SendsAgree

\* A timeout: this is where the client with two sessions would give up one of
\* them under the request of the other.
LEMMA ResponseTimeoutAgree ==
    ASSUME CP!OneSession, Inv, AgreeInv, ResponseTimeout PROVE AgreeInv'
<1>1. CP!ResponseTimeout("OK", TRUE) /\ CP!Good(client') /\ CP!IInv
  BY ClientIsTheSame, ResponseTimeoutInv, Zenon DEF ResponseTimeout, Inv, CP!IInv
<1>2. client.is_pending
  BY <1>1 DEF CP!ResponseTimeout, CP!IInv, CP!Good, CP!Slot
<1>3. accepted # 0
  BY <1>2 DEF AgreeInv, CP!Drops
<1>4. CASE client'.sock
  <2>1. Sends
    BY <1>4 DEF ResponseTimeout
  <2>2. ASSUME First
        PROVE  /\ CP!Tidy(client')
               /\ \/ CP!Asks(client, client')
                  \/ \E ok \in BOOLEAN : ~ok /\
                        CP!Ends(client, client', client.request.session, ok)
    <3>1. CP!Tidy(client)
      BY <2>2 DEF AgreeInv
    <3>2. PICK connect_ok \in BOOLEAN : CP!ResponseTimeout("OK", connect_ok)
      BY <1>1, Zenon
    <3>3. /\ CP!Tidy(client')
          /\ \/ CP!Ends(client, client', client.request.session, FALSE)
             \/ CP!Asks(client, client')
      BY <1>1, <1>4, <3>1, <3>2, Hypotheses, CP!ResponseTimeoutEnds DEF ClientHypotheses
    <3>4. FALSE \in BOOLEAN /\ ~FALSE
      OBVIOUS
    <3> QED BY <3>3, <3>4, Zenon
  <2> QED BY <1>1, <1>2, <1>3, <2>1, <2>2, SendsAgree
<1>5. CASE ~client'.sock
  BY <1>3, <1>5, ClosesAgree DEF ResponseTimeout
<1> QED BY <1>4, <1>5

\* Connecting, up to the socket.
LEMMA ConnectAgree == ASSUME Inv, AgreeInv, Connect PROVE AgreeInv'
<1>1. CP!Connect("OK") /\ CP!IInv
  BY ClientIsTheSame DEF Connect, Inv
<1>2. ASSUME First \/ accepted = 0
      PROVE  /\ CP!Stays(client, client') /\ CP!Tidy(client')
             /\ client'.conn_state # "CONNECTED"
  BY <1>1, <1>2, EarlyTidy, Hypotheses, CP!ConnectStays DEF ClientHypotheses
<1> QED BY <1>2, AloneAgree DEF Connect

\* The end of the lookup.
LEMMA ResolvDoneAgree ==
    ASSUME Inv, AgreeInv, NEW ok \in BOOLEAN, ResolvDone(ok) PROVE AgreeInv'
<1>1. CP!ResolvDone(ok) /\ CP!IInv
  BY ClientIsTheSame, Zenon DEF ResolvDone, Inv
<1>2. ASSUME First \/ accepted = 0
      PROVE  /\ CP!Stays(client, client') /\ CP!Tidy(client')
             /\ client'.conn_state = "CONNECTED" => client.conn_state = "CONNECTED"
  BY <1>1, <1>2, EarlyTidy, Hypotheses, CP!ResolvDoneStays DEF ClientHypotheses
<1> QED BY <1>2, AloneAgree DEF ResolvDone

\* Its timeout.
LEMMA ResolvTimeoutAgree == ASSUME Inv, AgreeInv, ResolvTimeout PROVE AgreeInv'
<1>1. CP!ResolvTimeout /\ CP!IInv
  BY ClientIsTheSame DEF ResolvTimeout, Inv
<1>2. ASSUME First \/ accepted = 0 PROVE CP!Drops(client')
  BY <1>1, <1>2, EarlyTidy, Hypotheses, CP!ResolvTimeoutDrops DEF ClientHypotheses
<1> QED BY <1>2, AloneAgree DEF ResolvTimeout

\* The end of the connection, from the application or from below.
LEMMA DisconnectAgree == ASSUME Inv, AgreeInv, Disconnect PROVE AgreeInv'
<1>1. CP!Disconnect /\ CP!IInv
  BY ClientIsTheSame DEF Disconnect, Inv
<1>2. ASSUME accepted = 0 PROVE CP!Drops(client')
  BY <1>1, <1>2, EarlyTidy, Hypotheses, CP!DisconnectEnds DEF ClientHypotheses
<1> QED BY <1>2, ClosesAgree DEF Disconnect

\* The connection is found closed.
LEMMA ClientLosesAgree == ASSUME Inv, AgreeInv, ClientLoses PROVE AgreeInv'
<1>1. CP!SocketDisconnected /\ CP!IInv
  BY ClientIsTheSame DEF ClientLoses, Inv
<1>2. client.conn_state = "CONNECTED"
  BY <1>1 DEF CP!SocketDisconnected, CP!IInv, CP!Connection
<1>3. accepted # 0
  BY <1>2 DEF AgreeInv, CP!Drops
<1> QED BY <1>3, ClosesAgree DEF ClientLoses

\* The first connection carries nothing yet, and neither side has a session.
LEMMA ConnectedAgree == ASSUME Inv, AgreeInv, NEW c \in Conns, Connected(c) PROVE AgreeInv'
<1>1. PICK failed \in SUBSET client.sessions, first \in CP!SessionOrNone :
          CP!SocketConnected(failed, first, "OK")
  BY ClientIsTheSame, Zenon DEF Connected
<1>2. SP!Connected(c) /\ CP!IInv /\ accepted \in Nat /\ link' = accepted'
      /\ up' = [up EXCEPT ![accepted'] = Sent] /\ down' = << >>
  BY ServerIsTheSame, AgreeTypes DEF Connected
<1>3. /\ accepted' = accepted + 1 /\ accepted < MaxAccepts
      /\ DOMAIN conns' = DOMAIN conns \cup {c}
      /\ \A x \in DOMAIN conns' : conns'[x] = IF x = c THEN accepted + 1 ELSE conns[x]
      /\ UNCHANGED <<sessions, requests, received, created>>
  BY <1>2 DEF SP!Connected
<1>4. \A x \in DOMAIN conns' : conns'[x] <= accepted'
  <2>1. ASSUME NEW x \in DOMAIN conns PROVE conns[x] \in Nat /\ conns[x] <= accepted
    BY DEF AgreeInv, Inv, SP!ServerInv, SP!Scalars
  <2> QED BY <1>2, <1>3, <2>1
<1>5. ASSUME First'
      PROVE  /\ CP!Tidy(client')
             /\ Agrees(client', up'[1], Coming', sessions, requests, asked', created)
  <2>1. accepted = 0
    BY <1>2, <1>3, <1>5 DEF First
  <2>2. CP!Tidy(client) /\ client.sessions = {} /\ created = {}
    BY <2>1, EarlyTidy DEF AgreeInv, CP!Drops
  <2>3. /\ ~client'.is_pending /\ client'.sessions = {}
        /\ \A s \in SessionIds : client'.medias[s] = {}
        /\ client'.wire \subseteq client.wire
    BY <1>1, <1>2, <2>2, Hypotheses, CP!FirstConnected DEF ClientHypotheses
  <2>4. up'[1] = << >>
    <3>1. 1 \in Links /\ accepted' = 1 /\ Sent = << >>
      BY <1>3, <2>1, <2>3, SystemAssumption DEF Links, Sent
    <3> QED BY <1>2, <3>1 DEF Inv
  <2>5. Coming' = {}
    BY <1>2 DEF Coming
  <2>6. DOMAIN sessions = {}
    BY <2>2, AgreeTypes
  <2>7. CP!Tidy(client')
    BY <2>3 DEF CP!Tidy
  <2>8. Names(client', up'[1], Coming', created)
    BY <2>3, <2>4, <2>5 DEF Names
  <2>9. /\ Whole(client', up'[1], sessions) /\ Single(client', up'[1], sessions)
        /\ Agreed(client', sessions)
    BY <2>6 DEF Whole, Single, Agreed
  <2>10. SetUp(client', up'[1], Coming', sessions, requests, asked') /\ Last(client', up'[1])
    BY <2>3 DEF SetUp, Last, Waits
  <2> QED BY <2>7, <2>8, <2>9, <2>10 DEF Agrees
<1>6. accepted' # 0
  BY <1>2, <1>3
<1> QED BY <1>3, <1>4, <1>5, <1>6 DEF AgreeInv

\* What is on its way once the client has read a message.
LEMMA TailComing ==
    ASSUME Inv, down # << >>, down' = Tail(down)
    PROVE  Coming' \subseteq Coming /\ Head(down) \in Coming
<1>1. down \in Seq(SentTo(client))
  BY DEF Inv
<1>2. /\ \A i \in DOMAIN Tail(down) : i + 1 \in DOMAIN down /\ Tail(down)[i] = down[i + 1]
      /\ 1 \in DOMAIN down /\ Head(down) = down[1]
  BY <1>1, TailIs
<1> QED BY <1>2 DEF Coming

\* The client reads a message: the answer to its SETUP finds the media at the
\* server, that to its TEARDOWN takes what it named.
LEMMA ReceiveAgree == ASSUME Inv, AgreeInv, Receive PROVE AgreeInv'
<1> DEFINE d == Head(down)
<1>1. /\ down # << >> /\ down' = Tail(down)
      /\ UNCHANGED <<serverVars, link, up, asked>>
      /\ IF d.type = "response"
         THEN \E s \in C!SessionOrNone : ReceiveResponse(d, s)
         ELSE \/ C!ServerTeardown(d.session, d.media)
              \/ d.session \notin client.sessions /\ UNCHANGED client
  BY DEF Receive
<1>2. Coming' \subseteq Coming /\ d \in Coming /\ d \in SentTo(client)
  BY <1>1, TailComing, AgreeTypes
<1>3. UNCHANGED <<conns, sessions, requests, status, accepted, received, created, link>>
  BY <1>1 DEF serverVars
<1>4. First' <=> First
  BY <1>3 DEF First, LinkOpen, S!Running
<1> HIDE DEF d
<1>5. ASSUME First
      PROVE  /\ CP!Tidy(client')
             /\ Agrees(client', up[1], Coming', sessions, requests, asked, created)
  <2>1. /\ CP!Tidy(client) /\ CP!Good(client) /\ CP!IInv
        /\ Agrees(client, up[1], Coming, sessions, requests, asked, created)
        /\ DOMAIN sessions \subseteq SessionIds /\ CP!Good(client')
    BY <1>5, AgreeTypes, ReceiveInv DEF AgreeInv, Inv, CP!IInv
  <2>2. CASE CP!Stays(client, client') /\ CP!Tidy(client')
    BY <1>2, <2>1, <2>2, StaysAgrees
  <2>3. CASE d.type # "response"
    <3>1. CASE C!ServerTeardown(d.session, d.media)
      <4>1. CP!ServerTeardown(d.session, d.media)
        BY <3>1, ClientIsTheSame
      <4> QED BY <2>1, <2>2, <4>1, Hypotheses, CP!ServerTeardownStays DEF ClientHypotheses
    <3>2. CASE UNCHANGED client
      BY <2>1, <2>2, <3>2 DEF CP!Stays, CP!Fewer
    <3> QED BY <1>1, <2>3, <3>1, <3>2
  <2>4. CASE d.type = "response"
    <3>1. PICK s \in C!SessionOrNone : ReceiveResponse(d, s)
      BY <1>1, <2>4
    <3> DEFINE resp == [code |-> d.code, session |-> d.session, public |-> {}]
               e == [CP!response_process(client, d.request.cseq, resp, s)
                        EXCEPT !.wire = @ \ {d.request}]
               sid == CP!SessionOf(client.request, resp)
    <3>2. s # NoSession => s \in client.keep_alive
      BY <3>1 DEF ReceiveResponse
    <3>3. client' = e
      <4>1. C!response_process(client, d.request.cseq, resp, s)
               = CP!response_process(client, d.request.cseq, resp, s)
        BY ClientIsTheSame, Zenon
      <4> QED BY <3>1, <4>1, ClientIsTheSame, Zenon DEF ReceiveResponse, CP!Becomes
    <3>4. /\ d.request \in SentBy(client) /\ d.code \in {"2xx", "454", "other"}
          /\ d.session \in CP!SessionOrNone
          /\ d.request.session # NoSession => d.session \in {d.request.session, NoSession}
      BY <1>2, <2>4, ClientIsTheSame DEF SentTo, Message
    <3>5. resp \in CP!Response
      BY <3>4 DEF CP!Response
    <3>6. /\ d.request.cseq = client.request.cseq =>
                client.is_pending /\ d.request = client.request
          /\ resp.session = d.session /\ resp.code = d.code
      BY <3>4 DEF SentBy
    <3>7. sid = IF d.session # NoSession THEN d.session ELSE client.request.session
      BY DEF CP!SessionOf
    <3> HIDE DEF resp, sid
    <3>8. /\ CP!Tidy(e)
          /\ d.request.cseq = client.request.cseq =>
                CP!Ends(client, e, sid, resp.code = "2xx")
          /\ d.request.cseq # client.request.cseq => CP!Stays(client, e)
      BY <2>1, <3>2, <3>4, <3>5, <3>6, Hypotheses, CP!ResponseProcessEnds
         DEF ClientHypotheses, sid
    <3> HIDE DEF e
    <3>9. CASE d.request.cseq # client.request.cseq
      BY <2>2, <3>3, <3>8, <3>9
    <3>10. CASE d.request.cseq = client.request.cseq
      <4>1. PICK ok \in BOOLEAN :
               (ok <=> d.code = "2xx") /\ CP!Ends(client, client', sid, ok)
        <5>1. CP!Ends(client, client', sid, resp.code = "2xx")
              /\ (resp.code = "2xx" <=> d.code = "2xx") /\ (resp.code = "2xx") \in BOOLEAN
          BY <3>3, <3>6, <3>8, <3>10
        <5> QED BY <5>1, Zenon
      <4>2. /\ d.session \in created \cup {NoSession}
            /\ d.code = "2xx" <=> d.session # NoSession
            /\ client.request.session \in created \cup {NoSession}
        BY <1>2, <2>1, <2>4, <3>6, <3>10 DEF Agrees, Names
      <4>3. sid \in created \cup {NoSession}
        BY <3>7, <4>2
      <4>4. ASSUME client.request.method = "SETUP"
            PROVE  (sid = client.request.session /\ ~ok)
                      \/ Found(client, up[1], sessions, sid)
        <5>1. CASE d.code # "2xx"
          BY <3>7, <4>1, <4>2, <5>1
        <5>2. CASE d.code = "2xx"
          <6>1. sid = d.session
            BY <3>7, <4>2, <5>2
          <6> QED BY <1>2, <2>1, <2>4, <3>6, <3>10, <4>4, <5>2, <6>1 DEF Agrees, SetUp
        <5> QED BY <5>1, <5>2
      <4>5. client'.sessions \subseteq SessionIds /\ client.is_pending
        BY <2>1, <3>6, <3>10 DEF CP!Good, CP!Client
      <4> QED BY <1>2, <2>1, <3>3, <3>8, <4>1, <4>3, <4>4, <4>5, EndsAgrees
    <3> QED BY <3>9, <3>10
  <2> QED BY <2>3, <2>4
<1>6. accepted # 0
  BY <1>1 DEF AgreeInv
<1> QED BY <1>1, <1>3, <1>4, <1>5, <1>6 DEF AgreeInv

\* A step of the server that reads no message of the client.
LEMMA ServerAgree ==
    ASSUME Inv, AgreeInv, SP!Next, UNCHANGED <<accepted, received, created>>,
           UNCHANGED <<client, link, asked>>,
           \A c \in DOMAIN conns' : c \in DOMAIN conns /\ conns'[c] = conns[c],
           SP!Running, SP!KeepsMedias(sessions, sessions'),
           accepted = 0 => down' = down,
           First => up'[1] = up[1] \/ up'[1] = << >>,
           \A x \in Coming' : x \in Coming \/ MaySend(x, requests, asked, created)
    PROVE  AgreeInv'
<1>1. SP!KeepsRequests /\ received \in Nat
  <2>1. SP!ServerInv
    BY DEF Inv
  <2> QED BY <2>1, AgreeTypes, Hypotheses, SP!NextKept DEF ServerHypotheses
<1>2. \A r \in DOMAIN requests' :
         r \in DOMAIN requests /\ requests'[r].session = requests[r].session
  BY <1>1 DEF SP!KeepsRequests, SP!Kept
<1>3. First' => First
  BY DEF First, LinkOpen, S!Running, SP!Running
<1>4. ASSUME First
      PROVE  Agrees(client, up'[1], Coming', sessions', requests', asked, created)
  <2>1. Agrees(client, up[1], Coming, sessions, requests, asked, created)
    BY <1>4 DEF AgreeInv
  <2> QED BY <1>2, <1>4, <2>1, KeepsAgrees
<1> QED BY <1>3, <1>4 DEF AgreeInv

\* What is on its way once the server has sent msg.
LEMMA AppendComing ==
    ASSUME Inv, NEW msg \in SentTo(client), down' = down \/ down' = Append(down, msg)
    PROVE  \A x \in Coming' : x \in Coming \/ x = msg
<1>1. down \in Seq(SentTo(client))
  BY DEF Inv
<1>2. CASE down' = Append(down, msg)
  <2>1. /\ DOMAIN down' = DOMAIN down \cup {Len(down) + 1} /\ down'[Len(down) + 1] = msg
        /\ \A i \in DOMAIN down : down'[i] = down[i]
    BY <1>1, <1>2, AppendIs
  <2> QED BY <2>1 DEF Coming
<1>3. CASE down' = down
  BY <1>3 DEF Coming
<1> QED BY <1>2, <1>3

\* A step of the server that sends nothing.
LEMMA SilentAgree ==
    ASSUME Inv, AgreeInv, SP!Next, SP!Running, SP!KeepsMedias(sessions, sessions'),
           UNCHANGED <<conns, accepted, received, created>>, UNCHANGED <<client, netVars>>
    PROVE  AgreeInv'
<1>1. UNCHANGED <<link, up, down, asked>> /\ Coming' = Coming
  BY DEF netVars, Coming
<1> QED BY <1>1, ServerAgree

\* The callbacks of a request return, and it may end.
LEMMA CallbackReturnAgree == ASSUME Inv, AgreeInv, CallbackReturn PROVE AgreeInv'
<1>1. PICK r \in SP!RequestIds : SP!CallbackReturn(r)
  BY ServerIsTheSame, Zenon DEF CallbackReturn
<1>2. /\ SP!LoopNext /\ SP!Next /\ SP!Running
      /\ UNCHANGED <<conns, accepted, received, created>>
  BY <1>1 DEF SP!Next, SP!LoopNext, SP!CallbackReturn
<1>3. SP!KeepsMedias(sessions, sessions')
  BY <1>2, Hypotheses, SP!LoopMedias DEF Inv, ServerHypotheses
<1> QED BY <1>2, <1>3, SilentAgree DEF CallbackReturn

\* A session expires: its medias go with it.
LEMMA SessionTimeoutAgree ==
    ASSUME Inv, AgreeInv, NEW s \in SessionIds, SessionTimeout(s) PROVE AgreeInv'
<1>1. SP!SessionTimeout(s)
  BY ServerIsTheSame DEF SessionTimeout
<1>2. /\ SP!LoopNext /\ SP!Next /\ SP!Running
      /\ UNCHANGED <<conns, accepted, received, created>>
  BY <1>1 DEF SP!Next, SP!LoopNext, SP!SessionTimeout, SP!InLoop
<1>3. SP!KeepsMedias(sessions, sessions')
  BY <1>2, Hypotheses, SP!LoopMedias DEF Inv, ServerHypotheses
<1> QED BY <1>2, <1>3, SilentAgree DEF SessionTimeout

\* The same for a session whose first SETUP failed.
LEMMA SessionRemoveIdleAgree ==
    ASSUME Inv, AgreeInv, NEW s \in SessionIds, SessionRemoveIdle(s) PROVE AgreeInv'
<1>1. SP!SessionRemoveIdle(s)
  BY ServerIsTheSame DEF SessionRemoveIdle
<1>2. /\ SP!LoopNext /\ SP!Next /\ SP!Running
      /\ UNCHANGED <<conns, accepted, received, created>>
  BY <1>1 DEF SP!Next, SP!LoopNext, SP!SessionRemoveIdle, SP!InLoop
<1>3. SP!KeepsMedias(sessions, sessions')
  BY <1>2, Hypotheses, SP!LoopMedias DEF Inv, ServerHypotheses
<1> QED BY <1>2, <1>3, SilentAgree DEF SessionRemoveIdle

\* The server loses a connection.
LEMMA ServerLosesAgree ==
    ASSUME Inv, AgreeInv, NEW c \in Conns, ServerLoses(c) PROVE AgreeInv'
<1>1. SP!Disconnected(c) /\ UNCHANGED <<client, link, down, asked>>
      /\ up' = [up EXCEPT ![conns[c]] = << >>]
  BY ServerIsTheSame DEF ServerLoses
<1>2. /\ SP!Next /\ SP!Running
      /\ UNCHANGED <<sessions, accepted, received, created>>
      /\ conns' = SP!Restrict(conns, DOMAIN conns \ {c})
  BY <1>1 DEF SP!Next, SP!ConnNext, SP!Disconnected, SP!InLoop
<1>3. \A x \in DOMAIN conns' : x \in DOMAIN conns /\ conns'[x] = conns[x]
  BY <1>2 DEF SP!Restrict
<1>4. SP!KeepsMedias(sessions, sessions')
  BY <1>2 DEF SP!KeepsMedias, SP!Has
<1>5. ASSUME First PROVE up'[1] = up[1] \/ up'[1] = << >>
  <2>1. 1 \in Links
    BY <1>5, FirstLink
  <2>2. 1 \in DOMAIN up
    BY <2>1 DEF Inv
  <2> QED BY <1>1, <2>2
<1>6. Coming' = Coming
  BY <1>1 DEF Coming
<1> QED BY <1>1, <1>2, <1>3, <1>4, <1>5, <1>6, ServerAgree

\* The reply timer answers with errors.
LEMMA RequestTimeoutAgree == ASSUME Inv, AgreeInv, RequestTimeout PROVE AgreeInv'
<1>1. PICK k \in SP!RequestIds :
         /\ SP!RequestTimeout(k)
         /\ LET late == {r \in DOMAIN requests : requests[r].pending /\ r <= k
                            /\ requests[r].conn # NoConn /\ requests[r].from = link}
            IN  \E order \in [1..Cardinality(late) -> late] :
                    down' = down \o [i \in DOMAIN order |->
                          ResponseTo(asked[order[i]], NoSession, "other")]
  BY ServerIsTheSame, Zenon DEF RequestTimeout
<1> DEFINE late == {r \in DOMAIN requests : requests[r].pending /\ r <= k
                            /\ requests[r].conn # NoConn /\ requests[r].from = link}
<1>2. PICK order \in [1..Cardinality(late) -> late] :
          down' = down \o [i \in DOMAIN order |->
                              ResponseTo(asked[order[i]], NoSession, "other")]
  BY <1>1
<1>3. received \in Nat /\ late \subseteq 1..received
  BY DEF Inv, SP!ServerInv, SP!Scalars, SP!Good
<1> HIDE DEF late
<1>4. Cardinality(late) \in Nat
  <2>1. IsFiniteSet(1..received)
    BY <1>3, FS_Interval
  <2>2. IsFiniteSet(late)
    BY <1>3, <2>1, FS_Subset
  <2> QED BY <2>2, FS_CardinalityType
<1> DEFINE answers == [i \in DOMAIN order |-> ResponseTo(asked[order[i]], NoSession, "other")]
           Errors == {x : x \in {answers[i] : i \in DOMAIN order}}
<1>5. answers \in Seq(Errors)
  <2>1. answers \in [1..Cardinality(late) -> Errors]
    OBVIOUS
  <2> HIDE DEF answers, Errors
  <2> QED BY <1>4, <2>1, SeqDef
<1>6. \A x \in Errors : MaySend(x, requests, asked, created)
  BY DEF ResponseTo, MaySend
<1>7. down' = down \o answers /\ down \in Seq(SentTo(client))
  BY <1>2 DEF Inv
<1> HIDE DEF answers, Errors
<1>8. \A x \in Coming' : x \in Coming \/ MaySend(x, requests, asked, created)
  <2>1. \A i \in DOMAIN down' : \/ i \in DOMAIN down /\ down'[i] = down[i]
                                \/ down'[i] \in Errors
    BY <1>5, <1>7
  <2> QED BY <1>6, <2>1 DEF Coming
<1>9. /\ SP!LoopNext /\ SP!Next /\ SP!Running
      /\ UNCHANGED <<conns, accepted, received, created>>
      /\ DOMAIN requests # {}
  BY <1>1 DEF SP!Next, SP!LoopNext, SP!RequestTimeout, SP!InLoop
<1>10. SP!KeepsMedias(sessions, sessions')
  BY <1>9, Hypotheses, SP!LoopMedias DEF Inv, ServerHypotheses
<1>11. accepted # 0
  BY <1>9 DEF AgreeInv, Inv, SP!ServerInv, SP!Good
<1> QED BY <1>8, <1>9, <1>10, <1>11, ServerAgree DEF RequestTimeout

\* rtsp_server_force_teardown() of the session.
LEMMA ForceTeardownAgree ==
    ASSUME Inv, AgreeInv, NEW s \in SessionIds, ForceTeardown(s, "all") PROVE AgreeInv'
<1> DEFINE d == [type |-> "TEARDOWN", session |-> s, media |-> NoMedia]
<1>1. SP!force_teardown(s, SP!AllPaths)
  BY ServerIsTheSame DEF ForceTeardown, SP!AllPaths
<1>2. /\ SP!Next /\ SP!Running /\ s \in DOMAIN sessions
      /\ UNCHANGED <<conns, accepted, received, created>>
  <2>1. SP!AllPaths \in Medias \cup {SP!AllPaths}
    OBVIOUS
  <2>2. SP!ApplicationNext
    BY <1>1, <2>1, Zenon DEF SP!ApplicationNext
  <2> QED BY <1>1, <2>2 DEF SP!Next, SP!force_teardown
<1>3. SP!KeepsMedias(sessions, sessions')
  BY <1>1, Hypotheses, SP!ForceTeardownMedias DEF ServerHypotheses
<1>4. d \in SentTo(client) /\ MaySend(d, requests, asked, created)
  BY <1>2, AgreeTypes, ClientIsTheSame DEF SentTo, Message, CP!MediaOrNone, MaySend
<1>5. down' = down \/ down' = Append(down, d)
  BY SystemAssumption DEF ForceTeardown, rtsp_server_send_teardown
<1> HIDE DEF d
<1>6. \A x \in Coming' : x \in Coming \/ MaySend(x, requests, asked, created)
  BY <1>4, <1>5, AppendComing
<1>7. accepted # 0
  BY <1>2, AgreeTypes DEF AgreeInv
<1> QED BY <1>2, <1>3, <1>6, <1>7, ServerAgree DEF ForceTeardown

\* The application of the server replies.
LEMMA ReplyAgree == ASSUME Inv, AgreeInv, NEW r, Reply(r) PROVE AgreeInv'
<1>1. /\ r \in DOMAIN requests
      /\ \E code \in SP!Codes : \E p \in requests[r].medias :
            \/ SP!reply_to_setup(r, p, code)
            \/ SP!reply_to_play(r, p, code)
            \/ SP!reply_to_teardown(r, p, code)
      /\ UNCHANGED <<client, link, up, asked>>
  BY ServerIsTheSame, Zenon DEF Reply
<1>2. /\ SP!Next /\ SP!Running /\ requests[r].method \notin SP!Sessionless
      /\ UNCHANGED <<conns, accepted, received, created>>
  <2>1. SP!ApplicationNext
    BY <1>1, Zenon DEF SP!ApplicationNext
  <2>2. /\ UNCHANGED <<conns, accepted, received, created>> /\ SP!Running
        /\ requests[r].method \in {"SETUP", "PLAY", "TEARDOWN"}
    BY <1>1 DEF SP!reply_to_setup, SP!reply_to_play, SP!reply_to_teardown,
                SP!reply_to_media, SP!MayReply
  <2> QED BY <2>1, <2>2 DEF SP!Next, SP!Sessionless
<1>3. SP!KeepsMedias(sessions, sessions')
  <2>1. PICK code \in SP!Codes \cup {"none"}, p \in requests[r].medias :
            \/ SP!reply_to_setup(r, p, code)
            \/ SP!reply_to_play(r, p, code)
            \/ SP!reply_to_teardown(r, p, code)
    BY <1>1
  <2>2. SP!ServerInv
    BY DEF Inv
  <2>3. CASE SP!reply_to_setup(r, p, code)
    BY <2>2, <2>3, Hypotheses, SP!ReplySetupMedias DEF ServerHypotheses
  <2>4. CASE SP!reply_to_play(r, p, code) \/ SP!reply_to_teardown(r, p, code)
    <3>1. PICK m : SP!reply_to_media(r, m, p, code)
      BY <2>4 DEF SP!reply_to_play, SP!reply_to_teardown
    <3> QED BY <1>1, <2>2, <3>1, Hypotheses, SP!ReplyMediaMedias DEF ServerHypotheses
  <2> QED BY <2>1, <2>3, <2>4
<1>4. /\ asked[r] \in SentBy(client)
      /\ requests[r].session \in created /\ requests[r].session # NoSession
      /\ requests[r].session \in CP!SessionOrNone
      /\ asked[r].session \in {NoSession, requests[r].session}
  <2>1. SP!RequestOK(requests[r]) /\ requests[r].session \in created \cup {NoSession}
    BY <1>1 DEF Inv, SP!ServerInv, SP!Good
  <2>2. requests[r].session # NoSession
    BY <1>2, <2>1 DEF SP!RequestOK
  <2> QED BY <1>1, <2>1, <2>2, AgreeTypes DEF Inv, AskedOK, CP!SessionOrNone
<1>5. \A x \in Coming' : x \in Coming \/ MaySend(x, requests, asked, created)
  <2>1. ASSUME NEW code \in {"2xx", "other"}
        PROVE  /\ ResponseTo(asked[r], requests[r].session, code) \in SentTo(client)
               /\ MaySend(ResponseTo(asked[r], requests[r].session, code),
                          requests, asked, created)
    <3>1. ResponseTo(asked[r], requests[r].session, code) \in SentTo(client)
      BY <1>4, ResponseIsTo
    <3>2. MaySend(ResponseTo(asked[r], requests[r].session, code),
                  requests, asked, created)
      BY <1>1, <1>4 DEF ResponseTo, MaySend
    <3> QED BY <3>1, <3>2
  <2>2. CASE UNCHANGED down
    BY <2>2 DEF Coming
  <2>3. ASSUME NEW o \in out',
               Deliver(o.from, ResponseTo(asked[r], requests[r].session,
                                   IF o.code = "2xx" THEN "2xx" ELSE "other"))
        PROVE  \A x \in Coming' : x \in Coming \/ MaySend(x, requests, asked, created)
    <3> DEFINE code == IF o.code = "2xx" THEN "2xx" ELSE "other"
               msg == ResponseTo(asked[r], requests[r].session, code)
    <3>1. code \in {"2xx", "other"}
      OBVIOUS
    <3>2. down' = down \/ down' = Append(down, msg)
      BY <2>3 DEF Deliver
    <3> HIDE DEF code
    <3>3. msg \in SentTo(client) /\ MaySend(msg, requests, asked, created)
      BY <2>1, <3>1
    <3> HIDE DEF msg
    <3> QED BY <3>2, <3>3, AppendComing
  <2> QED BY <2>2, <2>3 DEF Reply
<1>6. accepted # 0
  BY <1>1 DEF AgreeInv, Inv, SP!ServerInv, SP!Good
<1> QED BY <1>1, <1>2, <1>3, <1>5, <1>6, ServerAgree

\* What reading message m does to the sessions, with s the session of a request
\* passed on: the media of a SETUP is added to it.
Adds(m, s) ==
    /\ created \subseteq created' /\ created' \subseteq SessionIds
    /\ DOMAIN sessions' \subseteq SessionIds
    /\ \A x \in DOMAIN sessions' :
          \/ x \in DOMAIN sessions /\ SP!Has(sessions, x) \subseteq SP!Has(sessions', x)
          \/ x \notin created
    /\ m.method = "SETUP" /\ s \in DOMAIN sessions' => m.media \in SP!Has(sessions', s)

\* A TEARDOWN takes the media it names, or else all of them.
Takes(m, s) ==
    /\ TearsDown(m, s) /\ s \in DOMAIN sessions
    /\ created' = created /\ DOMAIN sessions' = DOMAIN sessions
    /\ \A x \in DOMAIN sessions : \A p \in SP!Has(sessions, x) :
          x # s \/ (m.media \in sessions[s].medias /\ m.media # p) =>
              p \in SP!Has(sessions', x)

\* What else it does.  A success is sent at once only for a keep-alive.
Handles(m, s) ==
    /\ UNCHANGED <<conns, accepted, status>>
    /\ \A r \in DOMAIN requests' \ DOMAIN requests : requests'[r].session = s
    /\ \A o \in out' : o.code = "2xx" => m.method # "SETUP" /\ m.session \in created

\* An answer with an error leaves everything as it is.
LEMMA RefusedHandles ==
    ASSUME Inv, NEW c, NEW m, SP!Answer(c, "error"),
           UNCHANGED <<conns, accepted, status, sessions, requests, created>>
    PROVE  Handles(m, NoSession) /\ Adds(m, NoSession)
<1>1. \A o \in out' : o.code = "error"
  BY DEF SP!Answer, SP!Response
<1>2. NoSession \notin SessionIds
  BY SystemAssumption
<1>3. Handles(m, NoSession)
  BY <1>1 DEF Handles
<1> QED BY <1>2, <1>3, AgreeTypes DEF Adds

\* A request passed on is the only new one.
LEMMA PassedHandles ==
    ASSUME Inv, NEW c, NEW m, NEW method, NEW s, NEW ps, SP!Passed(c, method, s, ps),
           UNCHANGED <<conns, accepted, status>>
    PROVE  Handles(m, s)
<1>1. \A r \in DOMAIN requests' \ DOMAIN requests : requests'[r].session = s
  BY DEF SP!Passed, SP!pending_request_add
<1>2. out' = {}
  BY DEF SP!Passed
<1> QED BY <1>1, <1>2 DEF Handles

\* The handlers, one by one.
LEMMA SetupNewHandles ==
    ASSUME Inv, NEW c, NEW m, NEW s \in SessionIds, SP!SetupNew(c, s, m.media)
    PROVE  Handles(m, s) /\ Adds(m, s)
<1>1. Handles(m, s)
  BY PassedHandles DEF SP!SetupNew
<1>2. /\ s \notin created /\ created' = created \cup {s}
      /\ DOMAIN sessions' = DOMAIN sessions \cup {s}
      /\ \A x \in DOMAIN sessions' :
            sessions'[x] = IF x = s THEN [op |-> "SETUP", medias |-> {m.media}, tearing |-> {}]
                           ELSE sessions[x]
  BY DEF SP!SetupNew
<1>3. Adds(m, s)
  BY <1>2, AgreeTypes DEF Adds, SP!Has
<1> QED BY <1>1, <1>3

\* SETUP in a session that exists.
LEMMA SetupHandles ==
    ASSUME Inv, NEW c, NEW m, SP!Setup(c, m.session, m.media)
    PROVE  \E s : Handles(m, s) /\ Adds(m, s)
<1> DEFINE s == m.session
<1>1. CASE s \in DOMAIN sessions /\ m.media \notin sessions[s].medias
  <2>1. Handles(m, s)
    BY <1>1, PassedHandles DEF SP!Setup
  <2>2. /\ sessions[s] \in SP!Session /\ sessions[s].tearing \subseteq sessions[s].medias
        /\ sessions' = [sessions EXCEPT ![s].op = "SETUP",
                                        ![s].medias = @ \cup {m.media}]
        /\ created' = created
    BY <1>1 DEF SP!Setup, Inv, SP!ServerInv, SP!SessionsOK
  <2>3. /\ DOMAIN sessions' = DOMAIN sessions
        /\ \A x \in DOMAIN sessions : x # s => sessions'[x] = sessions[x]
        /\ sessions'[s].medias = sessions[s].medias \cup {m.media}
        /\ sessions'[s].tearing = sessions[s].tearing
    BY <1>1, <2>2 DEF SP!Session
  <2>4. \A x \in DOMAIN sessions : SP!Has(sessions, x) \subseteq SP!Has(sessions', x)
    BY <2>3 DEF SP!Has
  <2>5. m.media \in SP!Has(sessions', s)
    BY <1>1, <2>2, <2>3 DEF SP!Has
  <2>6. Adds(m, s)
    BY <2>2, <2>3, <2>4, <2>5, AgreeTypes DEF Adds
  <2> QED BY <2>1, <2>6
<1>2. CASE ~(s \in DOMAIN sessions /\ m.media \notin sessions[s].medias)
  <2>1. /\ SP!Answer(c, "error")
        /\ UNCHANGED <<conns, accepted, status, sessions, requests, created>>
    BY <1>2 DEF SP!Setup
  <2> QED BY <2>1, RefusedHandles
<1> QED BY <1>1, <1>2

\* PLAY sets op_in_progress.
LEMMA PlayHandles ==
    ASSUME Inv, NEW c, NEW m, m.method = "PLAY", SP!Play(c, m.session)
    PROVE  \E s : Handles(m, s) /\ Adds(m, s)
<1> DEFINE s == m.session
<1>0. SP!SessionRequest(c, "PLAY", s)
  BY DEF SP!Play
<1>1. CASE ~SP!NotFound(s)
  <2>1. Handles(m, s)
    BY <1>0, <1>1, PassedHandles DEF SP!SessionRequest
  <2>2. /\ s \in DOMAIN sessions /\ sessions[s] \in SP!Session
        /\ sessions' = [sessions EXCEPT ![s].op = "PLAY"]
        /\ created' = created
    BY <1>0, <1>1 DEF SP!SessionRequest, SP!NotFound, Inv, SP!ServerInv, SP!SessionsOK
  <2>3. /\ DOMAIN sessions' = DOMAIN sessions
        /\ \A x \in DOMAIN sessions : /\ sessions'[x].medias = sessions[x].medias
                                      /\ sessions'[x].tearing = sessions[x].tearing
    BY <2>2 DEF SP!Session
  <2>4. Adds(m, s)
    BY <2>2, <2>3, AgreeTypes DEF Adds, SP!Has
  <2> QED BY <2>1, <2>4
<1>2. CASE SP!NotFound(s)
  <2>1. /\ SP!Answer(c, "error")
        /\ UNCHANGED <<conns, accepted, status, sessions, requests, created>>
    BY <1>0, <1>2 DEF SP!SessionRequest
  <2> QED BY <2>1, RefusedHandles
<1> QED BY <1>1, <1>2

\* TEARDOWN: of a media or, t being AllPaths, of all.
LEMMA TeardownHandles ==
    ASSUME Inv, NEW c, NEW m \in SentBy(client), m.method = "TEARDOWN", NEW t,
           t = IF m.media = NoMedia THEN SP!AllPaths ELSE m.media,
           SP!Teardown(c, m.session, t)
    PROVE  \E s : Handles(m, s) /\ (Adds(m, s) \/ Takes(m, s))
<1> DEFINE s == m.session
           D == SP!TornDown(s, t)
<1>1. CASE ~SP!NotFound(s)
  <2>1. /\ sessions' = [sessions EXCEPT ![s].op = "TEARDOWN",
                                        ![s].tearing = @ \cup D]
        /\ created' = created /\ s \in DOMAIN sessions
        /\ UNCHANGED <<conns, accepted, status>>
        /\ \/ SP!Answer(c, "error") /\ requests' = requests
           \/ SP!Passed(c, "TEARDOWN", s, D)
    BY <1>1 DEF SP!Teardown, SP!NotFound
  <2>2. /\ sessions[s] \in SP!Session
        /\ sessions[s].medias \subseteq Medias /\ NoMedia \notin Medias
    BY <2>1, SystemAssumption DEF Inv, SP!ServerInv, SP!SessionsOK, SP!Session
  <2>3. Handles(m, s)
    <3>1. CASE SP!Answer(c, "error") /\ requests' = requests
      <4>1. \A o \in out' : o.code = "error"
        BY <3>1 DEF SP!Answer, SP!Response
      <4> QED BY <2>1, <3>1, <4>1 DEF Handles
    <3>2. CASE SP!Passed(c, "TEARDOWN", s, D)
      BY <2>1, <3>2, PassedHandles
    <3> QED BY <2>1, <3>1, <3>2
  <2>4. ASSUME m.media \in sessions[s].medias PROVE D \subseteq {m.media}
    <3>1. t = m.media
      BY <2>2, <2>4
    <3> QED BY <2>4, <3>1 DEF SP!TornDown
  <2> HIDE DEF D
  <2>5. /\ DOMAIN sessions' = DOMAIN sessions
        /\ \A x \in DOMAIN sessions : x # s => sessions'[x] = sessions[x]
        /\ sessions'[s].medias = sessions[s].medias
        /\ sessions'[s].tearing = sessions[s].tearing \cup D
    BY <2>1, <2>2 DEF SP!Session
  <2>6. ASSUME NEW x \in DOMAIN sessions, NEW p \in SP!Has(sessions, x),
               x # s \/ (m.media \in sessions[s].medias /\ m.media # p)
        PROVE  p \in SP!Has(sessions', x)
    BY <2>4, <2>5, <2>6 DEF SP!Has
  <2>7. Takes(m, s)
    BY <2>1, <2>5, <2>6 DEF Takes, TearsDown
  <2> QED BY <2>3, <2>7
<1>2. CASE SP!NotFound(s)
  <2>1. /\ SP!Answer(c, "error")
        /\ UNCHANGED <<conns, accepted, status, sessions, requests, created>>
    BY <1>2 DEF SP!Teardown
  <2> QED BY <2>1, RefusedHandles
<1> QED BY <1>1, <1>2

\* The keep-alive.
LEMMA GetParameterHandles ==
    ASSUME Inv, NEW c, NEW m, m.method = "GET_PARAMETER", SP!GetParameter(c, m.session)
    PROVE  Handles(m, NoSession) /\ Adds(m, NoSession)
<1>1. /\ m.session \in created
      /\ UNCHANGED <<conns, accepted, status, sessions, requests, created>>
  BY DEF SP!GetParameter, Inv, SP!ServerInv, SP!Scalars
<1>2. Handles(m, NoSession)
  BY <1>1 DEF Handles
<1> QED BY <1>1, <1>2, AgreeTypes DEF Adds

\* rtsp_server_request_process()
LEMMA ProcessHandles ==
    ASSUME Inv, NEW c \in Conns, NEW m \in SentBy(client), request_process(c, m)
    PROVE  \E s : Handles(m, s) /\ (Adds(m, s) \/ Takes(m, s))
<1>1. CASE m.method = "SETUP" /\ m.session = NoSession
           /\ \E s \in SessionIds : S!SetupNew(c, s, m.media)
  <2>1. PICK s \in SessionIds : SP!SetupNew(c, s, m.media)
    BY <1>1, ServerIsTheSame
  <2> QED BY <2>1, SetupNewHandles
<1>2. CASE S!Setup(c, m.session, m.media)
  <2>1. SP!Setup(c, m.session, m.media)
    BY <1>2, ServerIsTheSame
  <2> QED BY <2>1, SetupHandles
<1>3. CASE m.method = "PLAY" /\ S!Play(c, m.session)
  <2>1. SP!Play(c, m.session)
    BY <1>3, ServerIsTheSame
  <2> QED BY <1>3, <2>1, PlayHandles
<1>4. CASE m.method = "TEARDOWN"
           /\ S!Teardown(c, m.session, IF m.media = NoMedia THEN S!AllPaths ELSE m.media)
  <2> DEFINE t == IF m.media = NoMedia THEN SP!AllPaths ELSE m.media
  <2>1. SP!Teardown(c, m.session, t)
    BY <1>4, ServerIsTheSame
  <2> QED BY <1>4, <2>1, TeardownHandles
<1>5. CASE m.method = "GET_PARAMETER" /\ S!GetParameter(c, m.session)
  <2>1. SP!GetParameter(c, m.session)
    BY <1>5, ServerIsTheSame
  <2> QED BY <1>5, <2>1, GetParameterHandles
<1> QED BY <1>1, <1>2, <1>3, <1>4, <1>5 DEF request_process

\* The server reads a message of the client.
LEMMA ServeAgree == ASSUME Inv, AgreeInv, NEW c \in Conns, Serve(c) PROVE AgreeInv'
<1> DEFINE n == conns[c]
           m == Head(up[n])
<1>1. /\ c \in DOMAIN conns /\ up[n] # << >>
      /\ request_process(c, m)
      /\ up' = [up EXCEPT ![n] = Tail(@)]
      /\ asked' = IF received' = received THEN asked
                  ELSE [r \in DOMAIN asked \cup {received'} |->
                           IF r = received' THEN m ELSE asked[r]]
      /\ \/ out' = {} /\ UNCHANGED down
         \/ \E o \in out' :
               Deliver(n, ResponseTo(m, m.session,
                             IF o.code = "2xx" THEN "2xx" ELSE ErrorCode(m)))
      /\ UNCHANGED <<client, link>>
  BY DEF Serve
<1>2. /\ n \in Links /\ SP!ServerInv /\ received \in Nat
      /\ DOMAIN requests \subseteq 1..received /\ DOMAIN asked = 1..received
  BY <1>1 DEF Inv, SP!ServerInv, SP!Scalars, SP!Good, Links, AskedOK
<1>3. m \in SentBy(client) /\ m.session \in CP!SessionOrNone
  <2>1. m \in SentBy(client)
    BY <1>1, <1>2 DEF Inv
  <2> QED BY <2>1 DEF SentBy, CP!Request
<1>4. accepted # 0
  BY <1>1 DEF AgreeInv
<1> HIDE DEF m, n
<1>5. PICK s : Handles(m, s) /\ (Adds(m, s) \/ Takes(m, s))
  BY <1>1, <1>3, ProcessHandles
<1>6. UNCHANGED <<conns, accepted, status, client, link>>
  BY <1>1, <1>5 DEF Handles
<1>7. SP!KeepsRequests
  <2>1. SP!Next
    BY <1>1, <1>3, RequestProcess
  <2> QED BY <1>2, <2>1, Hypotheses, SP!NextKept DEF ServerHypotheses
<1>8. \A r \in DOMAIN requests' :
         \/ r \in DOMAIN requests /\ requests'[r].session = requests[r].session
               /\ asked'[r] = asked[r]
         \/ asked'[r] = m /\ requests'[r].session = s
  <2> SUFFICES ASSUME NEW r \in DOMAIN requests'
               PROVE  \/ r \in DOMAIN requests /\ requests'[r].session = requests[r].session
                            /\ asked'[r] = asked[r]
                      \/ asked'[r] = m /\ requests'[r].session = s
    OBVIOUS
  <2>1. CASE r \in DOMAIN requests
    <3>1. requests'[r].session = requests[r].session
      BY <1>7, <2>1 DEF SP!KeepsRequests, SP!Kept
    <3>2. r \in DOMAIN asked /\ (received' = received \/ r # received')
      BY <1>2, <1>7, <2>1 DEF SP!KeepsRequests
    <3>3. asked'[r] = asked[r]
      BY <1>1, <3>2
    <3> QED BY <2>1, <3>1, <3>3
  <2>2. CASE r \notin DOMAIN requests
    <3>1. r = received' /\ received' # received
      BY <1>2, <1>7, <2>2 DEF SP!KeepsRequests
    <3>2. asked'[r] = m
      BY <1>1, <3>1
    <3> QED BY <1>5, <2>2, <3>2 DEF Handles
  <2> QED BY <2>1, <2>2
<1>9. \A x \in Coming' :
         \/ x \in Coming
         \/ /\ x.type = "response" /\ x.request = m
            /\ x.session \in created \cup {NoSession}
            /\ x.code = "2xx" <=> x.session # NoSession
            /\ x.code = "2xx" => m.method # "SETUP"
  <2>1. CASE UNCHANGED down
    BY <2>1 DEF Coming
  <2>2. ASSUME NEW o \in out',
               Deliver(n, ResponseTo(m, m.session,
                             IF o.code = "2xx" THEN "2xx" ELSE ErrorCode(m)))
        PROVE  <1>9!:
    <3> DEFINE code == IF o.code = "2xx" THEN "2xx" ELSE ErrorCode(m)
               x == ResponseTo(m, m.session, code)
    <3>1. /\ code \in {"2xx", "454", "other"}
          /\ code = "2xx" => m.method # "SETUP" /\ m.session \in created
                                /\ m.session # NoSession
      BY <1>5, SystemAssumption, AgreeTypes DEF ErrorCode, Handles
    <3>2. down' = down \/ down' = Append(down, x)
      BY <2>2 DEF Deliver
    <3> HIDE DEF code
    <3>3. x \in SentTo(client)
      BY <1>3, <3>1, ResponseIsTo
    <3>4. /\ x.type = "response" /\ x.request = m
          /\ x.session \in created \cup {NoSession}
          /\ x.code = "2xx" <=> x.session # NoSession
          /\ x.code = "2xx" => m.method # "SETUP"
      BY <3>1 DEF ResponseTo
    <3> HIDE DEF x
    <3>5. \A y \in Coming' : y \in Coming \/ y = x
      BY <3>2, <3>3, AppendComing
    <3> QED BY <3>4, <3>5
  <2> QED BY <1>1, <2>1, <2>2
<1>10. ASSUME First
       PROVE  Agrees(client, up'[1], Coming', sessions', requests', asked', created')
  <2>1. /\ Agrees(client, up[1], Coming, sessions, requests, asked, created)
        /\ CP!Tidy(client)
    BY <1>10 DEF AgreeInv
  <2>2. n = 1
    <3>1. n \in 1..MaxAccepts /\ n <= 1 /\ MaxAccepts \in Nat
      BY <1>1, <1>2, <1>10, SystemAssumption DEF AgreeInv, First, Links, n
    <3> QED BY <3>1
  <2>3. /\ up[1] \in Seq(SentBy(client)) /\ up[1] # << >> /\ m = Head(up[1])
        /\ up'[1] = Tail(up[1])
    BY <1>1, <1>2, <2>2, AgreeTypes DEF m, Inv
  <2>4. Reads(m, s, Coming, Coming', requests, requests', asked, asked', created)
    BY <1>8, <1>9 DEF Reads
  <2>5. /\ created \subseteq SessionIds /\ DOMAIN sessions \subseteq SessionIds
        /\ \A r \in DOMAIN requests : requests[r].session \in created \cup {NoSession}
    BY AgreeTypes
  <2>6. CASE Adds(m, s)
    <3>1. /\ created \subseteq created' /\ created' \subseteq SessionIds
          /\ DOMAIN sessions' \subseteq SessionIds
          /\ \A x \in DOMAIN sessions' :
                \/ x \in DOMAIN sessions /\ SP!Has(sessions, x) \subseteq SP!Has(sessions', x)
                \/ x \notin created
          /\ m.method = "SETUP" /\ s \in DOMAIN sessions' => m.media \in SP!Has(sessions', s)
      BY <2>6 DEF Adds
    <3>2. Head(up[1]).method = "SETUP" /\ s \in DOMAIN sessions'
             /\ (\E r \in DOMAIN requests' : asked'[r] = Head(up[1])) =>
                  Head(up[1]).media \in SP!Has(sessions', s)
      BY <2>3, <3>1
    <3>3. Reads(Head(up[1]), s, Coming, Coming', requests, requests', asked, asked', created)
      BY <2>3, <2>4
    <3>4. Agrees(client, Tail(up[1]), Coming', sessions', requests', asked', created')
      BY <2>1, <2>3, <2>5, <3>1, <3>2, <3>3, ServeAgrees
    <3> QED BY <2>3, <3>4
  <2>7. CASE Takes(m, s)
    <3>1. /\ TearsDown(m, s) /\ s \in DOMAIN sessions
          /\ created' = created /\ DOMAIN sessions' = DOMAIN sessions
      BY <2>7 DEF Takes
    <3>2. ASSUME NEW x \in DOMAIN sessions, NEW p \in SP!Has(sessions, x),
                 x # s \/ (m.media # NoMedia /\ m.media # p)
          PROVE  p \in SP!Has(sessions', x)
      <4>1. CASE x # s
        BY <2>7, <4>1 DEF Takes
      <4>2. CASE m.media # NoMedia /\ m.media # p
        <5>1. 1 \in DOMAIN up[1] /\ m = up[1][1]
          BY <2>3
        <5>2. m.media \in SP!Has(sessions, s)
          BY <2>1, <3>1, <4>2, <5>1 DEF Agrees, Single
        <5> QED BY <2>7, <4>2, <5>2 DEF Takes, SP!Has
      <4> QED BY <3>2, <4>1, <4>2
    <3> QED BY <2>1, <2>3, <2>4, <2>5, <3>1, <3>2, TeardownAgrees
  <2> QED BY <1>5, <2>6, <2>7
<1>11. First' => First
  BY <1>6 DEF First, LinkOpen, S!Running
<1> QED BY <1>4, <1>6, <1>10, <1>11 DEF AgreeInv

\* No connection, nothing sent and no session.
LEMMA AgreeInit == ASSUME Init PROVE AgreeInv
<1>1. /\ CP!Init
      /\ conns = << >> /\ accepted = 0 /\ received = 0 /\ created = {} /\ down = << >>
  BY ClientIsTheSame, ServerIsTheSame DEF Init, SP!Init
<1>2. CP!Drops(client)
  BY <1>1 DEF CP!Init, CP!NewClient, CP!Drops
<1> QED BY <1>1, <1>2 DEF AgreeInv, First

\* Every step keeps it, with one session on the client's side and no media torn
\* down by force on its own.
LEMMA AgreeStep ==
    ASSUME CP!OneSession, Forced \subseteq {"all"}, Inv, AgreeInv, [Next]_vars
    PROVE  AgreeInv'
<1>1. CASE UNCHANGED vars
  <2>1. UNCHANGED <<client, conns, sessions, requests, status, accepted, received, created,
                    link, up, down, asked>>
    BY <1>1 DEF vars, netVars, serverVars
  <2>2. First' <=> First
    BY <2>1 DEF First, LinkOpen, S!Running
  <2>3. Coming' = Coming
    BY <2>1 DEF Coming
  <2> QED BY <2>1, <2>2, <2>3 DEF AgreeInv
<1>2. CASE ClientNext
  BY <1>2, RequestAgree, CancelAgree, KeepAliveTimerAgree, ResponseTimeoutAgree,
     ConnectAgree, ResolvDoneAgree, ResolvTimeoutAgree, DisconnectAgree DEF ClientNext
<1>3. CASE NetworkNext
  BY <1>3, ConnectedAgree, ClientLosesAgree, ServerLosesAgree, ReceiveAgree DEF NetworkNext
<1>4. CASE ServerNext
  BY <1>4, ServeAgree, ReplyAgree, CallbackReturnAgree, RequestTimeoutAgree,
     ForceTeardownAgree, SessionTimeoutAgree, SessionRemoveIdleAgree DEF ServerNext
<1> QED BY <1>1, <1>2, <1>3, <1>4 DEF Next

\* On its first connection, once nothing is on its way, the client has no media
\* that the server does not have or is tearing down: for every number of medias,
\* requests, cancels, overtaken keep-alives, timeouts and forced teardowns, with
\* one session and an application of the server that tears down whole sessions.
\* Both hypotheses are needed: with two sessions, or with medias torn down by
\* force, TLC finds states where the two disagree.
THEOREM AgreeTheorem ==
    ASSUME CP!OneSession, Forced \subseteq {"all"}
    PROVE  Spec => []ClientHasWhatServerHas
<1>1. Init => AgreeInv
  BY AgreeInit
<1>2. Inv /\ AgreeInv /\ [Next]_vars => AgreeInv'
  BY AgreeStep
<1>3. AgreeInv => ClientHasWhatServerHas
  <2> SUFFICES ASSUME AgreeInv, Quiet, accepted = 1,
                      NEW s \in client.sessions \cap DOMAIN sessions, NEW p \in client.medias[s]
               PROVE  p \in sessions[s].medias \ sessions[s].tearing
    BY DEF ClientHasWhatServerHas
  <2>1. First /\ ~client.is_pending
    BY DEF Quiet, First
  <2>2. p \in SP!Has(sessions, s)
    BY <2>1 DEF AgreeInv, Agrees, Agreed
  <2> QED BY <2>2 DEF SP!Has
<1> QED BY <1>1, <1>2, <1>3, SystemInvariant, PTL DEF Spec
=============================================================================
