----------------------------- MODULE RtspSetup -----------------------------
(***************************************************************************)
(* What the requests of an RTSP client take from the client besides the    *)
(* request slot, and when they give it back (src/rtsp_client.c):           *)
(* rtsp_client_setup() takes a pair of interleaved channels                *)
(* (RtspChannels), and a request other than OPTIONS, where the server asks *)
(* for Digest authorization, a nonce count (RtspAuth).                     *)
(*                                                                         *)
(* RtspClient has the slot, the sessions and the timers in full.  Here the *)
(* sessions are one list of medias, and busy stands for the                *)
(* keep_alive_in_progress flags: while some session has the flag, a        *)
(* request may be put into the slot over the one that is pending.          *)
(***************************************************************************)
EXTENDS RtspChannels, RtspAuth

CONSTANTS
    NoMedia,
    Wanted,         \* pairs an application asks for, NoPair for any
    SendResults,    \* what sending a request may return: "OK", "EAGAIN" (the
                    \* socket is full) or "ERR"
    MaxRequests     \* bound: requests of the application

ASSUME SetupAssumption ==
    /\ NoMedia \notin Medias
    /\ Wanted \subseteq Pair
    /\ SendResults \subseteq {"OK", "EAGAIN", "ERR"}
    /\ MaxRequests \in Nat

VARIABLES
    conn,           \* "down", "lost" (waiting for reconnection) or "up"
    slot,           \* client->request
    busy,           \* does a session wait for the answer to a keep-alive?
    crossed,        \* history: has the server, on this connection, given a
                    \* media channels of another?
    issued          \* history: requests of the application so far
vars == <<used, medias, auth, password, digests, cnonces, conn, slot,
          busy, crossed, issued>>
authVars == <<auth, password, digests, cnonces>>

\* sent: the header is the one that was sent, and an answer can match it.
Slot == [is_pending : BOOLEAN, sent : BOOLEAN,
         method : {"NONE", "SETUP", "TEARDOWN", "OTHER"},
         media : Medias \cup {NoMedia}, pair : Pair]
NoRequest == [is_pending |-> FALSE, sent |-> FALSE, method |-> "NONE",
              media |-> NoMedia, pair |-> NoPair]

\* Types; no client nonce but those that were made.
TypeOK ==
    /\ used \subseteq Channels
    /\ DOMAIN medias \subseteq Medias /\ \A m \in DOMAIN medias : medias[m] \in Pair
    /\ AuthTypeOK
    /\ conn \in {"down", "lost", "up"} /\ busy \in BOOLEAN
    /\ crossed \in BOOLEAN
    /\ slot \in Slot
    /\ issued \in 0..MaxRequests

Init ==
    /\ used = {} /\ medias = << >>
    /\ AuthInit
    /\ conn = "down" /\ slot = NoRequest /\ busy = FALSE
    /\ crossed = FALSE
    /\ issued = 0

(***************************************************************************)
(* Requests                                                                *)
(***************************************************************************)

\* -EPIPE, -EBUSY otherwise.
CanSend == conn = "up" /\ (~slot.is_pending \/ busy) /\ issued < MaxRequests

\* The header is put together over what is in the slot, which stays pending
\* if it was; with "OK" it is sent.
PutRequest(method, media, pair, res) ==
    /\ slot' = [is_pending |-> slot.is_pending \/ res = "OK",
                sent |-> res = "OK", method |-> method, media |-> media,
                pair |-> pair]
    /\ issued' = issued + 1
    /\ UNCHANGED <<conn, busy, crossed, medias>>

\* rtsp_client_setup() over TCP that fails before it takes a pair: no
\* authorization, no channels left (-E2BIG), channels in use (-EEXIST).
SetupRefused(m, want) ==
    /\ CanSend
    /\ \/ AuthorizationFails
       \/ /\ generate_authorization_header
          /\ \/ count_channel_unused < 2
             \/ is_channel_pair_valid(want) /\ allocate_interleaved_channels(want) = {}
    /\ PutRequest("SETUP", m, NoPair, "ERR")
    /\ UNCHANGED used

\* rtsp_client_setup() over TCP; the pair is not given back if sending fails.
\* Where the application asks for no pair in particular, and no even channel is
\* free with the next one, the call never returns: there is no step.
Setup(m, want, res) ==
    /\ CanSend
    /\ generate_authorization_header
    /\ count_channel_unused >= 2
    /\ \E p \in allocate_interleaved_channels(want) :
          /\ used' = used \cup ChannelsOf(p)
          /\ PutRequest("SETUP", m, p, res)

\* rtsp_client_setup() over UDP.
SetupUdp(m, res) ==
    /\ CanSend
    /\ \/ generate_authorization_header /\ PutRequest("SETUP", m, NoPair, res)
       \/ AuthorizationFails /\ PutRequest("SETUP", m, NoPair, "ERR")
    /\ UNCHANGED used

\* rtsp_client_describe(), rtsp_client_announce(): sent without authorization
\* where that fails with -EAGAIN.
Describe(res) ==
    /\ CanSend
    /\ \/ generate_authorization_header /\ PutRequest("OTHER", NoMedia, NoPair, res)
       \/ /\ AuthorizationFails
          /\ PutRequest("OTHER", NoMedia, NoPair,
                        IF NonceMissing THEN res ELSE "ERR")
    /\ UNCHANGED used

\* A TEARDOWN of a media, or of all, or any other request for a session.
SessionRequest(method, m, res) ==
    /\ CanSend
    /\ \/ generate_authorization_header /\ PutRequest(method, m, NoPair, res)
       \/ AuthorizationFails /\ PutRequest(method, m, NoPair, "ERR")
    /\ UNCHANGED used

\* OPTIONS carries no Authorization header.
Options(res) ==
    /\ CanSend
    /\ PutRequest("OTHER", NoMedia, NoPair, res)
    /\ UNCHANGED <<used, authVars>>

\* send_keep_alive(): never over a pending request.  A full socket counts as
\* sent, any other error leaves the slot free.
send_keep_alive(res) ==
    /\ ~slot.is_pending /\ issued < MaxRequests
    /\ \/ /\ generate_authorization_header
          /\ slot' = [NoRequest EXCEPT !.is_pending = res # "ERR",
                         !.sent = res = "OK", !.method = "OTHER"]
          /\ busy' = (busy \/ res # "ERR")
       \/ /\ AuthorizationFails
          /\ slot' = [NoRequest EXCEPT !.method = "OTHER"]
          /\ UNCHANGED busy
    /\ issued' = issued + 1
    /\ UNCHANGED <<used, medias, crossed>>

KeepAlive(res) == conn = "up" /\ send_keep_alive(res) /\ UNCHANGED conn

(***************************************************************************)
(* Completion                                                              *)
(***************************************************************************)

\* request_complete(): the flag of the session of the request is reset, those
\* of other sessions stay.
ClearSlot ==
    /\ slot' = NoRequest
    /\ busy' \in {busy, FALSE}
    /\ UNCHANGED <<conn, issued>>

\* Mutant: the pair of a SETUP that fails is not given back.
SetupGivenBack_Never == used

\* channel_used after setup_request_complete() with a status other than OK.
SetupGivenBack == used \ ChannelsOf(slot.pair)

\* What a request that did not succeed gives back.  A TEARDOWN ends what it
\* names whatever its status is.
NotOk(ms) ==
    CASE slot.method = "SETUP" -> RemoveMedias(ms, SetupGivenBack)
      [] slot.method = "TEARDOWN" ->
           RemoveMedias(ms \cup IF slot.media = NoMedia THEN DOMAIN medias
                                ELSE {slot.media}, used)
      [] slot.method \notin {"SETUP", "TEARDOWN"} -> RemoveMedias(ms, used)

\* An answer other than 2xx; "454" removes the session, unless it answers the
\* TEARDOWN of one of its medias.
Refused(code, challenge) ==
    /\ slot.is_pending /\ slot.sent
    /\ update_auth_from_server(challenge, code)
    /\ NotOk(IF code = "454" /\ ~(slot.method = "TEARDOWN" /\ slot.media \in DOMAIN medias)
             THEN DOMAIN medias ELSE {})
    /\ ClearSlot
    /\ UNCHANGED crossed

\* A timeout, rtsp_client_cancel().
Unanswered ==
    /\ slot.is_pending
    /\ NotOk({}) /\ ClearSlot
    /\ UNCHANGED <<authVars, crossed>>

\* setup_request_complete(), 2xx: tcp and pair are those of the answer.  The
\* media is not added if the session has it, or there is no session.  Nothing
\* looks whether the channels of the answer are another media's.
SetupOk(tcp, pair, session, challenge) ==
    LET ret == IF tcp THEN pair ELSE NoPair
    IN  /\ slot.is_pending /\ slot.sent /\ slot.method = "SETUP"
        /\ used' = IF tcp THEN update_interleaved_channels(slot.pair, pair) ELSE used
        /\ medias' = IF session /\ slot.media \notin DOMAIN medias
                     THEN media_add(slot.media, ret) ELSE medias
        /\ crossed' = (crossed \/ (/\ session /\ slot.media \notin DOMAIN medias
                                   /\ ChannelsOf(ret) \cap OwnedBy(DOMAIN medias) # {}))
        /\ ClearSlot
        /\ update_auth_from_server(challenge, "2xx")

\* Any other 2xx answer.
Ok(challenge) ==
    /\ slot.is_pending /\ slot.sent /\ slot.method # "SETUP"
    /\ NotOk({}) /\ ClearSlot
    /\ update_auth_from_server(challenge, "2xx")
    /\ UNCHANGED crossed

\* An answer to a request that was replaced.
LateResponse ==
    /\ conn = "up" /\ busy /\ busy' = FALSE
    /\ UNCHANGED <<used, medias, authVars, conn, slot, crossed, issued>>

(***************************************************************************)
(* Sessions and connection                                                 *)
(***************************************************************************)

\* The server tears down a media (teardown_request_process()).
ServerTeardown(m) ==
    /\ conn = "up" /\ m \in DOMAIN medias
    /\ RemoveMedias({m}, used)
    /\ UNCHANGED <<authVars, conn, slot, busy, crossed, issued>>

\* rtsp_client_remove_session(), or the server tears down the session.
RemoveSession ==
    /\ medias # << >>
    /\ RemoveMedias(DOMAIN medias, used)
    /\ busy' = FALSE
    /\ UNCHANGED <<authVars, conn, slot, crossed, issued>>

\* rtsp_client_connect(), up to the connection; the url has a password or not.
Connect(pass) ==
    /\ conn = "down" /\ conn' = "up"
    /\ clear_remote_info(pass)
    /\ UNCHANGED <<used, medias, slot, busy, crossed, issued>>

\* The network closes the connection: the request is aborted, sessions and
\* authorization are kept.
Lost ==
    /\ conn = "up" /\ conn' = "lost"
    /\ IF slot.is_pending
       THEN NotOk({}) /\ slot' = NoRequest /\ busy' \in {busy, FALSE}
       ELSE UNCHANGED <<used, medias, slot, busy>>
    /\ UNCHANGED <<authVars, crossed, issued>>

\* The client is connected again: a session, if there is one that does not
\* wait for an answer, sends a keep-alive.
Reconnected(res) ==
    /\ conn = "lost" /\ conn' = "up"
    /\ \/ send_keep_alive(res)
       \/ /\ medias = << >> \/ busy
          /\ UNCHANGED <<used, medias, authVars, slot, busy, crossed, issued>>

\* rtsp_client_disconnect(): the request is aborted, all sessions removed.
Disconnect ==
    /\ conn # "down" /\ conn' = "down"
    /\ IF slot.is_pending /\ slot.method = "SETUP"
       THEN RemoveMedias(DOMAIN medias, SetupGivenBack)
       ELSE RemoveMedias(DOMAIN medias, used)
    /\ slot' = IF slot.is_pending THEN NoRequest ELSE slot
    /\ busy' = FALSE /\ crossed' = FALSE
    /\ clear_remote_info(FALSE)
    /\ UNCHANGED issued

RequestNext ==
    \/ \E m \in Medias, want \in Wanted : SetupRefused(m, want)
    \/ \E m \in Medias, want \in Wanted, res \in SendResults : Setup(m, want, res)
    \/ \E m \in Medias, res \in SendResults : SetupUdp(m, res)
    \/ \E m \in Medias \cup {NoMedia}, res \in SendResults :
          SessionRequest("TEARDOWN", m, res)
    \/ \E res \in SendResults : SessionRequest("OTHER", NoMedia, res)
    \/ \E res \in SendResults : Describe(res)
    \/ \E res \in SendResults : Options(res)
    \/ \E res \in SendResults : KeepAlive(res)

EventNext ==
    \/ \E ch \in Challenge \cup {NoChallenge} :
          \/ \E code \in {"401", "454", "other"} : Refused(code, ch)
          \/ \E tcp, session \in BOOLEAN : \E p \in Wanted \cup {slot.pair} :
                SetupOk(tcp, p, session, ch)
          \/ Ok(ch)
    \/ Unanswered
    \/ LateResponse
    \/ \E m \in Medias : ServerTeardown(m)
    \/ RemoveSession
    \/ \E pass \in BOOLEAN : Connect(pass)
    \/ Lost
    \/ \E res \in SendResults : Reconnected(res)
    \/ Disconnect

Next == RequestNext \/ EventNext

Spec == Init /\ [][Next]_vars

(***************************************************************************)
(* Properties                                                              *)
(***************************************************************************)

\* The channels of the SETUP in the slot.
Asked == IF slot.is_pending THEN ChannelsOf(slot.pair) ELSE {}

\* The client never gives a channel to two streams: those of the medias are
\* different from each other and from those of the SETUP that is on its way,
\* until a server answers a SETUP with the channels of another media, which
\* update_interleaved_channels() does not refuse.
ChannelsNotShared ==
    \/ crossed
    \/ /\ \A m, n \in DOMAIN medias :
             m # n => ChannelsOf(medias[m]) \cap ChannelsOf(medias[n]) = {}
       /\ Asked \cap OwnedBy(DOMAIN medias) = {}

\* Data can be sent on the channels of every media for as long as it lives
\* (rtsp_client_send_interleaved() refuses an unused channel), and no SETUP
\* gets them: nothing that ends another media or request frees them, until a
\* server has given one media the channels of another.
OwnedIsUsed == crossed \/ OwnedBy(DOMAIN medias) \cup Asked \subseteq used

\* allocate_interleaved_channels() uses the next available channels: where two
\* are left, and rtsp_client_setup() goes on for that reason, it finds a pair.
\* It does not: the pair of an application or of an answer may start at an odd
\* channel, and two channels that are left are then none of the pairs the loop
\* looks at, which never ends.
AllocationEnds == CanSend /\ count_channel_unused >= 2 => FreePairs # {}

\* Channels that are taken, but by nobody.
Leaked == used \ (OwnedBy(DOMAIN medias) \cup Asked)

\* A request that could not be sent, or is put over a pending SETUP.
RequestLoses ==
    /\ issued' # issued
    /\ \/ slot'.method = "SETUP" /\ ~slot'.is_pending
       \/ slot.is_pending /\ slot.method = "SETUP"

\* An answer that changes to UDP, names no session or a media the session has.
AnswerLoses ==
    /\ slot.is_pending /\ slot.method = "SETUP"
    /\ \E ch \in Challenge \cup {NoChallenge}, p \in Wanted \cup {slot.pair} :
          \/ SetupOk(FALSE, p, TRUE, ch)
          \/ \E tcp \in BOOLEAN : SetupOk(tcp, p, FALSE, ch)
          \/ SetupOk(TRUE, p, TRUE, ch) /\ slot.media \in DOMAIN medias

\* Channels are lost only by a SETUP that could not be sent, by a request put
\* over a pending SETUP, and by a SETUP whose answer changes to UDP, names no
\* session or a media the session has.  Every other end (refusal, timeout,
\* cancel, loss of the connection, teardown by either side, removal of the
\* session, disconnection) gives back all it had.
OnlyKnownLeaks ==
    [][Leaked' \subseteq Leaked \/ RequestLoses \/ AnswerLoses]_vars
=============================================================================
