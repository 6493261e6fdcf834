# librtsp in TLA+

A TLA+ development of librtsp, Parrot's RTSP client and server library: modules
that model its client, its server, the two together, the framing of their
messages and the resources of the client's requests; TLC configurations that check
them; and TLAPS proofs about the client, its resources, the server, the two together
and the framing. Paths below are relative to the repository.

## 1. The system

librtsp runs in one thread, on a pomp loop. Nothing runs concurrently; what is
hard is the order in which callbacks (socket, resolver, timers, idle) and calls of
the application come, what each leaves behind for the next, and what a handler
does after a callback of the application has run in the middle of it.

| Component | Files | State | Operations |
|---|---|---|---|
| Client connection | `src/rtsp_client.c` | `conn_state`, socket, remote url, resolver timer and lookup | connect, disconnect, destroy; resolver answer and timeout; CONNECTED and DISCONNECTED events; reconnection after too many timeouts |
| Client requests | `src/rtsp_client.c` | one slot: header, CSeq, `is_pending`, `is_internal`, response timer; `methods_allowed`, `failed_requests` | OPTIONS, DESCRIBE, ANNOUNCE, SETUP, PLAY, PAUSE, RECORD, TEARDOWN, cancel; completion by answer, timeout, abort |
| Client sessions | `src/rtsp_client_session.c`, `src/rtsp_client.c` | list of sessions with medias, keep-alive timer, `keep_alive_in_progress`, `failed_keep_alive`, `internal_teardown` | add, remove, keep-alive, TEARDOWN by client or server |
| Client interleaved channels | `src/rtsp_client.c` | `channel_used[256]` | allocate, free, send |
| Server connections | `src/rtsp_server.c` | pomp connections, one receive buffer and one parser context for all | accept, close, receive |
| Server sessions | `src/rtsp_server_session.c` | list of sessions with medias (`is_tearing_down`), `op_in_progress`, session timer | SETUP, TEARDOWN, forced teardown, session timeout, idle removal |
| Server pending requests | `src/rtsp_server_request.c`, `src/rtsp_server.c` | list of requests with connection, medias still to be replied to, `in_callback`, `replied` | arrival, callbacks, `rtsp_server_reply_to_*()`, reply timer |
| Message framing | `src/rtsp.c` | receive buffer, parser context | `rtsp_get_next_message()` |
| Headers, auth, url, base64 | `src/rtsp.c`, `src/rtsp_auth.c`, `src/rtsp_url.c`, `src/rtsp_base64.c` | none (a nonce count) | read, write, hash |

Client and server interact only by messages. Inside a component, the application
is called back in the middle of a handler and may call back into the library.

What makes each correct:

- *client connection*: no request, session, timer or socket outlives it; after a
  loss it comes back and its sessions are probed;
- *client requests*: each accepted request gets one callback, an answer completes
  only the request it answers, a timer ends only the request it was set for;
- *client sessions*: a session always has a next keep-alive coming, and one that
  cannot be kept alive is torn down;
- *client channels*: no channel belongs to two streams, no live stream loses its
  own, and what a request took is given back;
- *authentication*: no Digest response can be taken for a replay;
- *framing*: the messages handled are those that were sent, whole, in order and at
  once, however the stream is cut;
- *server connections*: a response goes to the connection its request came from;
- *server sessions*: none is removed under a request or without telling the
  application, none is kept that no client can name;
- *server requests*: each one ends, with responses that do not contradict each
  other, and a late reply is refused;
- *together*: client and server agree on what is set up once nothing is on its way,
  and each finds out what the other has dropped.

The hazards behind these are listed, with their lines, in `PROJECT.json`.

## 2. Modules

| Module | Models | Checked by |
|---|---|---|
| `RtspClient` | client connection, requests and sessions | `MCRtspClient`, `RtspClient_*.cfg` |
| `RtspServer` | server connections, sessions and pending requests | `MCRtspServer`, `RtspServer_*.cfg` |
| `RtspClientPromise` | what the application may rely on; implemented by `RtspClient` | `RtspClient_keepalive.cfg` |
| `RtspChannels` | interleaved channels of the client | through `RtspSetup` |
| `RtspAuth` | cached challenge, client nonce and nonce count | through `RtspSetup` |
| `RtspSetup` | what the client's requests take and give back: extends `RtspChannels` and `RtspAuth` | `MCRtspSetup`, `RtspSetup_*.cfg` |
| `RtspFraming` | bytes to messages, at both ends | `MCRtspFraming`, `RtspFraming_*.cfg` |
| `RtspSystem` | a client and a server: instances of `RtspClient` and `RtspServer` | `MCRtspSystem`, `RtspSystem_agree.cfg` |
| `RtspClientProofs` | the slot, the timers and the connection of `RtspClient` | tlapm |
| `RtspClientRefinement` | `RtspClient` implements `RtspClientPromise` | tlapm |
| `RtspClientKeepAlive` | the keep-alives of `RtspClient` | tlapm |
| `RtspClientSlot` | CSeq numbers, slot, wire and medias of `RtspClient`, step by step | tlapm |
| `RtspServerProofs` | theorems about `RtspServer` | tlapm |
| `RtspSetupProofs` | theorems about `RtspSetup`, `RtspChannels` and `RtspAuth` | tlapm |
| `RtspSystemProofs` | theorems about `RtspSystem`, from those of its components | tlapm |
| `RtspFramingProofs` | theorems about `RtspFraming` | tlapm |

### RtspClient

The state is one record, `client`, with the fields of `struct rtsp_client`. The
list of sessions is the set `sessions`; each flag of a session is the set of
sessions that have it (`keep_alive`, `internal_teardown`, and `timer` for an armed
keep-alive timer). External to the library are `tskt` (the transport client, which
reconnects by itself), `lookups` (resolver lookups in flight) and `wire` (requests
of this connection the server has not answered). `owed`, `forgotten`, `spurious` and
`notified` are history for the properties: `owed` has the accepted requests whose
response callback is to come, and `forgotten` those that have left the slot and whose
callback never runs (`Forget`).

Every C function that changes the client is an operator from the client before to
the client after, with the function's name (`send_keep_alive`, `request_complete`,
`send_teardown`, ...). A handler is the composition of the functions it calls, and
an action is one callback of the loop, or one call of the application, run to its
end. `request_complete()` is split along its status: `request_complete` for OK,
FAILED, ABORTED and CANCELED, `request_timeout` for TIMEOUT, which may send
another keep-alive, a TEARDOWN, or reconnect. They share `Completed`.

The result of sending is an input (`SendResults`): sent, socket full, any other
error, or no authorization header. A request that is not sent has nevertheless
overwritten the header in the slot; `SetHeader` keeps that. The server may answer
in any order, not at all, with another session's id to a SETUP, or without a CSeq.

Abstractions: URLs are medias or the content base; durations are armed timers;
status codes are success, 454 and other; interleaved channels, extension headers
and the authentication challenge are left out. The application does not call the
library from inside a response callback.

### RtspServer

`conns` are the open connections (connection objects are reused), `sessions` and
`requests` the two lists, `idle` the sessions with a scheduled idle callback, `cb`
the request whose callbacks run. A request for the application takes two steps:
its arrival up to the callbacks, and `CallbackReturn`. Between them only the
application moves, so a reply inside the callback, which must not free the request,
and a later one are the same action taken at different times. A freed session or
media is one that has left `sessions`. `freed` and `told` of a request record
whether the application could know of it; a reply that uses freed memory or a NULL
request sets `status` to "crashed".

`requests` also keeps requests that have ended but that the application, replying
media by media, has not finished with: those are the late replies. A request the
reply timer ends is forgotten, since `cbs.request_timeout` tells the application.

Requests overlap: nothing in the code makes one wait for the one before it. A client
may pipeline, and the library's own client sends its next request, after
`rtsp_client_cancel()` or a response timeout, while the server's application still
holds the former one. Abstractions: ranges, scales and RTP-Info; the `playing` and
`recording` flags, which nothing reads for control; the broadcast TEARDOWN (it is in
`RtspSystem`) and ANNOUNCE of the server; framing. `rtsp_server_destroy()` is not called from inside
a callback, and the callbacks of the reply and session timers do not call back
into the server.

### RtspClientPromise

The client as the application sees it: the state of the connection, the request
whose callback is to come, the sessions it may use, and the next request number.
The refinement mapping is the identity on four fields of the record (`state` is
`conn_state`, `next` is `cseq`); timers, socket, slot, keep-alives, counters and
lookups are hidden. Three clauses are there because the code needs them, and a
stricter promise is not kept: a request may push out the one before it
(`client_busy`), a TEARDOWN of a media its session does not have ends without its
callback, and the end of any SETUP, a failed one too, may bring back a
session that was removed while it was under way.

### RtspChannels, RtspAuth, RtspSetup

`used` is `channel_used[]`, `medias` the medias of the sessions with their
`channel_pair`; `auth` is `client->auth`. The slot is kept as far as it decides what
is given back: whether it is pending, whether its header is the one that was sent,
its method, its media and its channels. `busy` stands for the
`keep_alive_in_progress` flags, which let one request be put over another. Every
request but OPTIONS goes through `generate_authorization_header`, whether it is then
sent or not, and is refused if that fails; DESCRIBE and ANNOUNCE (`Describe`) are sent
all the same when it fails with `-EAGAIN`, for want of a nonce (`NonceMissing`).
`server_auth` is left out, being set and cleared together with `auth`; so are MD5 and
base64.

Applications ask for any pair of `Wanted`, and a server answers with one of these or
the one it was asked for, whatever other medias have: neither `rtsp_client_setup()` nor
`update_interleaved_channels()` looks whether a pair starts at an even channel, and the
latter not whether it is another media's. `crossed` (history) is set once a server has
given a media the channels of another; from then on two medias share channels, and the
end of one frees those of the other. `ChannelsNotShared` and `OwnedIsUsed` are about
the client's part, so they say nothing of the time after. `Setup` has no step where the
loop of `allocate_interleaved_channels()` does not end.

### RtspFraming

One receiving end: a buffer and a parser context fed by the connections in `Conns`.
For the server, those are its clients; for the client, its connections one after the
other. Bytes have their values, since the code looks for bytes: CR, LF, NUL, `$` and
a length in two bytes. A header is three bytes (its first line, a number, the digit
of its Content-Length) and an empty line. `Send` is the peer (external): it adds the
bytes of a message to the `stream` of its connection, of which `arrived` bytes have
come through. `Segment` is the start of the data callback, `NextMessage` one turn of its
loop, `Close` the end of a connection, which resets neither the buffer nor the context.
`sent`, `ends`, `handled` and `failed` are history.

Because buffer and context are shared, and survive a connection, messages are only
kept apart if no connection sends, or closes, in the middle of another's message:
`Interrupt = FALSE`. With `TRUE`, TLC shows bytes of one connection completing the
message of another. Nothing in the repository says otherwise, so this is an
assumption of the runs and not a finding.

### RtspSystem

`C == INSTANCE RtspClient` and `S == INSTANCE RtspServer`, their variables shared.
`up` and `down` are the messages on their way, in order; `link` is the connection
of the client. Each action is an action of one component (of both, for
`Connected`) plus what it puts into or takes from the connection. Either end may find
the connection closed at any time; what is in it is lost, and the server may still
have to find out about connections the client has replaced. The responses
are those of the server, so the client's freedom to be answered anything, out of
order, is gone, and the server's freedom to be asked anything is gone, too.

Left out: requests without a session, a response timeout given by the application
(it may cancel instead), sending that fails, and applications that do not wait for
their callback. The server's application forces whole sessions down (`Forced`).
With single medias, TLC finds `ClientHasWhatServerHas` violated: both sides tear down
the same media at once, the client's TEARDOWN reaches a server that does not have it
any more, and the server then tears down all the other medias (`server_unknown_track`).

## 3. Runs

| Run | Bounds | Checks |
|---|---|---|
| `client_faults` | 2 sessions, 1 media, all send results, 2 failures to give up, CSeq up to 4 | `TypeOK`, `PendingOnlyConnected`, `DisconnectedIsClean`, `TimerHasRequest`, `AnswersMatch`, `OnlyKnownLost` |
| `client_keepalive` | 1 session, CSeq up to 5, every request is sent, TEARDOWN may be refused | `NoSpuriousCallback`, `KeepAliveScheduled`, `GivenUpIsTornDown`, `KeepsPromise` |
| `server_overlap` | 2 connections accepted three times, 2 sessions, 2 medias, 3 requests | `TypeOK`, `ResponsesToRequester`, `NoContradiction`, `IdleIsLive`, `OnlyOverlapUnmarks`, `OnlyOverlapDrops` |
| `server_liveness` | 1 connection accepted twice, 1 session, 2 medias, 3 requests, fairness, no symmetry | `RequestsEnd` |
| `framing_segments` | 2 connections with up to 2 messages each of 6 shapes, cut into segments in every way | `TypeOK`, `HandledAsSent`, `NothingWaits` |
| `setup_resources` | 4 channels, 2 medias, 2 nonces, a nonce count that goes round after 2, 4 requests, all send results, pairs that start at channel 0 or 1 or none (`MCWanted`) | `TypeOK`, `ChannelsNotShared`, `OwnedIsUsed`, `DigestsDiffer`, `OnlyKnownLeaks` |
| `system_agree` | 1 session, 2 medias, 1 connection accepted twice, CSeq up to 4, fairness | `TypeOK`, `ClientHasWhatServerHas`, `ResponseIsToRequest`, `OwedEnds`, `DeadSessionDropped` |

Why the bounds are enough. The client has one slot, so a hazard of requests needs
two of them and a keep-alive: three CSeq numbers, and a fourth for what comes after
a reconnection; giving a session up takes a fifth. Giving up after two failures
instead of three (keep-alives) or five (requests) reaches the same code with fewer
steps. Two sessions are the fewest that compete for the slot. In the server, two
medias are the fewest that make a reply partial, two connections and three accepts let one be reused while the other waits,
and three requests are two SETUPs and a TEARDOWN, in any order in which they can wait
for the application. With one connection, one session and four requests (535,000
states), which allows for two more operations on a session with two medias, the same
properties were checked once. A message is 7 to 9 bytes, so a segment may hold
anything from one byte to all of a connection's messages; the shapes have bodies and
payloads that look like an empty line or a packet, a packet on channel 10 (`\n`), and
a header that cannot be read, and two of them in any order are the fewest with a
message behind a message. Four channels are two pairs: one for each media, or none
left for a third SETUP; a pair of channels 1 and 2 splits both
(`setup_resources` has 288,000 states and takes two minutes). In the system, three requests are a SETUP, another request
and a keep-alive; the second accept is the reconnection. `RtspSystem` was also
checked once with two connections (272,000 states) and, without liveness, with CSeq
up to 5 (1.3 million states); both are too long to repeat on every change.

What the runs do not claim, because the code does not give it:

- `NoSpuriousCallback` with a socket that can be full: a request that fails to be
  sent has already replaced the header of the pending keep-alive it meant to
  overtake, and the completion of that keep-alive runs the callback of the request
  that was refused.
- `KeepAliveScheduled` with a hard send error, or once a server lists GET_PARAMETER
  no more: `send_keep_alive()` then returns without re-arming the timer. It also
  counts a session as looked after while `keep_alive_in_progress` is set, which can
  be stale: left over from before a network loss, it also suppresses the probe on
  reconnection until the next response.
- A request that is refused leaves all as it was: a PLAY refused with `-ENOENT` has
  already stopped the timer of a pending keep-alive.
- `KeepsPromise` with a socket that can be full: the header of a SETUP that could not
  be sent brings its session back when the keep-alive it was put over times out.
- Every accepted request gets its callback. `OnlyKnownLost` names the two ways in
  which one does not: a new header is put over it while the keep-alive flag of a
  session is stale (`client_busy`), and the end, by whatever status, of a TEARDOWN of
  a media the session does not have. `teardown_request_complete()` then logs "media
  not found" and leaves (`src/rtsp_client.c:892`), and `tests/rtsp_test_loopback.c:3811`
  asserts that no callback runs. `OwedEnds` is checked where neither happens: an
  application that waits for its callbacks and a server that only forces whole sessions
  down. With single medias in `Forced` TLC finds the second.
- That a timer is the timer of the request in the slot. `TimerHasRequest` says that
  there is a request; `req_timer` does not keep which one it was set for.
- No channel is ever lost. `OnlyKnownLeaks` names the ways: a SETUP that cannot be
  sent, a request put over a pending SETUP, and an answer that changes to UDP, names
  no session, or a media the session has.
- Channels stay apart whatever the server answers: see `crossed` in section 2.
- `HandledAsSent` for the body of an unreadable message, which is not skipped, and
  for a packet whose first three bytes arrive alone and hold an empty line (channel
  and high length byte both 10 or both 13): those are refused as a header.
- `ClientHasWhatServerHas` after a reconnection: what the lost connection carried is
  only found out by the next keep-alive or TEARDOWN, and only for whole sessions.
- `ClientHasWhatServerHas` with two sessions (CSeq up to 8): a PLAY overtakes the
  keep-alive of one and is cancelled, the stale `keep_alive_in_progress` lets a request
  overwrite the client's own TEARDOWN of the other, the server's application does not
  answer that TEARDOWN, and its medias stay `tearing_down` while the client has them.
- `op_in_progress` is reset when its request ends: a request that times out, or a
  TEARDOWN that matches nothing, leaves it set.
- `KeepAliveScheduled` and `GivenUpIsTornDown` with two sessions (CSeq up to 6): a
  stale `keep_alive_in_progress` of one lets a request overwrite the TEARDOWN the
  client has sent on its own for the other. This is `client_busy` at work.
- A session with a waiting request always has `op_in_progress` set, and an accepted
  media is never dropped without a teardown callback. With requests that overlap,
  neither holds: the reply to one of two requests clears `op_in_progress` for both; and
  the TEARDOWN of a media can reach the application before it has accepted the SETUP of
  that media, which is then accepted, and freed with the TEARDOWN. `server_overlap`
  checks that nothing else does it: `OnlyOverlapUnmarks` (the mark goes only in a step
  that ends another waiting request of the session) and `OnlyOverlapDrops` (a media is
  dropped only if its TEARDOWN callback came first, or its session waits for the removal
  that a failed SETUP has scheduled).
- No session without a client that knows it: a first SETUP that times out leaves
  one until the session timeout, unlike a first SETUP that is refused.

Smaller hazards that no property covers, all of them modelled unless said otherwise:

- `tskt_client_connect()` fails when the client reconnects after too many timeouts:
  the client stays in CONNECTING until the application disconnects;
- `methods_allowed` of one server is kept for the next;
- a TEARDOWN of the server for a media the client does not know removes the session;
- a Digest challenge without a nonce, or with auth-int, makes requests fail,
  keep-alives included, until another challenge comes: all but OPTIONS, and without a
  nonce all but OPTIONS, DESCRIBE and ANNOUNCE, which are then sent without
  authorization;
- two TEARDOWNs that overlap: the end of the first frees the media of the second;
- an empty line of LF LF is skipped for a CR LF CR LF later in the buffer (the
  library writes CR LF only, and so do the messages of the run);
- not modelled: Content-Length is read with `atoi()` and nothing bounds the buffer;
  `request_first_reply` is set again after replies inside the callback.

Fairness (`RtspServer!Fairness`). `WF` of `CallbackReturn`: callbacks of the
application return. `SF` of `RequestTimeout`: the 1 s periodic timer of the server
is served again and again however busy the connections are; it is disabled while a
callback runs, hence strong fairness. No fairness is assumed of clients or of the
application's replies. Every request has a
deadline: a reply timeout of 0 is replaced by the default
(`src/rtsp_server.c:1655`).

Fairness (`RtspSystem!Fairness`). The same two of the server, here as part of the
composition; `SF` of `Serve`: the server's loop reads a connection that has data
again and again, though not while a callback runs; `WF` of `Receive` and of the
keep-alive timers: the client's loop serves its socket and timers; `WF` of
`~LinkOpen /\ ClientLoses`: a connection that the server has closed is found closed.
No fairness is assumed of either application's requests and replies, of the
network staying up, of reconnection, or of the response timer of the client, which
an application may leave unset: `OwedEnds` holds without it.

### Runs that find a violation

Each states a sentence of a comment, header or test of the repository that the code
does not keep.

| Run | What happens |
|---|---|
| `client_busy` | A request overtakes a keep-alive, whose flag stays set; the next request passes the busy check and overwrites the first, whose callback never runs. |
| `server_unknown_track` | A TEARDOWN of an unknown track with a `/` in its path tears everything down. The test says that the session survives, and avoids such a path because it "would accidentally tear down the real media". |
| `server_late_reply` | `rtsp_server_reply_to_record()` reads `request->media_count` before it tests `request`. |
| `setup_odd_pair` | After a SETUP with channels 1 and 2 of four, channels 0 and 3 are unused: enough for `rtsp_client_setup()` to go on, but none of the pairs the `uint8_t` loop looks at, which never ends. |
| `framing_bad_header` | A header that cannot be read ends the loop over complete messages; the one behind it stays in the buffer until the peer sends more. |

## 4. Proofs

Every theorem holds for any sets of sessions, medias, connections, channels and
methods and any bounds, under the named assumptions of the modules
(`ClientAssumption`, `ServerAssumption`, `ChannelsAssumption`, `AuthAssumption`,
`SetupAssumption`, `SystemAssumption`, `FramingAssumption`: the types of the constants,
finitely many medias, an even number of channels, bodies shorter than ten bytes, since
Content-Length is one digit, and packets that fit their length) and the hypotheses given below. A proof module has one lemma per C function,
which says what the function does to each part of the invariant, one per action, and
one step per action in the theorem that the invariant is inductive.

| Module | Theorem | States | Hypotheses |
|---|---|---|---|
| `RtspClientProofs` | `Inductive` | `IInv` | `OneLookup` |
| | `TypeCorrect` | `TypeOK` | `OneLookup` |
| | `AnswersMatchTheirRequest` | `AnswersMatch` | `OneLookup` |
| | `TimerBelongsToRequest` | `TimerHasRequest` | `OneLookup` |
| | `NothingPendingOffline` | `PendingOnlyConnected` | `OneLookup` |
| | `DisconnectedLeavesNothing` | `DisconnectedIsClean` | `OneLookup` |
| `RtspClientRefinement` | `CallbacksAreOwed` | `NoSpuriousCallback` | `OneLookup`, `AlwaysSent`, `SomeSession` |
| | `Refinement` | `KeepsPromise` | `OneLookup`, `AlwaysSent`, `SomeSession` |
| `RtspClientKeepAlive` | `ScheduledInvariant` | `Tended` | `OneLookup`, `Sendable`, `OneSession`, `Probeable` |
| | `NoSessionForgotten` | `KeepAliveScheduled` | the same |
| | `SpentSessionIsTornDown` | `GivenUpIsTornDown` | the same |
| `RtspClientSlot` | `FreshCseq` | `SendsSlot` (an action property) | `OneLookup` |
| | `LostCallbacks` | `OnlyKnownLost` (an action property) | `OneLookup` |
| `RtspServerProofs` | `TypeTheorem` | `TypeOK` | |
| | `RequesterTheorem` | `ResponsesToRequester` | |
| | `ContradictionTheorem` | `NoContradiction` | |
| | `IdleTheorem` | `IdleIsLive` | |
| | `UnmarkTheorem` | `OnlyOverlapUnmarks` (an action property) | |
| | `DropTheorem` | `OnlyOverlapDrops` (an action property) | |
| | `RequestsKeptTheorem` | `KeepsRequests` (an action property) | |
| `RtspSetupProofs` | `SharedTheorem` | `ChannelsNotShared` | |
| | `OwnedTheorem` | `OwnedIsUsed` | |
| | `LeaksTheorem` | `OnlyKnownLeaks` (an action property) | |
| | `DigestsTheorem` | `DigestsDiffer` | |
| | `TypeTheorem` | `TypeOK` | |
| `RtspSystemProofs` | `SystemTypeTheorem` | `TypeOK` | |
| | `ResponseTheorem` | `ResponseIsToRequest` | |
| | `AgreeTheorem` | `ClientHasWhatServerHas` | `OneSession`, `Forced \subseteq {"all"}` |
| `RtspFramingProofs` | `TypeTheorem` | `TypeOK` | `Apart`, `Skippable`, `Recognised` |
| | `HandledTheorem` | `HandledAsSent` | the same |
| | `WaitsTheorem` | `NothingWaits` | the same |

But for `SomeSession`, the hypotheses exclude cases in which the code does not keep
what a theorem they guard states (section 3, "What the runs do not claim").

- `OneLookup`: the application does not call `rtsp_client_connect()` again while a
  lookup it gave up is still running. `rtsp_client_disconnect()` does not cancel the
  lookup and `tskt_resolv_cb()` does not look at its id, so with two lookups the
  failure of the old one sets DISCONNECTED under a client that has connected through
  the new one.
- `AlwaysSent`: the socket takes every request. A request that could not be sent
  leaves its header over that of the keep-alive it wanted to overtake.
- `SomeSession`: `SessionIds` is not empty, that is, a server has a session to name.
- `Sendable`, `Probeable`: the socket may be full but sending does not fail otherwise,
  and a server that lists its methods lists GET_PARAMETER. Otherwise
  `send_keep_alive()` returns without arming the timer again.
- `OneSession`: with two, a stale `keep_alive_in_progress` of one lets a request
  overwrite the TEARDOWN of the other.
- `Apart`: `Interrupt = FALSE`, as in the run (section 2).
- `Skippable`: a message whose header cannot be read has no body. The code skips the
  header only, and what follows would be read as a message.
- `Recognised`: channel and high length byte of a packet are not both 10 or both 13. Of
  the first three bytes of such a packet, `rtsp_parse_interleaved()` cannot tell that
  they are one, and they look like an empty line.

The shapes of `framing_segments` satisfy the last two.

### The client: `IInv`

None of the properties is inductive alone. That an answer belongs to the slot needs
that no CSeq on the wire or owed is as high as the next one, and that a header in a
free slot, left behind by a request that could not be sent, matches nothing on the
wire. That nothing is pending offline needs that the socket, the transport and the
connection state agree, and that a lookup in flight means the transport is stopped.
That the timer has a request needs it of every operation in the middle of a handler,
when the slot is cleared and taken again. Hence `IInv` has two parts: `Good` (types,
`Slot`, `Flags`), which every C function preserves, whatever the connection, and
`Connection`, which only whole handlers preserve.

### The refinement: `Kept`

`IInv` says that what is owed a callback is in the slot. The refinement needs the
converse as well: what is in the slot is owed its callback, unless it is a keep-alive
or a TEARDOWN of the client's own, and then its completion can tell, because
`is_internal` and the `internal_teardown` of its session are set (`Sound`). `Kept` is
`IInv`, `Sound`, and that a destroyed client has no lookup (`Over`). Every C function
then does one of three things to what the application sees: it loses sessions
(`Quieter`), sends a request of the client's own from a free slot (`Own`), or ends the
request of the application (`Ended`). The lemmas show that these compose: a handler
that completes a request, removes the session and sends the next keep-alive is still
one step of the promise. `request_complete()` needs most care; it may call the
application for a session it has just created.

### The keep-alives: `Tended`

A session that is not given up is in `timer` or `keep_alive` and has failures left
(`ArmedAt`). One that is given up is in `internal_teardown`, the TEARDOWN in the slot
is the client's own and of all its medias, and the session waits for no keep-alive
(`GivenUp`). The last conjunct makes it inductive: a request of the application may
take the slot only from a keep-alive, and `keep_alive_in_progress` being clear is what
keeps it from taking the slot from the TEARDOWN. Inside handlers the invariant is
broken for a while: `Half` describes the client between the completion of the request
and the update of the session, `Due` the one whose timer has run out.

### The slot, seen from the wire: `Moves` and `Sends`

What the other end may rely on is no state but what a step does: the CSeq never goes
down, the slot stays as it was, is cleared, or gets a header with a CSeq that no header
had (`Moves`); and nothing is put on the wire but the header in the slot (`Sends`). Each
C function is shown to do so, from `Good`, and the two compose; `Keeps` is for those that
send nothing. `OnlyKnownLost` is shown in the same way: each C function either calls
back, forgets a TEARDOWN of an unknown media, or leaves what is owed in the slot.

### The server: `ServerInv`

A response can go astray or contradict another only through a request the server
keeps. `ServerInv`, which holds whatever clients do, says of each one that its
connection is open and the one it came from (`Good`), that nothing has been sent for
it while it waits, that a success is the last word and an error leaves a media without
a reply (`RequestOK`), that its medias live until freed (`LiveIn`), and that a request
that has been replied to is over unless its callbacks run (`DoneOK`). `DoneOK` is what
keeps the reply timer from answering a second time.

It is enough for `OnlyOverlapUnmarks` and `OnlyOverlapDrops` as well, whatever
overlaps. A step resets the mark of one session at most, and unless it removes that
session it ends a request that was waiting in it (`UnmarksStep`); no request starts to
wait without setting the mark (`UnmarksAdd`). A step that takes a media from a session
takes one that was being torn down, or tells the application, or removes a session that
waits for it (`DropsStep`); that a request in its callbacks is pending (`CallbackOK`),
and that its medias live until they are freed, is what the replies need.

`KeepsRequests` is an action property that follows from `ServerInv`: a request keeps its
method, session, medias and connection as long as anyone knows of it, and no number is
given twice. The system needs it.

### The resources: `ChannelInv`, `AuthInv`

`ChannelInv`: the channels of the medias and those of the SETUP in the slot are apart
and used, until a server gives a media the channels of another. What is in the slot
besides a SETUP asks for none, always; `KnownLoss` follows from that for each action.
`AuthInv`: the last Digest response has the count `client->auth` is at, and counts of
one client nonce are as far apart as the responses, but for one turn (`CountsAdvance`).

### The system: `Inv`

`Inv` is `IInv` of the client, `ServerInv` of the server, and what is between them.
Whatever is on its way to the server, in the hands of its application or on its way back
is a header the client has sent: its CSeq has been used, and if it is the CSeq in the
slot then it is the header in the slot, and pending (`SentBy`). `FreshCseq` is why a step of
the client does not break this; `KeepsRequests` is why a step of the server does not
change which header a request stands for (`AskedOK`). The invariant of the client needs
the server in return: a response must name the session of its request or none
(`SentTo`). The proof is by composition: each action of the system is one of `RtspClient` or
`RtspServer`, its component keeps its own invariant by the component's theorem, and only
the part in between is new. `C` and `S` have no theorems, so `RtspSystemProofs` has the
same instances of `RtspClientSlot` and `RtspServerProofs` (`CP`, `SP`), and two lemmas say
that they are the same.

### The system: `AgreeInv`

`ClientHasWhatServerHas` says nothing while a message is on its way, so its invariant must
say what each message on its way will do. It has three parts. The server's connections
are numbered by their accepts; before the first one neither side has a session; and on
the first one, while both ends have it open (`First`), the two sides are tied together by
`Agrees`:

- whatever names a session names one that the server has created (`Names`), which keeps
  an old TEARDOWN from reaching a new session;
- the TEARDOWN of a session on its way is the request in the client's slot, or the client
  neither has the session nor waits for a SETUP in it (`Whole`);
- the TEARDOWN of a media on its way is in the slot, or the client does not have the
  media; the server still has it, and no other TEARDOWN comes before it (`Single`). This
  is what rules out the server's answer to a path it does not know, which is to tear down
  every media (`server_unknown_track`);
- a media the client has is one the server has, unless the slot holds its TEARDOWN
  (`Agreed`);
- once the server has read the SETUP in the slot, the media is there and nothing else is
  on its way to the server (`SetUp`), and the request in the slot is the last one sent
  (`Last`): the success that adds the media to the client's session finds it.

Each step of the client is one of four (`RtspClientSlot`, second half): it leaves the slot
alone and may lose sessions (`Stays`), puts a new request there (`Asks`, which overtakes
nothing but a keep-alive), ends the request with what the answer brings or takes (`Ends`),
or drops everything (`Drops`). Each step of the server reads a message that adds a media
(`Adds`) or tears some down (`Takes`), or loses no media that was not being torn down except
with its whole session (`KeepsMedias`). The lemmas `StaysAgrees`, `AsksAgrees`, `EndsAgrees`,
`KeepsAgrees`, `ServeAgrees` and `TeardownAgrees` are about these cases; the rest shows which
action is which.

The theorem has two hypotheses, both necessary (section 3 and `RtspSystem` in section 2
give the counterexamples): at most one session id, because with two a stale
`keep_alive_in_progress` lets a request overwrite a TEARDOWN that nobody then waits for, and
`Forced \subseteq {"all"}`. Medias, requests and connections are unbounded.

### The framing: `IInv` of `RtspFramingProofs`

There are three layers. The bytes: what each message looks like in the stream, and that
no proper part of a header, or of a packet, holds an empty line. One call: of a buffer
that starts with a message or with part of one, `rtsp_get_next_message()` makes nothing
while bytes are missing, except that it may keep the header, and otherwise that message,
all of its bytes and no context (`MessageParsed`). The state: for each connection there is
an n such that the bytes that have left the buffer are exactly those of its first n
messages (`AtPlace`), which have been handled but for the unreadable ones (`HandledOK`);
the context is empty or the header of message n + 1, still in the buffer, and between
callbacks message n + 1 has not arrived (`Pending`). That n need not be found by
induction over the stream: `ends` records where each message ends, and `StreamOK` relates
it to the bytes. TLC checked the invariant on `framing_segments` before it was proved.

### Only model-checked

- `OwedEnds`, `DeadSessionDropped`, `RequestsEnd`: liveness under fairness is out of
  the prover's reach.

## 5. Not modelled

- The text of headers (`src/rtsp.c`), urls and base64: stateless conversions of
  strings, covered by the repository's unit tests, with nothing between two calls
  that could go wrong. Framing keeps the kind of a header and its Content-Length.
- MD5 and base64 of the responses, and the tables of names, in `src/rtsp_auth.c`.
- `rtsp_server_announce()` and the two `send_interleaved` functions: they send, and
  change nothing that anything reads. `RtspSystem` has the server's other message,
  TEARDOWN.
- Durations: timers are armed or not. A Session timeout above 5368709 s wraps when
  the keep-alive period is computed.
- The command line tools: examples of how to use the library.

## 6. Plan

Done: `RtspClient`, `RtspServer`, `RtspChannels`, `RtspAuth`, `RtspSetup`,
`RtspFraming`, `RtspSystem`, `RtspClientPromise`, their runs, and the theorems of
section 4. Left:

- An abstract specification of the server's pending requests. `KeepsRequests`,
  `NoContradiction` and `ResponsesToRequester` are most of what it would say.
