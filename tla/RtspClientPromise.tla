------------------------- MODULE RtspClientPromise -------------------------
(***************************************************************************)
(* What an RTSP client promises to its application, without timers,        *)
(* sockets, keep-alives and the request slot: RtspClient implements it.    *)
(*                                                                         *)
(*   - the connection goes through the states of rtsp/client.h, and back   *)
(*     to CONNECTING when it is lost;                                      *)
(*   - one request of the application is under way at a time, with a       *)
(*     number of its own, and only while the client is connected;          *)
(*   - the client's own requests never take the place of the               *)
(*     application's;                                                      *)
(*   - a session appears only with the end of a request of the             *)
(*     application, one at a time; it may be lost at any time, and no      *)
(*     session survives the connection being given up.                     *)
(***************************************************************************)
EXTENDS Naturals

CONSTANT SessionIds

VARIABLES
    state,      \* of the connection
    owed,       \* the request that has a response callback to come, if any
    sessions,   \* sessions the application can use
    next        \* the next request number
vars == <<state, owed, sessions, next>>

Init == state = "DISCONNECTED" /\ owed = {} /\ sessions = {} /\ next = 1

Connect ==
    /\ state = "DISCONNECTED" /\ state' = "CONNECTING"
    /\ UNCHANGED <<owed, sessions, next>>

\* The sessions that are left may be probed at once.
Connected ==
    /\ state = "CONNECTING" /\ state' = "CONNECTED"
    /\ next' \in {next, next + 1}
    /\ UNCHANGED <<owed, sessions>>

\* The request of the application, if there is one, ends.  It may be a SETUP,
\* which brings a session back even if it fails.
EndOfRequest ==
    /\ owed' = {}
    /\ \E s \in SessionIds :
          sessions' \in SUBSET (sessions \cup (IF owed = {} THEN {} ELSE {s}))

\* The connection is lost, or given up after too many timeouts.
Lost ==
    /\ state = "CONNECTED" /\ state' = "CONNECTING"
    /\ EndOfRequest
    /\ next' \in {next, next + 1}

\* The client is disconnected or destroyed.
Ends ==
    /\ state \in {"CONNECTING", "CONNECTED", "DISCONNECTED"}
    /\ state' \in {"DISCONNECTED", "DESTROYED"}
    /\ owed' = {} /\ sessions' = {}
    /\ UNCHANGED next

\* The application sends a request.  One that is still under way is forgotten:
\* the client may let it through although it is busy.
Request ==
    /\ state = "CONNECTED"
    /\ owed' = {next} /\ next' = next + 1
    /\ UNCHANGED <<state, sessions>>

\* The request of the application ends: its callback runs; or it makes room
\* for another one, or is a TEARDOWN of a media its session does not have, and
\* no callback ever runs (OnlyKnownLost of RtspClient).
RequestEnds ==
    /\ EndOfRequest
    /\ UNCHANGED <<state, next>>

\* The client sends a request of its own, and may lose a session by it.
OwnRequest ==
    /\ state = "CONNECTED" /\ owed = {}
    /\ next' = next + 1
    /\ sessions' \in SUBSET sessions
    /\ UNCHANGED <<state, owed>>

\* A session ends, by either side or for lack of answers.
SessionLost ==
    /\ sessions' \in SUBSET sessions
    /\ UNCHANGED <<state, owed, next>>

Next == \/ Connect \/ Connected \/ Lost \/ Ends
        \/ Request \/ RequestEnds \/ OwnRequest \/ SessionLost

Spec == Init /\ [][Next]_vars
=============================================================================
