------------------------------ MODULE RtspAuth ------------------------------
(***************************************************************************)
(* The authorization state of an RTSP client (src/rtsp_client.c,           *)
(* rtsp_auth.c, rtsp.c): the challenge of the last WWW-Authenticate        *)
(* header, and the client nonce and nonce count that make every Digest     *)
(* response different.                                                     *)
(*                                                                         *)
(* server_auth is left out: it is set and cleared together with auth, and  *)
(* only read for that.  What the responses are computed from is kept, the  *)
(* MD5 is not.                                                             *)
(***************************************************************************)
EXTENDS Integers, Sequences

CONSTANTS
    Nonces,         \* nonces of a server
    NoNonce,
    MaxNc           \* 2^32 - 1, scaled down

ASSUME AuthAssumption == NoNonce \notin Nonces /\ MaxNc \in Nat \ {0}

VARIABLES
    auth,           \* client->auth
    password,       \* does the url have one?
    digests,        \* history: Digest responses generated, oldest first
    cnonces         \* history: client nonces generated

\* A WWW-Authenticate header.
Challenge == [type : {"basic"}, nonce : {NoNonce}, qop : {"none"}]
             \cup [type : {"digest"}, nonce : Nonces \cup {NoNonce},
                   qop : {"none", "auth", "auth-int"}]
NoChallenge == [type |-> "absent", nonce |-> NoNonce, qop |-> "none"]

\* client->auth = NULL
NoAuth == [type |-> "absent", nonce |-> NoNonce, qop |-> "none", cnonce |-> 0,
           nc |-> 0]

AuthState == {NoAuth} \cup
             [type : {"basic", "digest"}, nonce : Nonces \cup {NoNonce},
              qop : {"none", "auth", "auth-int"}, cnonce : Nat, nc : 0..MaxNc]

\* Types; no client nonce but those that were made, and no response carries the
\* count 0, which no server accepts.
AuthTypeOK ==
    /\ auth \in AuthState
    /\ password \in BOOLEAN
    /\ cnonces \in Nat /\ auth.cnonce <= cnonces
    /\ digests \in Seq([nonce : Nonces, cnonce : 1..cnonces, nc : 1..MaxNc])

AuthInit ==
    /\ auth = NoAuth /\ password = FALSE
    /\ digests = << >> /\ cnonces = 0

\* Mutant: 0 is not skipped.
NextNc_Zero(nc) == IF nc = MaxNc THEN 0 ELSE nc + 1

\* rtsp_auth_generate_digest_response(): an unsigned that skips 0.
NextNc(nc) == IF nc = MaxNc THEN 1 ELSE nc + 1

\* generate_authorization_header() succeeds.
CanAuthorize ==
    \/ auth = NoAuth
    \/ /\ password
       /\ auth.type = "digest" => auth.nonce # NoNonce /\ auth.qop # "auth-int"

\* Mutant: the nonce count of the request is not copied back to client->auth.
generate_authorization_header_NotSaved ==
    LET cn == IF auth.cnonce = 0 THEN cnonces + 1 ELSE auth.cnonce
    IN  /\ CanAuthorize
        /\ IF auth.type # "digest" THEN UNCHANGED <<auth, digests, cnonces>>
           ELSE /\ auth' = [auth EXCEPT !.cnonce = cn]
                /\ digests' = Append(digests, [nonce |-> auth.nonce,
                                  cnonce |-> cn, nc |-> NextNc(auth.nc)])
                /\ cnonces' = IF auth.cnonce = 0 THEN cn ELSE cnonces
        /\ UNCHANGED password

\* generate_authorization_header() for a request that is then sent or not:
\* with a Digest challenge, the client nonce is made once and the count goes
\* up, in the request and, by the copy of the client's fields, in auth.
generate_authorization_header ==
    LET cn == IF auth.cnonce = 0 THEN cnonces + 1 ELSE auth.cnonce
        nc == NextNc(auth.nc)
    IN  /\ CanAuthorize
        /\ IF auth.type # "digest" THEN UNCHANGED <<auth, digests, cnonces>>
           ELSE /\ auth' = [auth EXCEPT !.cnonce = cn, !.nc = nc]
                /\ digests' = Append(digests, [nonce |-> auth.nonce,
                                               cnonce |-> cn, nc |-> nc])
                /\ cnonces' = IF auth.cnonce = 0 THEN cn ELSE cnonces
        /\ UNCHANGED password

\* It returns -EAGAIN: a Digest challenge that names no nonce.
NonceMissing == auth.type = "digest" /\ auth.nonce = NoNonce

\* It fails: nothing is generated.
AuthorizationFails == ~CanAuthorize /\ UNCHANGED <<auth, password, digests, cnonces>>

\* update_auth_from_server(), then a 401 without WWW-Authenticate, which
\* drops what is cached.  A new challenge changes the server's fields only.
update_auth_from_server(challenge, code) ==
    /\ auth' = IF challenge # NoChallenge
               THEN [auth EXCEPT !.type = challenge.type,
                                 !.nonce = challenge.nonce,
                                 !.qop = challenge.qop]
               ELSE IF code = "401" THEN NoAuth ELSE auth
    /\ UNCHANGED <<password, digests, cnonces>>

\* clear_remote_info(), by rtsp_client_connect() or _disconnect(): what was
\* agreed with one server is never used with another.
clear_remote_info(pass) ==
    /\ auth' = NoAuth /\ password' = pass
    /\ UNCHANGED <<digests, cnonces>>

(***************************************************************************)
(* Properties                                                              *)
(***************************************************************************)

\* No two Digest responses with the same client nonce carry the same nonce
\* count, for as long as the count has not gone round, whether or not the
\* first was ever sent, and although the nonce of the server changes in
\* between.
DigestsDiffer ==
    \A i, j \in DOMAIN digests :
        (i < j /\ digests[i].cnonce = digests[j].cnonce /\ j - i < MaxNc)
            => digests[i].nc # digests[j].nc
=============================================================================
