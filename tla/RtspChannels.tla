---------------------------- MODULE RtspChannels ----------------------------
(***************************************************************************)
(* The interleaved channels of an RTSP client (src/rtsp_client.c,          *)
(* rtsp_client_priv.h, rtsp_client_session.c): channel_used[] says which   *)
(* of the 256 channels of the connection are taken; a SETUP over TCP takes *)
(* a pair, the media it sets up keeps it, and whatever ends the media      *)
(* gives it back.                                                          *)
(*                                                                         *)
(* RtspSetup says when each of these happens.                              *)
(***************************************************************************)
EXTENDS Naturals, FiniteSets, Functions, FiniteSetsExt

CONSTANTS
    NChannels,      \* UINT8_MAX + 1, scaled down
    Medias          \* medias of the sessions of a client

ASSUME ChannelsAssumption == NChannels \in Nat \ {0} /\ NChannels % 2 = 0

Channels == 0..(NChannels - 1)
Pair == [rtp : Channels, rtcp : Channels]

\* A pair of calloc()ed memory: of a media over UDP, of a request that asks
\* for none, of an answer that names none.
NoPair == [rtp |-> 0, rtcp |-> 0]

VARIABLES
    used,           \* client->channel_used
    medias          \* the medias of the sessions, each with its channel_pair

is_channel_pair_valid(p) == p.rtp # p.rtcp

\* The channels set_channel_pair_used() sets or resets.
ChannelsOf(p) == IF is_channel_pair_valid(p) THEN {p.rtp, p.rtcp} ELSE {}

count_channel_unused == Cardinality(Channels \ used)

\* check_channel_unused() of both channels of a pair.
PairUnused(p) == ChannelsOf(p) \cap used = {}

\* The pairs the loop of allocate_interleaved_channels() looks at: rtp is
\* even.  Its counter is an uint8_t, which never leaves the loop by itself.
EvenPairs == {p \in Pair : p.rtp % 2 = 0 /\ p.rtcp = p.rtp + 1}

FreePairs == {p \in EvenPairs : PairUnused(p)}

\* Mutant: the pair the application asks for is not checked.
allocate_interleaved_channels_Unchecked(want) ==
    IF is_channel_pair_valid(want) THEN {want}
    ELSE {p \in FreePairs : \A q \in FreePairs : p.rtp <= q.rtp}

\* allocate_interleaved_channels(): the pair it allocates, if any: the one
\* the application asks for or, if it asks for none, the first free one.
allocate_interleaved_channels(want) ==
    IF is_channel_pair_valid(want) THEN {p \in {want} : PairUnused(p)}
    ELSE {p \in FreePairs : \A q \in FreePairs : p.rtp <= q.rtp}

\* Mutant: the requested pair is freed last, and always.
update_interleaved_channels_Freed(requested, returned) ==
    (used \cup ChannelsOf(returned)) \ ChannelsOf(requested)

\* update_interleaved_channels(): channel_used when the server answers a
\* SETUP that asked for one pair with another.
update_interleaved_channels(requested, returned) ==
    (used \ IF requested = returned THEN {} ELSE ChannelsOf(requested))
        \cup ChannelsOf(returned)

\* rtsp_client_session_media_add(): refused if the session has the media.
media_add(m, p) ==
    [x \in DOMAIN medias \cup {m} |-> IF x = m THEN p ELSE medias[x]]

\* Channels of a set of medias.
OwnedBy(ms) == UNION {ChannelsOf(medias[m]) : m \in ms}

\* Medias ms are removed, each with its channels: one of them on TEARDOWN,
\* by either side, all of those of a session with the session.  u is
\* channel_used so far.
RemoveMedias(ms, u) ==
    /\ medias' = Restrict(medias, DOMAIN medias \ ms)
    /\ used' = u \ OwnedBy(ms \cap DOMAIN medias)
=============================================================================
