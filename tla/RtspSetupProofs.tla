--------------------------- MODULE RtspSetupProofs ---------------------------
(***************************************************************************)
(* Proofs about RtspSetup, and through it about RtspChannels and RtspAuth, *)
(* for every number of channels, medias and nonces.                        *)
(*                                                                         *)
(* Two invariants, one for each resource. ChannelInv: what the medias own  *)
(* and what the SETUP in the slot asks for are apart, and used, until a    *)
(* server crosses them; what is lost does not depend on that. AuthInv: the *)
(* last Digest response has the count client->auth is at, and the counts   *)
(* of one client nonce are as far apart as the responses, modulo one turn. *)
(***************************************************************************)
EXTENDS RtspSetup, TLAPS

Owned == OwnedBy(DOMAIN medias)

\* What is in the slot besides a SETUP asks for no channels.
SlotFits ==
    /\ slot.method = "SETUP" => slot.media \in Medias
    /\ slot.method # "SETUP" => slot.pair = NoPair

ResourceTypes ==
    /\ used \subseteq Channels
    /\ DOMAIN medias \subseteq Medias /\ \A m \in DOMAIN medias : medias[m] \in Pair

RequestTypes ==
    /\ conn \in {"down", "lost", "up"} /\ busy \in BOOLEAN
    /\ crossed \in BOOLEAN
    /\ slot \in Slot
    /\ issued \in 0..MaxRequests

Apart ==
    /\ \A m, n \in DOMAIN medias :
          m # n => ChannelsOf(medias[m]) \cap ChannelsOf(medias[n]) = {}
    /\ Asked \cap Owned = {}
Taken == Owned \cup Asked \subseteq used

Resources == ResourceTypes /\ (crossed \/ (Apart /\ Taken))
ChannelInv == RequestTypes /\ SlotFits /\ Resources

\* The pair of calloc()ed memory is not valid and has no channels.
LEMMA NoPairHasNone == NoPair \in Pair /\ ChannelsOf(NoPair) = {}
BY ChannelsAssumption DEF NoPair, Pair, Channels, ChannelsOf, is_channel_pair_valid

\* The channels of a pair are channels.
LEMMA ChannelsOfPair == ASSUME NEW p \in Pair PROVE ChannelsOf(p) \subseteq Channels
BY DEF Pair, ChannelsOf

\* A channel is owned by the medias that have it.
LEMMA OwnedByWhom ==
    ASSUME NEW ms
    PROVE  \A c : c \in OwnedBy(ms) <=> \E m \in ms : c \in ChannelsOf(medias[m])
BY DEF OwnedBy

\* The same after a step.
LEMMA OwnedByWhomNext ==
    \A c : c \in Owned' <=> \E m \in DOMAIN medias' : c \in ChannelsOf(medias'[m])
BY DEF Owned, OwnedBy, ChannelsOf, is_channel_pair_valid

\* Medias go with their channels and, as long as no two have the same, nobody
\* else's.
LEMMA Removal ==
    ASSUME ResourceTypes, NEW ms, NEW u \in SUBSET used, RemoveMedias(ms, u)
    PROVE  /\ ResourceTypes'
           /\ Leaked' \subseteq u \ (Owned \cup Asked')
           /\ (Apart /\ Owned \cup Asked' \subseteq u /\ Asked' \subseteq Asked)
                 => Apart' /\ Taken'
<1> DEFINE gone == OwnedBy(ms \cap DOMAIN medias)
<1>1. /\ DOMAIN medias' = DOMAIN medias \ ms
      /\ \A m \in DOMAIN medias' : medias'[m] = medias[m]
      /\ used' = u \ gone
  BY DEF RemoveMedias, Restrict
<1>2. \A c : c \in Owned <=> \E m \in DOMAIN medias : c \in ChannelsOf(medias[m])
  BY OwnedByWhom DEF Owned
<1>3. \A c : c \in gone <=> \E m \in ms \cap DOMAIN medias : c \in ChannelsOf(medias[m])
  BY OwnedByWhom
<1>4. \A c : c \in Owned' <=> \E m \in DOMAIN medias \ ms : c \in ChannelsOf(medias[m])
  BY <1>1, OwnedByWhomNext
<1> HIDE DEF gone
<1>5. Owned \ gone \subseteq Owned'
  BY <1>2, <1>3, <1>4
<1>6. gone \subseteq Owned
  BY <1>2, <1>3
<1>7. ResourceTypes'
  BY <1>1 DEF ResourceTypes
<1>8. Leaked' \subseteq u \ (Owned \cup Asked')
  <2>1. Leaked' = used' \ (Owned' \cup Asked')
    BY DEF Leaked, Owned
  <2> QED BY <1>1, <1>5, <2>1
<1>9. ASSUME Apart, Owned \cup Asked' \subseteq u, Asked' \subseteq Asked
      PROVE  Apart' /\ Taken'
  <2>1. \A m, n \in DOMAIN medias : m # n => ChannelsOf(medias[m]) \cap ChannelsOf(medias[n]) = {}
    BY <1>9 DEF Apart
  <2>2. Asked \cap Owned = {}
    BY <1>9 DEF Apart
  <2>3. Owned' \subseteq Owned \ gone
    <3>1. ASSUME NEW c \in Owned' PROVE c \in Owned /\ c \notin gone
      BY <3>1, <1>2, <1>3, <1>4, <2>1
    <3> QED BY <3>1
  <2>4. \A m, n \in DOMAIN medias' :
            m # n => ChannelsOf(medias'[m]) \cap ChannelsOf(medias'[n]) = {}
    BY <1>1, <2>1
  <2>5. Asked' \cap Owned' = {}
    BY <1>9, <2>2, <2>3
  <2>6. Owned' \cup Asked' \subseteq used'
    BY <1>1, <1>6, <1>9, <2>2, <2>3
  <2> QED BY <2>4, <2>5, <2>6 DEF Apart, Taken, ChannelsOf, is_channel_pair_valid
<1> QED BY <1>7, <1>8, <1>9

\* Where the medias are left alone, it is enough to look at the two sets.
LEMMA MediasStay ==
    ASSUME ResourceTypes, medias' = medias, used' \subseteq Channels
    PROVE  /\ ResourceTypes'
           /\ Leaked' = used' \ (Owned \cup Asked')
           /\ (Apart /\ Asked' \cap Owned = {} /\ Owned \cup Asked' \subseteq used')
                 => Apart' /\ Taken'
<1>1. Owned' = Owned
  BY OwnedByWhom, OwnedByWhomNext DEF Owned
<1>2. ResourceTypes'
  BY DEF ResourceTypes
<1>3. ASSUME Apart, Asked' \cap Owned = {}, Owned \cup Asked' \subseteq used'
      PROVE  Apart' /\ Taken'
  <2>1. \A m, n \in DOMAIN medias' :
            m # n => ChannelsOf(medias'[m]) \cap ChannelsOf(medias'[n]) = {}
    BY <1>3 DEF Apart
  <2> QED BY <2>1, <1>1, <1>3 DEF Apart, Taken, ChannelsOf, is_channel_pair_valid
<1>4. Leaked' = used' \ (Owned' \cup Asked')
  BY DEF Leaked, Owned
<1> QED BY <1>1, <1>2, <1>3, <1>4

KnownLoss == Leaked' \subseteq Leaked \/ RequestLoses \/ AnswerLoses

\* An empty slot asks for nothing.
LEMMA NoRequestFits ==
    ASSUME slot' = NoRequest
    PROVE  slot' \in Slot /\ SlotFits' /\ Asked' = {}
BY NoPairHasNone DEF NoRequest, Slot, SlotFits, Asked

\* The channels of a SETUP on its way are used and nobody else's.
LEMMA AskedIs ==
    ASSUME ChannelInv
    PROVE  /\ ResourceTypes
           /\ ~crossed => /\ Apart
                          /\ Asked \cap Owned = {}
                          /\ Owned \cup Asked \subseteq used
           /\ Leaked = used \ (Owned \cup Asked)
           /\ slot.method # "SETUP" => Asked = {}
           /\ slot.is_pending => Asked = ChannelsOf(slot.pair)
           /\ ~slot.is_pending => Asked = {}
<1>0. ~crossed => Apart /\ Asked \cap Owned = {} /\ Owned \cup Asked \subseteq used
  BY DEF ChannelInv, Resources, Apart, Taken
<1>1. ResourceTypes /\ Leaked = used \ (Owned \cup Asked)
  BY DEF ChannelInv, Resources, Leaked, Owned
<1>2. slot.method # "SETUP" => Asked = {}
  BY NoPairHasNone DEF ChannelInv, SlotFits, Asked
<1> QED BY <1>0, <1>1, <1>2 DEF Asked

\* The end of a pending request that did not succeed gives back what it has.
LEMMA NotOkStep ==
    ASSUME ChannelInv, slot.is_pending, NEW ms, NotOk(ms), slot' = NoRequest,
           crossed' = crossed
    PROVE  Resources' /\ Leaked' \subseteq Leaked
<1>1. ResourceTypes /\ Asked' = {}
  BY NoRequestFits, AskedIs
<1>2. CASE slot.method = "SETUP"
  <2>1. RemoveMedias(ms, used \ Asked)
    BY <1>2, AskedIs DEF NotOk, SetupGivenBack
  <2>2. /\ ResourceTypes' /\ Leaked' \subseteq (used \ Asked) \ (Owned \cup Asked')
        /\ ~crossed => Apart' /\ Taken'
    BY <1>1, <2>1, AskedIs, Removal
  <2> QED BY <2>2, <1>1, AskedIs DEF Resources
<1>3. CASE slot.method # "SETUP"
  <2>1. PICK ns : RemoveMedias(ns, used)
    BY <1>3 DEF NotOk
  <2>2. /\ ResourceTypes' /\ Leaked' \subseteq used \ (Owned \cup Asked')
        /\ ~crossed => Apart' /\ Taken'
    BY <1>1, <2>1, AskedIs, Removal
  <2> QED BY <2>2, <1>1, <1>3, AskedIs DEF Resources
<1> QED BY <1>2, <1>3

\* A request that is put together takes free channels or none.
LEMMA PutStep ==
    ASSUME ChannelInv, CanSend, NEW pair \in Pair, NEW res, NEW media \in Medias \cup {NoMedia},
           NEW method \in {"SETUP", "TEARDOWN", "OTHER"},
           PutRequest(method, media, pair, res),
           used' = used \cup ChannelsOf(pair), ChannelsOf(pair) \cap used = {},
           method = "SETUP" => media \in Medias,
           method # "SETUP" => pair = NoPair
    PROVE  ChannelInv' /\ KnownLoss
<1>1. /\ medias' = medias /\ issued' = issued + 1 /\ UNCHANGED <<conn, busy, crossed>>
      /\ slot' = [is_pending |-> slot.is_pending \/ res = "OK",
                sent |-> res = "OK", method |-> method, media |-> media,
                pair |-> pair]
  BY DEF PutRequest
<1>2. RequestTypes'
  <2>1. slot' \in Slot
    BY <1>1 DEF Slot, ChannelInv, RequestTypes
  <2>2. issued' \in 0..MaxRequests
    BY <1>1, SetupAssumption DEF CanSend, ChannelInv, RequestTypes
  <2> QED BY <1>1, <2>1, <2>2 DEF ChannelInv, RequestTypes
<1>3. SlotFits'
  BY <1>1 DEF SlotFits
<1>4. Asked' = IF slot.is_pending \/ res = "OK" THEN ChannelsOf(pair) ELSE {}
  BY <1>1 DEF Asked
<1>5. used' \subseteq Channels
  BY ChannelsOfPair DEF ChannelInv, Resources, ResourceTypes
<1>6. Resources' /\ Leaked' = used' \ (Owned \cup Asked')
  <2>1. /\ ResourceTypes' /\ Leaked' = used' \ (Owned \cup Asked')
        /\ ~crossed => Apart' /\ Taken'
    BY <1>1, <1>4, <1>5, AskedIs, MediasStay
  <2> QED BY <2>1, <1>1 DEF Resources
<1>7. KnownLoss
  <2>1. issued' # issued
    BY <1>1 DEF ChannelInv, RequestTypes
  <2>2. CASE slot.is_pending /\ slot.method = "SETUP"
    BY <2>1, <2>2 DEF KnownLoss, RequestLoses
  <2>3. CASE ~(slot.is_pending /\ slot.method = "SETUP")
    <3>1. Asked = {}
      BY <2>3, AskedIs
    <3>2. CASE slot.is_pending \/ res = "OK"
      BY <3>1, <3>2, <1>4, <1>6, AskedIs DEF KnownLoss
    <3>3. CASE ~(slot.is_pending \/ res = "OK") /\ method = "SETUP"
      BY <2>1, <3>3, <1>1 DEF KnownLoss, RequestLoses
    <3>4. CASE ~(slot.is_pending \/ res = "OK") /\ method # "SETUP"
      <4>1. used' = used
        BY <3>4, NoPairHasNone
      <4> QED BY <4>1, <3>1, <3>4, <1>4, <1>6, AskedIs DEF KnownLoss
    <3> QED BY <3>2, <3>3, <3>4
  <2> QED BY <2>2, <2>3
<1> QED BY <1>2, <1>3, <1>6, <1>7 DEF ChannelInv

\* A request that asks for no channels.
LEMMA PutNoneStep ==
    ASSUME ChannelInv, CanSend, NEW res, NEW media \in Medias \cup {NoMedia},
           NEW method \in {"SETUP", "TEARDOWN", "OTHER"},
           PutRequest(method, media, NoPair, res), used' = used,
           method = "SETUP" => media \in Medias
    PROVE  ChannelInv' /\ KnownLoss
<1>1. used' = used \cup ChannelsOf(NoPair) /\ ChannelsOf(NoPair) \cap used = {}
  BY NoPairHasNone
<1> QED BY <1>1, NoPairHasNone, PutStep

\* A keep-alive takes a free slot and no channels.
LEMMA KeepAliveStep ==
    ASSUME ChannelInv, NEW res, send_keep_alive(res), conn' \in {"down", "lost", "up"}
    PROVE  ChannelInv' /\ KnownLoss
<1>1. /\ ~slot.is_pending /\ UNCHANGED <<used, medias, crossed>> /\ issued' = issued + 1
      /\ issued < MaxRequests /\ busy' \in BOOLEAN
  BY DEF send_keep_alive, ChannelInv, RequestTypes
<1>2. slot' \in Slot /\ slot'.method = "OTHER" /\ slot'.pair = NoPair
  BY NoPairHasNone DEF send_keep_alive, NoRequest, Slot
<1>3. RequestTypes' /\ SlotFits'
  BY <1>1, <1>2, SetupAssumption DEF ChannelInv, RequestTypes, SlotFits
<1>4. Asked' = {} /\ Asked = {}
  BY <1>1, <1>2, AskedIs, NoPairHasNone DEF Asked
<1>5. Resources' /\ Leaked' = used' \ (Owned \cup Asked')
  <2>1. /\ ResourceTypes' /\ Leaked' = used' \ (Owned \cup Asked')
        /\ ~crossed => Apart' /\ Taken'
    BY <1>1, <1>4, AskedIs, MediasStay DEF ResourceTypes
  <2> QED BY <2>1, <1>1 DEF Resources
<1> QED BY <1>1, <1>3, <1>4, <1>5, AskedIs DEF ChannelInv, KnownLoss

\* What allocate_interleaved_channels() finds is free.
LEMMA AllocatedIsFree ==
    ASSUME NEW want \in Pair, NEW p \in allocate_interleaved_channels(want)
    PROVE  p \in Pair /\ ChannelsOf(p) \cap used = {}
BY DEF allocate_interleaved_channels, FreePairs, EvenPairs, PairUnused

\* Every request keeps the invariant, and loses channels only in a known way.
LEMMA RequestStep ==
    ASSUME ChannelInv, RequestNext
    PROVE  ChannelInv' /\ KnownLoss
<1>1. ASSUME NEW m \in Medias, NEW want \in Wanted, SetupRefused(m, want)
      PROVE  ChannelInv' /\ KnownLoss
  BY <1>1, PutNoneStep DEF SetupRefused
<1>2. ASSUME NEW m \in Medias, NEW want \in Wanted, NEW res \in SendResults,
             Setup(m, want, res)
      PROVE  ChannelInv' /\ KnownLoss
  <2>1. PICK p \in allocate_interleaved_channels(want) :
            used' = used \cup ChannelsOf(p) /\ PutRequest("SETUP", m, p, res)
    BY <1>2 DEF Setup
  <2>2. p \in Pair /\ ChannelsOf(p) \cap used = {}
    BY AllocatedIsFree, SetupAssumption
  <2> QED BY <1>2, <2>1, <2>2, PutStep DEF Setup
<1>3. ASSUME NEW m \in Medias, NEW res \in SendResults, SetupUdp(m, res)
      PROVE  ChannelInv' /\ KnownLoss
  BY <1>3, PutNoneStep DEF SetupUdp
<1>4. ASSUME NEW method \in {"TEARDOWN", "OTHER"}, NEW m \in Medias \cup {NoMedia},
             NEW res \in SendResults, SessionRequest(method, m, res)
      PROVE  ChannelInv' /\ KnownLoss
  BY <1>4, PutNoneStep DEF SessionRequest
<1>5. ASSUME NEW res \in SendResults, Options(res)
      PROVE  ChannelInv' /\ KnownLoss
  BY <1>5, PutNoneStep DEF Options
<1>6. ASSUME NEW res \in SendResults, KeepAlive(res)
      PROVE  ChannelInv' /\ KnownLoss
  BY <1>6, KeepAliveStep DEF KeepAlive, ChannelInv, RequestTypes
<1>7. ASSUME NEW res \in SendResults, Describe(res)
      PROVE  ChannelInv' /\ KnownLoss
  BY <1>7, PutNoneStep DEF Describe
<1> QED BY <1>1, <1>2, <1>3, <1>4, <1>5, <1>6, <1>7 DEF RequestNext

\* A 2xx answer to a SETUP: the media gets the channels of the answer, which
\* no other has or the step is a crossing; those of the request are given back
\* unless they are the same.
LEMMA SetupOkStep ==
    ASSUME ChannelInv, NEW tcp \in BOOLEAN, NEW session \in BOOLEAN,
           NEW p \in Wanted \cup {slot.pair}, NEW ch \in Challenge \cup {NoChallenge},
           SetupOk(tcp, p, session, ch)
    PROVE  Resources' /\ KnownLoss
<1> DEFINE ret == IF tcp THEN p ELSE NoPair
           added == session /\ slot.media \notin DOMAIN medias
<1>1. /\ slot.is_pending /\ slot.method = "SETUP" /\ slot.media \in Medias
      /\ slot.pair \in Pair /\ slot' = NoRequest
  BY DEF SetupOk, ClearSlot, ChannelInv, SlotFits, RequestTypes, Slot
<1>2. p \in Pair /\ ret \in Pair
  BY <1>1, SetupAssumption, NoPairHasNone
<1>3. Asked' = {} /\ Asked = ChannelsOf(slot.pair)
  BY <1>1, NoRequestFits, AskedIs
<1>4. used' = IF tcp THEN (used \ IF slot.pair = p THEN {} ELSE Asked) \cup ChannelsOf(ret)
              ELSE used
  BY <1>3 DEF SetupOk, update_interleaved_channels
<1>5. /\ used' \subseteq Channels
      /\ ~crossed => Owned \cup ChannelsOf(ret) \subseteq used'
  <2>1. used \subseteq Channels /\ ChannelsOf(ret) \subseteq Channels
    BY <1>2, ChannelsOfPair DEF ChannelInv, Resources, ResourceTypes
  <2>2. CASE tcp
    BY <2>1, <2>2, <1>4, AskedIs
  <2>3. CASE ~tcp
    BY <2>1, <2>3, <1>4, AskedIs, NoPairHasNone
  <2> QED BY <2>2, <2>3
<1>6. CASE ~added
  <2>1. medias' = medias
    BY <1>6 DEF SetupOk
  <2>2. Resources'
    <3>1. crossed' = crossed
      BY <1>6 DEF SetupOk, ChannelInv, RequestTypes
    <3>2. ResourceTypes' /\ (~crossed => Apart' /\ Taken')
      BY <2>1, <1>3, <1>5, AskedIs, MediasStay
    <3> QED BY <3>1, <3>2 DEF Resources
  <2>3. p \in Wanted \cup {slot.pair}
    OBVIOUS
  <2>4. CASE ~session
    <3>1. SetupOk(tcp, p, FALSE, ch)
      BY <2>4 DEF SetupOk
    <3> QED BY <3>1, <2>3, <1>1, <2>2 DEF AnswerLoses, KnownLoss
  <2>5. CASE session /\ slot.media \in DOMAIN medias
    <3>1. CASE tcp
      <4>1. SetupOk(TRUE, p, TRUE, ch)
        BY <3>1, <2>5 DEF SetupOk
      <4> QED BY <4>1, <2>3, <2>5, <1>1, <2>2 DEF AnswerLoses, KnownLoss
    <3>2. CASE ~tcp
      <4>1. SetupOk(FALSE, p, TRUE, ch)
        BY <3>2, <2>5 DEF SetupOk
      <4> QED BY <4>1, <2>3, <1>1, <2>2 DEF AnswerLoses, KnownLoss
    <3> QED BY <3>1, <3>2
  <2> QED BY <2>4, <2>5, <1>6
<1>7. CASE added
  <2>1. /\ DOMAIN medias' = DOMAIN medias \cup {slot.media}
        /\ \A m \in DOMAIN medias : medias'[m] = medias[m]
        /\ medias'[slot.media] = ret
        /\ slot.media \notin DOMAIN medias
    BY <1>7 DEF SetupOk, media_add
  <2>3. \A c : c \in Owned <=> \E m \in DOMAIN medias : c \in ChannelsOf(medias[m])
    BY OwnedByWhom DEF Owned
  <2>4. Owned' = Owned \cup ChannelsOf(ret)
    BY <2>1, <2>3, OwnedByWhomNext
  <2>5. ResourceTypes'
    BY <2>1, <1>1, <1>2, <1>5 DEF ChannelInv, Resources, ResourceTypes
  <2>2. ~crossed' => ~crossed /\ ChannelsOf(ret) \cap Owned = {}
    BY <1>7 DEF SetupOk, Owned
  <2>6. ASSUME ~crossed'
        PROVE  \A m, n \in DOMAIN medias' :
                  m # n => ChannelsOf(medias'[m]) \cap ChannelsOf(medias'[n]) = {}
    <3> SUFFICES ASSUME NEW m \in DOMAIN medias', NEW n \in DOMAIN medias', m # n
                 PROVE  ChannelsOf(medias'[m]) \cap ChannelsOf(medias'[n]) = {}
      OBVIOUS
    <3>1. CASE m # slot.media /\ n # slot.media
      BY <3>1, <2>1, <2>2, <2>6, AskedIs DEF Apart
    <3>2. CASE m = slot.media
      <4>1. n \in DOMAIN medias /\ medias'[n] = medias[n]
        BY <3>2, <2>1
      <4>2. ChannelsOf(medias[n]) \subseteq Owned
        BY <4>1, <2>3
      <4> QED BY <4>1, <4>2, <3>2, <2>1, <2>2, <2>6
    <3>3. CASE n = slot.media
      <4>1. m \in DOMAIN medias /\ medias'[m] = medias[m]
        BY <3>3, <2>1
      <4>2. ChannelsOf(medias[m]) \subseteq Owned
        BY <4>1, <2>3
      <4> QED BY <4>1, <4>2, <3>3, <2>1, <2>2, <2>6
    <3> QED BY <3>1, <3>2, <3>3
  <2>7. ~crossed' => Apart'
    BY <2>6, <1>3 DEF Apart, ChannelsOf, is_channel_pair_valid
  <2>8. ~crossed' => Taken'
    BY <2>2, <2>4, <1>3, <1>5 DEF Taken
  <2>9. KnownLoss
    <3>1. CASE tcp
      <4>1. Leaked' = used' \ (Owned' \cup Asked')
        BY DEF Leaked, Owned
      <4>2. slot.pair = p => Asked = ChannelsOf(ret)
        BY <3>1, <1>3
      <4> QED BY <3>1, <4>1, <4>2, <2>4, <1>3, <1>4, AskedIs DEF KnownLoss
    <3>2. CASE ~tcp
      <4>1. SetupOk(FALSE, p, TRUE, ch)
        BY <3>2, <1>7 DEF SetupOk
      <4> QED BY <4>1, <1>1 DEF KnownLoss, AnswerLoses
    <3> QED BY <3>1, <3>2
  <2> QED BY <2>5, <2>7, <2>8, <2>9 DEF Resources
<1> QED BY <1>6, <1>7

\* request_complete() leaves an empty slot.
LEMMA ClearSlotTypes ==
    ASSUME ChannelInv, ClearSlot, crossed' \in BOOLEAN
    PROVE  RequestTypes' /\ SlotFits' /\ slot' = NoRequest
BY NoRequestFits DEF ChannelInv, ClearSlot, RequestTypes

\* Every answer and event keeps the invariant, and loses channels only in a
\* known way.
LEMMA EventStep ==
    ASSUME ChannelInv, EventNext
    PROVE  ChannelInv' /\ KnownLoss
<1>1. ASSUME slot.is_pending, NEW ms, NotOk(ms), ClearSlot, crossed' = crossed
      PROVE  ChannelInv' /\ KnownLoss
  BY <1>1, ClearSlotTypes, NotOkStep DEF ChannelInv, RequestTypes, KnownLoss
<1>2. ASSUME NEW ch \in Challenge \cup {NoChallenge},
             NEW code \in {"401", "454", "other"}, Refused(code, ch)
      PROVE  ChannelInv' /\ KnownLoss
  BY <1>1, <1>2 DEF Refused
<1>3. ASSUME NEW ch \in Challenge \cup {NoChallenge}, NEW tcp \in BOOLEAN,
             NEW session \in BOOLEAN, NEW p \in Wanted \cup {slot.pair},
             SetupOk(tcp, p, session, ch)
      PROVE  ChannelInv' /\ KnownLoss
  <2>1. ClearSlot /\ crossed' \in BOOLEAN
    BY <1>3 DEF SetupOk
  <2> QED BY <1>3, <2>1, ClearSlotTypes, SetupOkStep DEF ChannelInv
<1>4. ASSUME NEW ch \in Challenge \cup {NoChallenge}, Ok(ch)
      PROVE  ChannelInv' /\ KnownLoss
  BY <1>1, <1>4 DEF Ok
<1>5. CASE Unanswered
  BY <1>1, <1>5 DEF Unanswered
<1>6. ASSUME UNCHANGED <<used, medias, slot, crossed, issued>>, busy' \in BOOLEAN,
             conn' \in {"down", "lost", "up"}
      PROVE  ChannelInv' /\ KnownLoss
  <2>1. RequestTypes' /\ SlotFits' /\ Asked' = Asked
    BY <1>6 DEF ChannelInv, RequestTypes, SlotFits, Asked
  <2>2. /\ ResourceTypes' /\ Leaked' = used' \ (Owned \cup Asked')
        /\ ~crossed => Apart' /\ Taken'
    BY <1>6, <2>1, AskedIs, MediasStay DEF ResourceTypes
  <2> QED BY <1>6, <2>1, <2>2, AskedIs DEF ChannelInv, Resources, KnownLoss
<1>7. CASE LateResponse
  BY <1>6, <1>7 DEF LateResponse, ChannelInv, RequestTypes
<1>8. ASSUME NEW ms, RemoveMedias(ms, used), UNCHANGED <<conn, slot, crossed, issued>>,
             busy' \in BOOLEAN
      PROVE  ChannelInv' /\ KnownLoss
  <2>1. RequestTypes' /\ SlotFits' /\ Asked' = Asked
    BY <1>8 DEF ChannelInv, RequestTypes, SlotFits, Asked
  <2>2. /\ ResourceTypes' /\ Leaked' \subseteq used \ (Owned \cup Asked')
        /\ ~crossed => Apart' /\ Taken'
    BY <1>8, <2>1, AskedIs, Removal
  <2> QED BY <1>8, <2>1, <2>2, AskedIs DEF ChannelInv, Resources, KnownLoss
<1>9. ASSUME NEW m \in Medias, ServerTeardown(m)
      PROVE  ChannelInv' /\ KnownLoss
  BY <1>8, <1>9 DEF ServerTeardown, ChannelInv, RequestTypes
<1>10. CASE RemoveSession
  BY <1>8, <1>10 DEF RemoveSession
<1>11. ASSUME NEW pass \in BOOLEAN, Connect(pass)
       PROVE  ChannelInv' /\ KnownLoss
  BY <1>6, <1>11 DEF Connect, ChannelInv, RequestTypes
<1>12. CASE Lost
  <2>1. CASE slot.is_pending
    <3>1. NotOk({}) /\ slot' = NoRequest /\ busy' \in {busy, FALSE} /\ conn' = "lost"
          /\ UNCHANGED <<crossed, issued>>
      BY <2>1, <1>12 DEF Lost
    <3>2. RequestTypes' /\ SlotFits'
      BY <3>1, NoRequestFits DEF ChannelInv, RequestTypes
    <3> QED BY <2>1, <3>1, <3>2, NotOkStep DEF ChannelInv, KnownLoss
  <2>2. CASE ~slot.is_pending
    BY <2>2, <1>6, <1>12 DEF Lost, ChannelInv, RequestTypes
  <2> QED BY <2>1, <2>2
<1>13. ASSUME NEW res \in SendResults, Reconnected(res)
       PROVE  ChannelInv' /\ KnownLoss
  <2>1. CASE send_keep_alive(res)
    BY <1>13, <2>1, KeepAliveStep DEF Reconnected
  <2>2. CASE UNCHANGED <<used, medias, authVars, slot, busy, crossed, issued>>
    BY <1>6, <1>13, <2>2 DEF Reconnected, ChannelInv, RequestTypes
  <2> QED BY <1>13, <2>1, <2>2 DEF Reconnected
<1>14. CASE Disconnect
  <2>1. /\ conn' = "down" /\ busy' = FALSE /\ crossed' = FALSE /\ issued' = issued
        /\ slot' = IF slot.is_pending THEN NoRequest ELSE slot
    BY <1>14 DEF Disconnect
  <2>2. RequestTypes' /\ SlotFits' /\ Asked' = {}
    <3>1. CASE slot.is_pending
      BY <2>1, <3>1, NoRequestFits DEF ChannelInv, RequestTypes
    <3>2. CASE ~slot.is_pending
      BY <2>1, <3>2 DEF ChannelInv, RequestTypes, SlotFits, Asked
    <3> QED BY <3>1, <3>2
  <2>3. RemoveMedias(DOMAIN medias, used \ Asked)
    <3>1. CASE slot.is_pending /\ slot.method = "SETUP"
      BY <3>1, <1>14, AskedIs DEF Disconnect, SetupGivenBack
    <3>2. CASE ~(slot.is_pending /\ slot.method = "SETUP")
      <4>1. used \ Asked = used
        BY <3>2, AskedIs
      <4> QED BY <3>2, <4>1, <1>14 DEF Disconnect
    <3> QED BY <3>1, <3>2
  <2>4. ResourceTypes' /\ Leaked' \subseteq (used \ Asked) \ (Owned \cup Asked')
    BY <2>3, AskedIs, Removal
  <2>5. Apart' /\ Taken'
    <3>1. DOMAIN medias' = {}
      BY <2>3 DEF RemoveMedias, Restrict
    <3>2. Owned' = {}
      BY <3>1, OwnedByWhomNext
    <3> QED BY <2>2, <3>1, <3>2 DEF Apart, Taken
  <2> QED BY <2>2, <2>4, <2>5, AskedIs DEF ChannelInv, Resources, KnownLoss
<1> QED BY <1>2, <1>3, <1>4, <1>5, <1>7, <1>9, <1>10, <1>11, <1>12, <1>13, <1>14
        DEF EventNext

\* The invariant holds in a new client.
LEMMA ChannelInit ==
    ASSUME Init
    PROVE  ChannelInv
<1>0. slot = NoRequest
  BY DEF Init
<1>1. SlotFits /\ Asked = {} /\ slot \in Slot
  <2>1. SlotFits
    BY <1>0 DEF NoRequest, SlotFits
  <2>2. Asked = {}
    BY <1>0 DEF NoRequest, Asked
  <2>3. slot \in Slot
    BY <1>0, NoPairHasNone DEF NoRequest, Slot
  <2> QED BY <2>1, <2>2, <2>3
<1>3. RequestTypes
  <2>1. issued \in 0..MaxRequests
    BY SetupAssumption DEF Init
  <2>2. conn = "down" /\ busy = FALSE /\ crossed = FALSE
    BY DEF Init
  <2> QED BY <1>1, <2>1, <2>2 DEF RequestTypes
<1>2. DOMAIN medias = {} /\ used = {}
  BY DEF Init
<1> QED BY <1>1, <1>2, <1>3 DEF ChannelInv, Resources, ResourceTypes, Apart,
           Taken, Owned, OwnedBy

\* Every step keeps the invariant, and loses channels only in a known way.
LEMMA ChannelStep ==
    ASSUME ChannelInv, [Next]_vars
    PROVE  ChannelInv' /\ [KnownLoss]_vars
<1>1. CASE Next
  BY <1>1, RequestStep, EventStep DEF Next
<1>2. CASE UNCHANGED vars
  <2>1. UNCHANGED <<used, medias, conn, slot, busy, crossed, issued>>
    BY <1>2 DEF vars
  <2>2. RequestTypes' /\ SlotFits' /\ Asked' = Asked
    BY <2>1 DEF ChannelInv, RequestTypes, SlotFits, Asked
  <2>3. ResourceTypes' /\ (~crossed => Apart' /\ Taken')
    BY <2>1, <2>2, AskedIs, MediasStay DEF ResourceTypes
  <2> QED BY <1>2, <2>1, <2>2, <2>3 DEF ChannelInv, Resources
<1> QED BY <1>1, <1>2

\* The inductive invariant of the channels.
LEMMA ChannelsInvariant == Spec => []ChannelInv
<1>1. ChannelInv /\ [Next]_vars => ChannelInv'
  BY ChannelStep
<1> QED BY <1>1, ChannelInit, PTL DEF Spec

\* The client gives no channel to two streams; two have the same one only after
\* a server has answered a SETUP with the channels of another media, which
\* update_interleaved_channels() does not refuse.
THEOREM SharedTheorem == Spec => []ChannelsNotShared
<1>1. ChannelInv => ChannelsNotShared
  BY DEF ChannelInv, Resources, Apart, Owned, ChannelsNotShared
<1> QED BY <1>1, ChannelsInvariant, PTL

\* The channels of a media, and of a SETUP on its way, stay taken until the media
\* or the request ends, whatever else ends meanwhile, until a server has given
\* one media the channels of another.
THEOREM OwnedTheorem == Spec => []OwnedIsUsed
<1>1. ChannelInv => OwnedIsUsed
  BY DEF ChannelInv, Resources, Taken, Owned, OwnedIsUsed
<1> QED BY <1>1, ChannelsInvariant, PTL

\* Channels are lost in the known ways only: every other end of a request, media,
\* session or connection gives back all it had, whatever channels the server has
\* chosen.
THEOREM LeaksTheorem == Spec => OnlyKnownLeaks
<1>1. ChannelInv /\ [Next]_vars => [KnownLoss]_vars
  BY ChannelStep
<1>2. [KnownLoss]_vars => [Leaked' \subseteq Leaked \/ RequestLoses \/ AnswerLoses]_vars
  BY DEF KnownLoss
<1> QED BY <1>1, <1>2, ChannelsInvariant, PTL DEF Spec, OnlyKnownLeaks

(***************************************************************************)
(* Digest responses                                                        *)
(***************************************************************************)

\* The count a client nonce is at.
LastDigest ==
    /\ auth.cnonce = 0 => auth.nc = 0
    /\ auth.cnonce # 0 =>
          /\ Len(digests) > 0 /\ auth.cnonce = cnonces
          /\ digests[Len(digests)].cnonce = auth.cnonce
          /\ digests[Len(digests)].nc = auth.nc

\* Counts of one client nonce are as far apart as the responses, but for one
\* turn.
CountsAdvance ==
    \A i, j \in DOMAIN digests :
        (i <= j /\ digests[i].cnonce = digests[j].cnonce /\ j - i < MaxNc)
            => \/ digests[j].nc - digests[i].nc = j - i
               \/ digests[j].nc - digests[i].nc = j - i - MaxNc

AuthInv == AuthTypeOK /\ LastDigest /\ CountsAdvance

AuthNext ==
    \/ generate_authorization_header
    \/ \E ch \in Challenge \cup {NoChallenge}, code \in {"401", "454", "other", "2xx"} :
          update_auth_from_server(ch, code)
    \/ \E pass \in BOOLEAN : clear_remote_info(pass)
    \/ UNCHANGED authVars

\* What a step of the client does to the authorization.
LEMMA NextIsAuthNext == ASSUME [Next]_vars PROVE AuthNext
<1>1. CASE RequestNext
  BY <1>1 DEF RequestNext, SetupRefused, Setup, SetupUdp, SessionRequest, Describe,
     Options, KeepAlive, send_keep_alive, AuthorizationFails, AuthNext, authVars
<1>2. CASE EventNext
  <2>1. ASSUME NEW ch \in Challenge \cup {NoChallenge},
               NEW code \in {"401", "454", "other"}, Refused(code, ch)
        PROVE  AuthNext
    BY <2>1 DEF Refused, AuthNext
  <2>2. ASSUME NEW ch \in Challenge \cup {NoChallenge}, Ok(ch)
        PROVE  AuthNext
    BY <2>2 DEF Ok, AuthNext
  <2>3. ASSUME NEW ch \in Challenge \cup {NoChallenge}, NEW tcp, NEW p, NEW session,
               SetupOk(tcp, p, session, ch)
        PROVE  AuthNext
    BY <2>3 DEF SetupOk, AuthNext
  <2>4. CASE Unanswered \/ LateResponse \/ RemoveSession \/ Lost
             \/ \E m \in Medias : ServerTeardown(m)
    BY <2>4 DEF Unanswered, LateResponse, RemoveSession, Lost, ServerTeardown, AuthNext
  <2>5. CASE Disconnect \/ \E pass \in BOOLEAN : Connect(pass)
    BY <2>5 DEF Disconnect, Connect, AuthNext
  <2>6. ASSUME NEW res \in SendResults, Reconnected(res) PROVE AuthNext
    BY <2>6 DEF Reconnected, send_keep_alive, AuthorizationFails, AuthNext, authVars
  <2> QED BY <1>2, <2>1, <2>2, <2>3, <2>4, <2>5, <2>6 DEF EventNext
<1>3. CASE UNCHANGED vars
  BY <1>3 DEF vars, authVars, AuthNext
<1> QED BY <1>1, <1>2, <1>3 DEF Next

\* Nothing changes that the invariant is about.
LEMMA AuthSame ==
    ASSUME AuthInv, UNCHANGED <<digests, cnonces>>, auth' \in AuthState,
           password' \in BOOLEAN,
           \/ auth'.cnonce = auth.cnonce /\ auth'.nc = auth.nc
           \/ auth'.cnonce = 0 /\ auth'.nc = 0
    PROVE  AuthInv'
<1>1. AuthTypeOK'
  BY DEF AuthInv, AuthTypeOK
<1>2. LastDigest'
  BY DEF AuthInv, LastDigest
<1>3. CountsAdvance'
  BY DEF AuthInv, CountsAdvance
<1> QED BY <1>1, <1>2, <1>3 DEF AuthInv

\* The elements of a sequence of responses.
LEMMA Elements ==
    ASSUME NEW S, NEW s \in Seq(S)
    PROVE  /\ Len(s) \in Nat /\ DOMAIN s = 1..Len(s)
           /\ \A i \in 1..Len(s) : s[i] \in S
OBVIOUS

\* Responses stay well typed when another client nonce is made.
LEMMA Widen ==
    ASSUME NEW S, NEW T, S \subseteq T, NEW s \in Seq(S)
    PROVE  s \in Seq(T)
OBVIOUS

\* One step of the count, as far as arithmetic goes.
LEMMA CountStep ==
    ASSUME NEW M \in Nat \ {0}, NEW a \in 0..M, NEW b \in 1..M, NEW k \in Nat,
           k + 1 < M, a - b = k \/ a - b = k - M
    PROVE  LET c == IF a = M THEN 1 ELSE a + 1
           IN  c - b = k + 1 \/ c - b = k + 1 - M
OBVIOUS

\* A response is generated.
LEMMA GenerateStep ==
    ASSUME AuthInv, generate_authorization_header, auth.type = "digest"
    PROVE  AuthInv'
<1> DEFINE cn == IF auth.cnonce = 0 THEN cnonces + 1 ELSE auth.cnonce
           nc == NextNc(auth.nc)
           n == Len(digests)
           d == [nonce |-> auth.nonce, cnonce |-> cn, nc |-> nc]
<1>1. /\ auth \in AuthState /\ cnonces \in Nat /\ auth.cnonce <= cnonces
      /\ digests \in Seq([nonce : Nonces, cnonce : 1..cnonces, nc : 1..MaxNc])
      /\ MaxNc \in Nat \ {0} /\ password \in BOOLEAN
  BY AuthAssumption DEF AuthInv, AuthTypeOK
<1>2. auth \in [type : {"basic", "digest"}, nonce : Nonces \cup {NoNonce},
              qop : {"none", "auth", "auth-int"}, cnonce : Nat, nc : 0..MaxNc]
  BY <1>1 DEF AuthState, NoAuth
<1>3. /\ auth' = [auth EXCEPT !.cnonce = cn, !.nc = nc]
      /\ digests' = Append(digests, d)
      /\ cnonces' = IF auth.cnonce = 0 THEN cn ELSE cnonces
      /\ password' = password
      /\ auth.nonce \in Nonces
  <2>1. CanAuthorize
    BY DEF generate_authorization_header
  <2>2. auth # NoAuth
    BY DEF NoAuth
  <2>3. auth.nonce # NoNonce
    BY <2>1, <2>2 DEF CanAuthorize
  <2> QED BY <1>2, <2>3 DEF generate_authorization_header
<1>4. nc \in 1..MaxNc
  BY <1>1, <1>2 DEF NextNc
<1>5. cn \in 1..cnonces' /\ cnonces' \in Nat /\ cnonces <= cnonces' /\ cn = cnonces'
  BY <1>1, <1>2, <1>3 DEF AuthInv, LastDigest
<1>6. n \in Nat /\ \A i \in 1..n : digests[i] \in [nonce : Nonces, cnonce : 1..cnonces, nc : 1..MaxNc]
  BY <1>1, Elements
<1>7. /\ Len(digests') = n + 1 /\ DOMAIN digests' = 1..(n + 1) /\ DOMAIN digests = 1..n
      /\ digests'[n + 1] = d
      /\ \A i \in 1..n : digests'[i] = digests[i]
  BY <1>1, <1>3
<1> HIDE DEF cn, nc, n, d
<1>8. AuthTypeOK'
  <2>1. auth' \in AuthState /\ auth'.cnonce = cn
    <3>1. auth' \in [type : {"basic", "digest"}, nonce : Nonces \cup {NoNonce},
              qop : {"none", "auth", "auth-int"}, cnonce : Nat, nc : 0..MaxNc]
      <4>1. cn \in Nat /\ nc \in 0..MaxNc
        BY <1>1, <1>4, <1>5
      <4> QED BY <1>2, <1>3, <4>1
    <3>2. auth'.cnonce = cn
      BY <1>2, <1>3
    <3> QED BY <3>1, <3>2 DEF AuthState
  <2>2. d \in [nonce : Nonces, cnonce : 1..cnonces', nc : 1..MaxNc]
    BY <1>3, <1>4, <1>5 DEF d
  <2>3. [nonce : Nonces, cnonce : 1..cnonces, nc : 1..MaxNc]
            \subseteq [nonce : Nonces, cnonce : 1..cnonces', nc : 1..MaxNc]
    BY <1>1, <1>5
  <2>4. digests \in Seq([nonce : Nonces, cnonce : 1..cnonces', nc : 1..MaxNc])
    BY <1>1, <2>3, Widen
  <2>5. digests' \in Seq([nonce : Nonces, cnonce : 1..cnonces', nc : 1..MaxNc])
    BY <1>3, <2>2, <2>4
  <2> QED BY <1>1, <1>3, <1>5, <2>1, <2>5 DEF AuthTypeOK
<1>9. LastDigest'
  <2>1. auth'.cnonce = cn /\ auth'.nc = nc /\ cn # 0
    BY <1>1, <1>2, <1>3, <1>5
  <2>2. Len(digests') > 0 /\ digests'[Len(digests')].cnonce = cn /\ digests'[Len(digests')].nc = nc
    BY <1>6, <1>7 DEF d
  <2> QED BY <2>1, <2>2, <1>5 DEF LastDigest
<1>10. CountsAdvance'
  <2> SUFFICES ASSUME NEW i \in 1..(n + 1), NEW j \in 1..(n + 1), i <= j,
                      digests'[i].cnonce = digests'[j].cnonce, j - i < MaxNc
               PROVE  \/ digests'[j].nc - digests'[i].nc = j - i
                      \/ digests'[j].nc - digests'[i].nc = j - i - MaxNc
    BY <1>7 DEF CountsAdvance
  <2>1. CASE j <= n
    <3>1. i \in 1..n /\ j \in 1..n
      BY <2>1, <1>6
    <3> QED BY <3>1, <1>7 DEF AuthInv, CountsAdvance
  <2>2. CASE j = n + 1 /\ i = n + 1
    BY <2>2, <1>7, <1>4, <1>1 DEF d
  <2>3. CASE j = n + 1 /\ i <= n
    <3>1. i \in 1..n /\ digests'[j] = d /\ digests'[i] = digests[i] /\ n \in 1..n
      BY <2>3, <1>6, <1>7
    <3>2. digests[i].cnonce = cn /\ digests[i].cnonce <= cnonces
      BY <3>1, <1>6 DEF d
    <3>3. auth.cnonce # 0 /\ auth.cnonce = cn
      BY <3>2, <1>1 DEF cn
    <3>4. digests[n].cnonce = cn /\ digests[n].nc = auth.nc
      BY <3>3 DEF AuthInv, LastDigest, n
    <3>5. n - i < MaxNc /\ i <= n
      BY <2>3, <3>1, <1>1, <1>6
    <3>6. \/ auth.nc - digests[i].nc = n - i
          \/ auth.nc - digests[i].nc = n - i - MaxNc
      BY <3>1, <3>2, <3>4, <3>5, <1>7 DEF AuthInv, CountsAdvance
    <3>7. digests[i].nc \in 1..MaxNc /\ auth.nc \in 0..MaxNc
      BY <3>1, <1>2, <1>6
    <3>8. nc = IF auth.nc = MaxNc THEN 1 ELSE auth.nc + 1
      BY DEF nc, NextNc
    <3>9. digests'[j].nc = nc /\ digests'[i].nc = digests[i].nc
      BY <3>1 DEF d
    <3>10. n - i \in Nat /\ (n - i) + 1 < MaxNc /\ j - i = (n - i) + 1
      BY <3>5, <2>3, <1>1, <1>6
    <3>11. \/ nc - digests[i].nc = (n - i) + 1
           \/ nc - digests[i].nc = (n - i) + 1 - MaxNc
      BY <3>6, <3>7, <3>8, <3>10, <1>1, CountStep
    <3>12. \/ nc - digests[i].nc = j - i
           \/ nc - digests[i].nc = j - i - MaxNc
      BY <3>7, <3>10, <3>11, <1>1, <1>4, <1>6
    <3> QED BY <3>9, <3>12
  <2> QED BY <2>1, <2>2, <2>3, <1>6
<1> QED BY <1>8, <1>9, <1>10 DEF AuthInv

\* Every step keeps the invariant of the authorization.
LEMMA AuthStep ==
    ASSUME AuthInv, [Next]_vars
    PROVE  AuthInv'
<1>1. auth \in AuthState /\ password \in BOOLEAN /\ NoAuth \in AuthState
      /\ NoAuth.cnonce = 0 /\ NoAuth.nc = 0
  BY DEF AuthInv, AuthTypeOK, AuthState, NoAuth
<1>2. CASE generate_authorization_header
  <2>1. CASE auth.type = "digest"
    BY <1>2, <2>1, GenerateStep
  <2>2. CASE auth.type # "digest"
    BY <1>1, <1>2, <2>2, AuthSame DEF generate_authorization_header
  <2> QED BY <2>1, <2>2
<1>3. ASSUME NEW ch \in Challenge \cup {NoChallenge}, NEW code,
             update_auth_from_server(ch, code)
      PROVE  AuthInv'
  <2>1. UNCHANGED <<digests, cnonces, password>>
    BY <1>3 DEF update_auth_from_server
  <2>2. CASE ch # NoChallenge
    <3>1. auth' = [auth EXCEPT !.type = ch.type, !.nonce = ch.nonce, !.qop = ch.qop]
      BY <1>3, <2>2 DEF update_auth_from_server
    <3>2. ch.type \in {"basic", "digest"} /\ ch.nonce \in Nonces \cup {NoNonce}
          /\ ch.qop \in {"none", "auth", "auth-int"}
      BY <2>2 DEF Challenge
    <3>3. auth'.cnonce = auth.cnonce /\ auth'.nc = auth.nc
      BY <1>1, <3>1 DEF AuthState, NoAuth
    <3>4. auth' \in [type : {"basic", "digest"}, nonce : Nonces \cup {NoNonce},
              qop : {"none", "auth", "auth-int"}, cnonce : Nat, nc : 0..MaxNc]
      <4>1. CASE auth = NoAuth
        <5>1. 0 \in 0..MaxNc
          BY AuthAssumption
        <5>2. auth' = [type |-> ch.type, nonce |-> ch.nonce, qop |-> ch.qop,
                       cnonce |-> 0, nc |-> 0]
          BY <4>1, <3>1 DEF NoAuth
        <5> QED BY <5>1, <5>2, <3>2
      <4>2. CASE auth # NoAuth
        BY <4>2, <1>1, <3>1, <3>2 DEF AuthState
      <4> QED BY <4>1, <4>2
    <3>5. auth' \in AuthState
      BY <3>4 DEF AuthState
    <3> QED BY <1>1, <2>1, <3>3, <3>5, AuthSame
  <2>3. CASE ch = NoChallenge
    BY <1>1, <1>3, <2>1, <2>3, AuthSame DEF update_auth_from_server
  <2> QED BY <2>2, <2>3
<1>4. ASSUME NEW pass \in BOOLEAN, clear_remote_info(pass)
      PROVE  AuthInv'
  BY <1>1, <1>4, AuthSame DEF clear_remote_info
<1>5. CASE UNCHANGED authVars
  BY <1>1, <1>5, AuthSame DEF authVars
<1> QED BY <1>2, <1>3, <1>4, <1>5, NextIsAuthNext DEF AuthNext

\* The inductive invariant of the authorization.
LEMMA AuthInvariant == Spec => []AuthInv
<1>1. Init => AuthInv
  <2> SUFFICES ASSUME Init PROVE AuthInv
    OBVIOUS
  <2>1. auth = NoAuth /\ password = FALSE /\ digests = << >> /\ cnonces = 0
    BY DEF Init, AuthInit
  <2>2. auth.cnonce = 0 /\ auth.nc = 0 /\ DOMAIN digests = {}
    BY <2>1 DEF NoAuth
  <2>3. AuthTypeOK
    <3>1. auth \in AuthState
      BY <2>1 DEF AuthState
    <3>2. auth.cnonce <= cnonces /\ cnonces \in Nat
      BY <2>1, <2>2
    <3>3. digests \in Seq([nonce : Nonces, cnonce : 1..cnonces, nc : 1..MaxNc])
      BY <2>1
    <3> QED BY <2>1, <3>1, <3>2, <3>3 DEF AuthTypeOK
  <2> QED BY <2>2, <2>3 DEF AuthInv, LastDigest, CountsAdvance
<1>2. AuthInv /\ [Next]_vars => AuthInv'
  BY AuthStep
<1> QED BY <1>1, <1>2, PTL DEF Spec

\* No two Digest responses with the same client nonce carry the same count before
\* the count has gone round, although requests are replaced, fail to be sent and
\* are challenged again.
THEOREM DigestsTheorem == Spec => []DigestsDiffer
<1>1. AuthInv => DigestsDiffer
  <2> SUFFICES ASSUME AuthInv, NEW i \in DOMAIN digests, NEW j \in DOMAIN digests,
                      i < j, digests[i].cnonce = digests[j].cnonce, j - i < MaxNc
               PROVE  digests[i].nc # digests[j].nc
    BY DEF DigestsDiffer
  <2>1. i \in Nat /\ j \in Nat /\ digests[i].nc \in Nat /\ digests[j].nc \in Nat
        /\ MaxNc \in Nat
    <3>1. digests \in Seq([nonce : Nonces, cnonce : 1..cnonces, nc : 1..MaxNc])
      BY DEF AuthInv, AuthTypeOK
    <3>2. DOMAIN digests = 1..Len(digests) /\ Len(digests) \in Nat
          /\ \A k \in 1..Len(digests) :
                digests[k] \in [nonce : Nonces, cnonce : 1..cnonces, nc : 1..MaxNc]
      BY <3>1, Elements
    <3> QED BY <3>2, AuthAssumption
  <2>2. \/ digests[j].nc - digests[i].nc = j - i
        \/ digests[j].nc - digests[i].nc = j - i - MaxNc
    BY <2>1 DEF AuthInv, CountsAdvance
  <2> QED BY <2>1, <2>2
<1> QED BY <1>1, AuthInvariant, PTL

\* The client's resources stay within their types; with this no Digest response
\* carries the count 0, which rtsp_auth_generate_digest_response() skips.
THEOREM TypeTheorem == Spec => []TypeOK
<1>1. ChannelInv /\ AuthInv => TypeOK
  BY DEF ChannelInv, RequestTypes, Resources, ResourceTypes, AuthInv, TypeOK
<1> QED BY <1>1, ChannelsInvariant, AuthInvariant, PTL

=============================================================================
