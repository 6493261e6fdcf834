---------------------------- MODULE MCRtspSetup ----------------------------
(***************************************************************************)
(* Instances of RtspSetup for TLC.                                         *)
(***************************************************************************)
EXTENDS RtspSetup, TLC

\* No pair in particular, the first even one, and the odd one that overlaps it
\* and the next: rtsp_client_setup() accepts it, and no answer is checked.
MCWanted == {NoPair} \cup {p \in Pair : p.rtp < 2 /\ p.rtcp = p.rtp + 1}

MCSymmetry == Permutations(Medias) \cup Permutations(Nonces)
=============================================================================
