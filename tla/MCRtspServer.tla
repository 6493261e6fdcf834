---------------------------- MODULE MCRtspServer ----------------------------
(***************************************************************************)
(* Instances of RtspServer for TLC.                                        *)
(***************************************************************************)
EXTENDS RtspServer, TLC

MCSymmetry ==
    Permutations(SessionIds) \cup Permutations(Medias) \cup Permutations(Conns)
=============================================================================
