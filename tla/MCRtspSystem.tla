---------------------------- MODULE MCRtspSystem ----------------------------
(***************************************************************************)
(* Instances of RtspSystem for TLC.                                        *)
(***************************************************************************)
EXTENDS RtspSystem
=============================================================================
