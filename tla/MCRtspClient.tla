---------------------------- MODULE MCRtspClient ----------------------------
(***************************************************************************)
(* Instances of RtspClient for TLC.                                        *)
(***************************************************************************)
EXTENDS RtspClient, TLC

\* A server that lists every method, one that cannot be kept alive, and one
\* that sends no Public header.
MCPublicMethods == {{}, Methods, Methods \ {"GET_PARAMETER"}}

\* A server that does not list TEARDOWN, or sends no Public header.
MCNoTeardown == {{}, Methods \ {"TEARDOWN"}}

MCSymmetry == Permutations(SessionIds)
=============================================================================
