--------------------------- MODULE MCRtspFraming ---------------------------
(***************************************************************************)
(* Instances of RtspFraming for TLC.                                       *)
(***************************************************************************)
EXTENDS RtspFraming, TLC

Text(type, data) == [type |-> type, channel |-> 0, data |-> data]
Interleaved(channel, data) ==
    [type |-> "interleaved", channel |-> channel, data |-> data]

\* Bodies and payloads that hold an empty line or start a packet, packets on
\* the channels that are '\n' and '$', and a header nobody can read.
MCShapes ==
    {Text("request", << >>), Text("response", <<Dollar>>),
     Text("request", <<LF, LF>>), Text("unreadable", << >>),
     Interleaved(LF, <<LF, LF>>), Interleaved(Dollar, << >>)}

MCSymmetry == Permutations(Conns)
=============================================================================
