--------------------------- MODULE MCSourceSelect ---------------------------
(***************************************************************************)
(* SourceSelect with two slots, six sources: the first takes a satellite   *)
(* board or none, the second any of the others in turn.  The thresholds of *)
(* 50 and 60 rounds are 1 and 2, so that the counters are reset, reached   *)
(* and left behind in the same run.                                        *)
(***************************************************************************)
EXTENDS SourceSelect

MCFitting == <<{"none", "sat"}, {"ptp", "rtf", "old"}>>
MCPrio == <<1, 3, 1, 2, 3, 0>>
MCFaulty == {<<1, "gps">>, <<1, "ssm">>, <<2, "ptp">>}
=============================================================================
