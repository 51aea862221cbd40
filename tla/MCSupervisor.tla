---------------------------- MODULE MCSupervisor ----------------------------
(***************************************************************************)
(* Supervisor with two daemons that are restarted and p350_http, which is  *)
(* not, and four pids: one more than the daemons that can run at a time,   *)
(* so that the pid of a reaped child may be reused or may stay free.       *)
(***************************************************************************)
EXTENDS Supervisor

CONSTANTS input, wg, http

MCDaemons == {input, wg, http}
MCStartOrder == <<input, http, wg>>
MCRestartOrder == <<input, wg>>
MCKillall == {http}
MCPids == 1..4
=============================================================================
