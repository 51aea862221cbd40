----------------------------- MODULE MCIoBoards -----------------------------
(* An instance of IoBoards: one slot that takes a board of either daemon.  *)
EXTENDS IoBoards

CONSTANTS gps, ptp, none

MCInKinds == {gps}
MCOutKinds == {ptp}
=============================================================================
