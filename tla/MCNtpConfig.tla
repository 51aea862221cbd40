----------------------------- MODULE MCNtpConfig -----------------------------
(***************************************************************************)
(* NtpConfig with three commands, a queue of two messages and two          *)
(* incarnations of the daemon: the queue fills up, several notifications   *)
(* become one, and messages and the pid of the earlier incarnation are     *)
(* left to the later one.                                                  *)
(***************************************************************************)
EXTENDS NtpConfig

CONSTANTS c1, c2, c3, on, off, bad

MCCommands == {c1, c2, c3}
MCValues == {on, off}
=============================================================================
