----------------------------- MODULE MCSerialLink -----------------------------
(***************************************************************************)
(* SerialLink with a few frames and faults: enough for an answer that is   *)
(* late for one frame and taken for the next, and for a frame given up     *)
(* while its answer is on the way.                                         *)
(***************************************************************************)
EXTENDS SerialLink
=============================================================================
