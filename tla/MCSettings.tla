----------------------------- MODULE MCSettings -----------------------------
(* Settings of every daemon of Pairs.                                       *)
EXTENDS Settings
=============================================================================
