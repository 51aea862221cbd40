---------------------------- MODULE MCEventStore ----------------------------
(***************************************************************************)
(* EventStore with three daemons that write, tables of two and four rows and *)
(* ids that are used up after four: rows are moved one by one and all at a *)
(* time, the history is halved with a writer behind its test, and the ids  *)
(* start again, all of it across a power failure.                          *)
(***************************************************************************)
EXTENDS EventStore, TLC

CONSTANTS w1, w2, w3
MCWriters == {w1, w2, w3}
WriterSymmetry == Permutations(MCWriters)
=============================================================================
