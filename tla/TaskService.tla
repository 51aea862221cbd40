----------------------------- MODULE TaskService -----------------------------
(***************************************************************************)
(* What the NTP daemon's request pool promises its caller, with no thread, *)
(* lock or queue in sight: a bounded backlog served in order of arrival by *)
(* a bounded number of servers; what was accepted is served exactly once,  *)
(* and the service closes only when nothing accepted is left.              *)
(* The queue, workers and shutdown of src/d-ntp/dntp_threadpool.c are shown *)
(* to implement it in NtpPool.                                             *)
(***************************************************************************)
EXTENDS Naturals, FiniteSets

CONSTANTS
  Servers,   (* how many requests may be served at the same time              *)
  Backlog,   (* how many accepted requests may wait                           *)
  Reqs       (* the requests, numbers in order of arrival                     *)

VARIABLES
  open,      \* FALSE once the service has closed
  status     \* status[r]: what has become of request r

tsVars == <<open, status>>

In(s) == {r \in Reqs : status[r] = s}

TSInit ==
  /\ open = TRUE
  /\ status = [r \in Reqs |-> "new"]

Accept(r) ==
  /\ open
  /\ status[r] = "new"
  /\ Cardinality(In("pending")) < Backlog
  /\ status' = [status EXCEPT ![r] = "pending"]
  /\ UNCHANGED open

Refuse(r) ==
  /\ open
  /\ status[r] = "new"
  /\ status' = [status EXCEPT ![r] = "refused"]
  /\ UNCHANGED open

(* Requests are taken oldest first.                                        *)
Begin(r) ==
  /\ status[r] = "pending"
  /\ \A q \in In("pending") : r <= q
  /\ Cardinality(In("serving")) < Servers
  /\ status' = [status EXCEPT ![r] = "serving"]
  /\ UNCHANGED open

Complete(r) ==
  /\ status[r] = "serving"
  /\ status' = [status EXCEPT ![r] = "served"]
  /\ UNCHANGED open

Close ==
  /\ open
  /\ In("pending") = {}
  /\ In("serving") = {}
  /\ open' = FALSE
  /\ UNCHANGED status

TSNext ==
  \/ \E r \in Reqs : Accept(r) \/ Refuse(r) \/ Begin(r) \/ Complete(r)
  \/ Close

TSSpec == TSInit /\ [][TSNext]_tsVars

(* Every accepted request is served in the end.                            *)
TSLive == \A r \in Reqs : status[r] = "pending" ~> status[r] = "served"

=============================================================================
