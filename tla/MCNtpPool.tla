------------------------------ MODULE MCNtpPool ------------------------------
(***************************************************************************)
(* Instances of NtpPool for TLC.  Three workers (what ProcNtp asks for),   *)
(* two places in the queue and five requests are enough for a signal to be *)
(* stolen, for the queue to fill up and for one worker to sleep while      *)
(* another is busy and a third one leaves; one request can be refused and  *)
(* later ones accepted.                                                    *)
(***************************************************************************)
EXTENDS NtpPool
=============================================================================
