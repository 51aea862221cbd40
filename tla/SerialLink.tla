------------------------------ MODULE SerialLink ------------------------------
(***************************************************************************)
(* The 61850 daemon sends text attributes to the IEC 61850 board over a    *)
(* serial line: src/d-61850/d61850_protocol.c (iec61850_send,              *)
(* iec61850_recv_frame, tread) and the loop of d61850_ctrl.c.  A frame is  *)
(* written and its answer awaited for five seconds, up to MaxErr times.    *)
(* Frames and answers carry no number.                                     *)
(*                                                                         *)
(* Frames are numbered here in the order of the calls of iec61850_send.    *)
(* The board (external) answers every frame it gets whole with ACK and a   *)
(* damaged one with EAK.                                                   *)
(***************************************************************************)
EXTENDS Naturals, Sequences, FiniteSets

CONSTANTS
  MaxErr,        (* MAX_ERR_NO (3)                                          *)
  MaxFrames,     (* bound: calls of iec61850_send                           *)
  MaxFaults      (* bound: faults of the line                               *)

ASSUME LinkAssumption ==
  /\ {MaxErr, MaxFrames} \subseteq Nat \ {0}
  /\ MaxFaults \in Nat

Frames == 1..MaxFrames
Damaged == 0
Answers == {"ack", "eak", "bad"}

VARIABLES
  pc,       \* "idle", "write", "wait" (in iec61850_recv_frame)
  frame,    \* the frame of the last call
  err,      \* its errors so far
  result,   \* result[f]: what the call returned: "none", "sent", "failed"
  line,     \* bytes on the way to the board: frames, or Damaged
  answers,  \* bytes on the way back and in the buffer of the port
  got,      \* what the board has received, in order
  faults,
  late      \* history: an answer took more than five seconds, or a fault
            \* left one behind that answers nothing

vars == <<pc, frame, err, result, line, answers, got, faults, late>>

Init ==
  /\ pc = "idle"
  /\ frame = 0
  /\ err = 0
  /\ result = [f \in Frames |-> "none"]
  /\ line = <<>>
  /\ answers = <<>>
  /\ got = <<>>
  /\ faults = 0
  /\ late = FALSE

-----------------------------------------------------------------------------
(* iec61850_send                                                           *)

Call ==
  /\ pc = "idle"
  /\ frame < MaxFrames
  /\ frame' = frame + 1
  /\ err' = 0
  /\ pc' = "write"
  /\ UNCHANGED <<result, line, answers, got, faults, late>>

Write ==
  /\ pc = "write"
  /\ line' = Append(line, frame)
  /\ pc' = "wait"
  /\ UNCHANGED <<frame, err, result, answers, got, faults, late>>

Return(r) ==
  /\ result' = [result EXCEPT ![frame] = r]
  /\ pc' = "idle"
  /\ err' = err

(* The port takes only a part of the frame: no second attempt.             *)
WriteFails ==
  /\ pc = "write"
  /\ faults < MaxFaults
  /\ faults' = faults + 1
  /\ late' = TRUE
  /\ line' = Append(line, Damaged)
  /\ Return("failed")
  /\ UNCHANGED <<frame, answers, got>>

(* Fault: one attempt too many.                                            *)
OnceMore(e) ==
  IF e > MaxErr THEN Return("failed")
  ELSE err' = e /\ pc' = "write" /\ result' = result
Retry(e) ==
  IF e >= MaxErr THEN Return("failed")
  ELSE err' = e /\ pc' = "write" /\ result' = result

(* Fault: any answer will do.                                              *)
AnyAnswer(a) == TRUE
Accepts(a) == a = "ack"

(* iec61850_recv_frame returns with a whole frame.                         *)
Receive ==
  /\ pc = "wait"
  /\ answers # <<>>
  /\ answers' = Tail(answers)
  /\ IF Accepts(Head(answers)) THEN Return("sent") ELSE Retry(err + 1)
  /\ UNCHANGED <<frame, line, got, faults, late>>

(* Fault: tread waits for ever.                                            *)
Blocked == FALSE
(* tread gives up after five seconds without a byte.                       *)
Timeout ==
  /\ pc = "wait"
  /\ answers = <<>>
  /\ Retry(err + 1)
  /\ late' = (late \/ line # <<>>)
  /\ UNCHANGED <<frame, line, answers, got, faults>>

-----------------------------------------------------------------------------
(* The board and the line.                                                 *)

Board ==
  /\ line # <<>>
  /\ line' = Tail(line)
  /\ IF Head(line) = Damaged
     THEN answers' = Append(answers, "eak") /\ got' = got
     ELSE answers' = Append(answers, "ack") /\ got' = Append(got, Head(line))
  /\ UNCHANGED <<pc, frame, err, result, faults, late>>

(* A frame is damaged or lost, or an answer is; a damaged answer may end   *)
(* early and look like two.                                                *)
Noise ==
  /\ faults < MaxFaults
  /\ faults' = faults + 1
  /\ \/ /\ line # <<>>
        /\ line' \in {Tail(line), <<Damaged>> \o Tail(line)}
        /\ UNCHANGED <<answers, late>>
     \/ /\ answers # <<>>
        /\ \/ /\ answers' \in {Tail(answers), <<"bad">> \o Tail(answers)}
              /\ late' = late
           \/ /\ answers' = <<"bad", "bad">> \o Tail(answers)
              /\ late' = TRUE
        /\ line' = line
  /\ UNCHANGED <<pc, frame, err, result, got>>

-----------------------------------------------------------------------------
Daemon == Call \/ Write \/ WriteFails \/ Receive \/ Timeout
Next == Daemon \/ Board \/ Noise

Spec == Init /\ [][Next]_vars

(* The daemon is scheduled and select returns after its time.  Nothing is  *)
(* assumed of the board.                                                   *)
FairSpec == Spec /\ WF_vars(Call) /\ WF_vars(Write) /\ WF_vars(Receive)
                 /\ WF_vars(Timeout)

-----------------------------------------------------------------------------
TypeOK ==
  /\ pc \in {"idle", "write", "wait"}
  /\ frame \in 0..MaxFrames
  /\ err \in 0..(MaxErr - 1)
  /\ result \in [Frames -> {"none", "sent", "failed"}]
  /\ line \in Seq(Frames \cup {Damaged})
  /\ answers \in Seq(Answers)
  /\ got \in Seq(Frames)
  /\ faults \in 0..MaxFaults
  /\ late \in BOOLEAN

Received == {got[i] : i \in 1..Len(got)}
Copies(f) == Cardinality({i \in 1..Len(got) : got[i] = f})

(* What iec61850_send says of its result (0 is 发送成功): the board has    *)
(* the frame when the call returns success.                                *)
OkMeansReceived == \A f \in Frames : result[f] = "sent" => f \in Received

(* So it is as long as answers keep to the five seconds and none is left   *)
(* behind by a fault, whatever is damaged and lost.                        *)
OkWhenTimely == ~late => OkMeansReceived

(* The board sees the frames in the order of the calls, and none of them   *)
(* more than MaxErr times, however answers are lost, late or damaged.      *)
InOrderAtMostThrice ==
  /\ \A i, j \in 1..Len(got) : i < j => got[i] <= got[j]
  /\ \A f \in Frames : Copies(f) <= MaxErr

(* An answer vouches for at most one call: even when late answers are      *)
(* taken for the wrong frame no more calls succeed than frames arrived.    *)
SuccessIsBacked ==
  Cardinality({f \in Frames : result[f] = "sent"}) <= Len(got)

(* What the success of iec61850_send is worth: with timely answers this    *)
(* frame was received, with late ones at least as many frames as calls.    *)
SuccessMeansReceived == OkWhenTimely /\ SuccessIsBacked

(* Every call of iec61850_send returns: the daemon's loop is not stopped   *)
(* by a dead board.                                                        *)
SendReturns == \A f \in Frames : frame = f ~> result[f] # "none"
=============================================================================
