---------------------------- MODULE OutputQuality ----------------------------
(***************************************************************************)
(* What the outputs say about the clock.  d-alarm shows the state of the   *)
(* clock in the shared memory, d-input writes the stratum and the grade of *)
(* its source to the FPGA (din_source.c: stratum_input_source), and        *)
(* d-output says it in two ways: its loop sets the grade of the 2 Mbit     *)
(* output and the class of the PTP boards, only when something changed     *)
(* (dout_issue.c: SetOutBoardClockClass); its thread writes the time of    *)
(* day message anew in each second (dout_tod.c: china_mobile_miit_tod),    *)
(* and looks now and then whether the time of the system may be set        *)
(* (dout_time.c: thread_start_routine).                                    *)
(*                                                                         *)
(* The states 1 and 2 of the clock are the same to all of them: "hold".    *)
(* The module has no specification of its own: PtpModules has the loop of  *)
(* d-output, and the modules that hear the class.                          *)
(***************************************************************************)
EXTENDS Naturals

CONSTANT
  Rubidium      (* FPGA_RBXO_TYP is 1: a rubidium clock and not a crystal     *)

ASSUME OutputQualityAssumption == Rubidium \in BOOLEAN

ClockStates == {"free", "hold", "fast", "lock"}
Quick == {"fast", "lock"}
Flag == [gps |-> "both", mb |-> "freq", mh |-> "freq", ntp |-> "time", none |-> "invalid"]
Sources == DOMAIN Flag
Grades == {"02", "04", "08", "0F"}
PpsStates == {"locked", "frequency", "unusable", "crystal", "rubidium"}

VARIABLES
  clock,    \* FPGA_RBXO_STA
  state,    \* the state of the clock in the shared memory of d-alarm
  source,   \* FPGA_SYS_INSRC_SELECT
  grade,    \* the grade of the frequency input: of the signal, or the user's
  input,    \* stratum and grade: FPGA_SYS_INSRC_STRATUM and _CUR_INSRC_SSM
  known,    \* the statics of SetOutBoardClockClass
  ssm,      \* FPGA_SYS_2MB_OUT_SSM
  tod,      \* the state and quality in the time of day message
  thread,   \* enable_update_time_flag and pre_clock_state
  freeSets, \* history: times set by the last looks, all at a clock in free run
  rounds,   \* history: rounds of d-output since the last change, up to 2
  seconds   \* history: the thread had a second since then

clockVars == <<clock, state, source, grade, input>>
outputVars == <<known, ssm, tod, thread, freeSets>>
qualityVars == <<clockVars, outputVars, rounds, seconds>>

Fresh == known' = [state |-> "free", source |-> "unset", traced |-> "none", pre |-> "09"]
NoThread == thread' = [enabled |-> FALSE, before |-> "free"]

\* The daemons start, and the clock may have been running for long.
QualityInit(found) ==
  /\ clock = found.clock /\ state = found.clock /\ source = found.source
  /\ grade = found.grade
  /\ input = [stratum |-> 0, grade |-> "0F"]
  /\ known = [state |-> "free", source |-> "unset", traced |-> "none", pre |-> "09"]
  /\ ssm = "0F"
  /\ tod = [pps |-> "unusable", quality |-> 15]
  /\ thread = [enabled |-> FALSE, before |-> "free"]
  /\ freeSets = 0 /\ rounds = 0 /\ seconds = FALSE

Disturbed == rounds' = 0 /\ seconds' = FALSE

-----------------------------------------------------------------------------
(* Around d-output.                                                        *)

\* The clock changes its state as its loop does, its source is selected.
Ticks == \/ clock' \in ClockStates \ {clock} /\ UNCHANGED <<source, grade>>
         \/ source' \in Sources \ {source} /\ UNCHANGED <<clock, grade>>
         \/ grade' \in Grades \ {grade} /\ UNCHANGED <<clock, source>>
ClockChanges ==
  /\ Ticks /\ Disturbed
  /\ UNCHANGED <<state, input, outputVars>>

\* write_clock_state of d-alarm.
write_clock_state ==
  /\ state # clock
  /\ state' = clock /\ Disturbed
  /\ UNCHANGED <<clock, source, grade, input, outputVars>>

Strata == [g \in Grades |-> CASE g = "02" -> 0 [] g = "04" -> 1 [] g = "08" -> 2 [] OTHER -> 255]
\* Without a source everything stays as it is.
stratum_input_source ==
  /\ source # "none"
  /\ input' = IF Flag[source] = "freq" THEN [stratum |-> Strata[grade], grade |-> grade]
                                       ELSE [input EXCEPT !.stratum = 0]
  /\ input' # input /\ Disturbed
  /\ UNCHANGED <<clock, state, source, grade, outputVars>>

-----------------------------------------------------------------------------
(* SetOutBoardClockClass.  An output is the grade and the statics.         *)

Output == [ssm |-> ssm, state |-> known.state, traced |-> known.traced, pre |-> known.pre]

\* Fault: what was said in free run is not remembered.
SayOnly(o, g) == [o EXCEPT !.ssm = g, !.pre = IF g = "0F" THEN @ ELSE g]
Say(o, g) == [o EXCEPT !.ssm = g, !.pre = g]

\* The grade of a frequency source goes straight through, by the state and
\* the source of the round before.
Through(o) ==
  LET g == IF o.traced = "mb" THEN grade ELSE input.grade IN
  IF Flag[o.traced] = "freq" /\ o.state \in Quick /\ g # o.pre THEN Say(o, g) ELSE o

\* Without a source the last one still counts.
Traced(o) == IF source = "none" THEN o.traced ELSE source
Class(o) ==
  LET freq == Flag[Traced(o)] = "freq" IN
  CASE state = "lock" -> IF freq THEN 7 ELSE 6
    [] state = "hold" -> IF Rubidium \/ (input.stratum = 1 /\ freq) THEN 8 ELSE 52
    [] OTHER -> 255
\* A source of time only leaves the grade alone in fast and lock.
Graded(o) ==
  LET both == Flag[o.traced] = "both" IN
  CASE state = "lock" -> IF both THEN Say(o, "02") ELSE o
    [] state = "fast" -> IF both THEN Say(o, "04") ELSE o
    [] state = "hold" -> Say(o, IF Rubidium THEN "04" ELSE "08")
    [] OTHER -> Say(o, "0F")
\* Fault: only a change of the source counts.
SourceChanged == source # known.source
Changed == state # known.state \/ source # known.source

SetOutBoardClockClass ==
  LET o == Through(Output)
      n == IF Changed THEN Graded([o EXCEPT !.traced = Traced(o)]) ELSE o
  IN /\ ssm' = n.ssm
     /\ known' = [state |-> state, source |-> source, traced |-> n.traced, pre |-> n.pre]
     /\ rounds' = IF rounds < 2 THEN rounds + 1 ELSE 2
     /\ UNCHANGED <<clockVars, tod, thread, freeSets, seconds>>

-----------------------------------------------------------------------------
(* The thread.                                                             *)

(* Locked, and to a source that is neither of both nor a frequency: the    *)
(* state is a variable that was never set.                                 *)
TodStates ==
  CASE clock = "lock" /\ Flag[source] \in {"time", "invalid"} -> PpsStates
    [] clock = "lock" /\ Flag[source] = "both" -> {"locked"}
    [] clock = "lock" /\ Flag[source] = "freq" -> {"frequency"}
    [] clock = "hold" ->
         {IF Rubidium \/ (input.stratum = 1 /\ Flag[source] = "freq") THEN "rubidium" ELSE "crystal"}
    [] OTHER -> {"unusable"}
TodQuality ==
  CASE clock = "lock" -> (CASE Flag[source] = "both" -> 0 [] Flag[source] = "freq" -> 4 [] OTHER -> 15)
    [] clock = "fast" -> 10
    [] clock = "hold" -> IF Rubidium \/ (input.stratum = 1 /\ Flag[source] = "freq") THEN 5 ELSE 6
    [] OTHER -> 15
china_mobile_miit_tod ==
  \E p \in TodStates : tod' = [pps |-> p, quality |-> TodQuality]

\* Fault: nothing takes the permission back.
LooksOnce == IF clock \in Quick THEN TRUE ELSE thread.enabled
\* A look at the clock, a minute or an hour after the last one.
Enabled ==
  CASE clock \in Quick /\ thread.before \in Quick -> TRUE
    [] clock = "free" /\ thread.before = "free" -> FALSE
    [] OTHER -> thread.enabled
\* set_systime may find that the time is none.
Look ==
  /\ thread' = [enabled |-> Enabled, before |-> clock]
  /\ \E valid \in BOOLEAN :
       freeSets' = IF clock # "free" THEN 0
                   ELSE IF Enabled /\ valid THEN freeSets + 1 ELSE freeSets

Second ==
  /\ Look \/ UNCHANGED <<thread, freeSets>>
  /\ china_mobile_miit_tod
  /\ seconds' = TRUE
  /\ UNCHANGED <<clockVars, known, ssm, rounds>>

-----------------------------------------------------------------------------
(* What holds.                                                             *)

QualityTypeOK ==
  /\ clock \in ClockStates /\ state \in ClockStates
  /\ source \in Sources /\ grade \in Grades
  /\ input \in [stratum : {0, 1, 2, 255}, grade : Grades]
  /\ known \in [state : ClockStates, source : Sources \cup {"unset"}, traced : Sources,
                pre : Grades \cup {"09"}]
  /\ ssm \in Grades /\ tod \in [pps : PpsStates, quality : {0, 4, 5, 6, 10, 15}]
  /\ thread \in [enabled : BOOLEAN, before : ClockStates]
  /\ freeSets \in Nat /\ rounds \in 0..2 /\ seconds \in BOOLEAN

\* Two rounds after the last change the 2 Mbit output has the grade of the
\* table over SetOutBoardClockClass (dout_issue.c:1368-1374), whatever the
\* order in which the state, the source and its grade changed and whenever
\* d-output was restarted.  Nothing is promised in fast and lock when the
\* source is one of time only or none was seen since the restart.
SsmFollows ==
  rounds = 2 =>
    /\ state = "free" => ssm = "0F"
    /\ state = "hold" => ssm = IF Rubidium THEN "04" ELSE "08"
    /\ state \in Quick /\ Flag[known.traced] = "freq" =>
         ssm = IF known.traced = "mb" THEN grade ELSE input.grade
    /\ state \in Quick /\ Flag[known.traced] = "both" =>
         ssm = IF state = "fast" THEN "04" ELSE "02"

\* A clock that is found in free run again and again gives the system its
\* time at most once: the second look stops it (dout_time.c:985-989).
FreeTimeOnce == freeSets <= 1
=============================================================================
