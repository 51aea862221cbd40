------------------------------ MODULE AlarmTables ------------------------------
(***************************************************************************)
(* The alarm daemon collects the alarms of the device, compares them with  *)
(* those of the last round and keeps two tables of the changes:            *)
(* src/d-alarm/dalm_alarm.c (CompareAlarm, set_cur_alarm_info,             *)
(* del_cur_alarm_info, set_upload_alarm_info), dalm_ctrl.c (ProcAlarm) and *)
(* dalm_config.c (WriteAlarmInfoToShareMemory).                            *)
(*                                                                         *)
(* The table of current alarms holds the alarms that are on, the upload    *)
(* table the last changes for the network management, which reads both     *)
(* from the shared memory.  Ended alarms go into a table of the database.  *)
(* Halt is the alarm that the FPGA does not run; as long as it does not    *)
(* the daemon compares in a loop of its own, where errors are ignored.     *)
(***************************************************************************)
EXTENDS Naturals, Sequences, FiniteSets

CONSTANTS
  MaxAlarm,    (* ALM_CURSOR_ARRAY_SIZE; the first two are Halt and NtpExit  *)
  MaxCur,      (* CUR_ALM_MAX_ARRAY_SIZE (50)                                *)
  MaxUpload,   (* UPLOAD_ALM_MAX_ARRAY_SIZE (20)                             *)
  MaxId,       (* the greatest value of u32_t                                *)
  MaxAlm,      (* MAX_ALM: rows of the table of ended alarms                 *)
  MaxChanges,  (* bound: changes of the device                               *)
  MaxStarts,   (* bound: how often the daemon is started                     *)
  MaxFaults    (* bound: writes to the database that fail                    *)

Alarms == 1..MaxAlarm
Halt == 1
NtpExit == 2

ASSUME AlarmAssumption ==
  /\ {MaxAlarm, MaxCur, MaxUpload, MaxId, MaxAlm} \subseteq Nat \ {0}
  /\ NtpExit <= MaxAlarm
  /\ {MaxChanges, MaxStarts, MaxFaults} \subseteq Nat
  /\ MaxUpload < MaxId

VARIABLES
  dev,      \* the device: on (the alarms that hold), fpga (it runs), judged
            \* (the input daemon has judged its source: not REFSOURCE_INIT)
  pc,       \* "down", "top", "compare", "write"
  waiting,  \* in the loop that waits for the FPGA
  at,       \* the alarm CompareAlarm has come to
  new, old, \* new_alarm, old_alarm: the alarms that are on
  cur,      \* cur_alarm
  upload,   \* upload_alarm
  last,     \* the static counters record_inx of the two tables
  ended,    \* the table of ended alarms
  shown,    \* the tables in the shared memory
  log,      \* history: the changes since the upload table was empty, the
            \* alarms that ended, whether the current table was full
  bounds    \* how many changes, starts, faults; ignored: since it started the
            \* daemon has ignored an error in the loop that waits for the FPGA

vars == <<dev, pc, waiting, at, new, old, cur, upload, last, ended, shown,
          log, bounds>>

Free == [id |-> 0, alarm |-> 0]
Empty == [id |-> 0, alarm |-> 0, on |-> FALSE]
NoTables == [cur |-> [i \in 1..MaxCur |-> Free],
             upload |-> [i \in 1..MaxUpload |-> Empty]]

Init ==
  /\ dev = [on |-> {}, fpga |-> TRUE, judged |-> FALSE]
  /\ pc = "down"
  /\ waiting = FALSE
  /\ at = 1
  /\ new = {} /\ old = {}
  /\ cur = NoTables.cur
  /\ upload = NoTables.upload
  /\ last = [cur |-> 0, upload |-> 0]
  /\ ended = <<>>
  /\ shown = NoTables
  /\ log = [changes |-> <<>>, ended |-> <<>>, full |-> FALSE]
  /\ bounds = [changes |-> 0, starts |-> 0, faults |-> 0, ignored |-> FALSE]

-----------------------------------------------------------------------------
(* The tables.                                                             *)

Listed(c) == {c[i].alarm : i \in {j \in DOMAIN c : c[j].id # 0}}
Least(S) == CHOOSE i \in S : \A j \in S : i <= j
NextId(n) == IF n + 1 >= MaxId THEN 0 ELSE n + 1

(* set_cur_alarm_info: the first free entry; none is left out when full.   *)
CurWith(a) ==
  LET free == {i \in DOMAIN cur : cur[i].id = 0}
  IN  IF free = {} THEN cur
      ELSE [cur EXCEPT ![Least(free)] = [id |-> last.cur + 1, alarm |-> a]]
CurLast == IF \E i \in DOMAIN cur : cur[i].id = 0 THEN NextId(last.cur) ELSE last.cur

(* Fault: the entry is looked for by its place and not by its alarm.       *)
FreedFirst(a) ==
  LET its == {i \in DOMAIN cur : cur[i].id # 0}
  IN  IF its = {} THEN cur ELSE [cur EXCEPT ![Least(its)] = Free]
(* del_cur_alarm_info: the first entry of the alarm.                       *)
CurWithout(a) ==
  LET its == {i \in DOMAIN cur : cur[i].id # 0 /\ cur[i].alarm = a}
  IN  IF its = {} THEN cur ELSE [cur EXCEPT ![Least(its)] = Free]

(* set_upload_alarm_info: the first empty entry or else the least id.      *)
Place(u) == CHOOSE i \in DOMAIN u :
              \A j \in DOMAIN u : u[i].id < u[j].id \/ (u[i].id = u[j].id /\ i <= j)
UploadWith(a, on) ==
  [upload EXCEPT ![Place(upload)] = [id |-> last.upload + 1, alarm |-> a, on |-> on]]

-----------------------------------------------------------------------------
(* CompareAlarm, one alarm at a time.                                      *)

(* The change of alarm a is entered.  When the ids are used up the tables  *)
(* go to the shared memory and the upload table is emptied.                *)
Enter(a, on, c) ==
  LET u   == UploadWith(a, on)
      end == last.upload + 1 >= MaxId
  IN  /\ cur' = c
      /\ upload' = IF end THEN NoTables.upload ELSE u
      /\ shown' = IF end THEN [cur |-> c, upload |-> u] ELSE shown
      /\ last' = [cur |-> IF on THEN CurLast ELSE last.cur, upload |-> NextId(last.upload)]
      /\ log' = [changes |-> IF end THEN <<>> ELSE Append(log.changes, <<a, on>>),
                 ended |-> IF on THEN log.ended ELSE Append(log.ended, a),
                 full |-> log.full \/ (on /\ c = cur)]

(* Fault: the younger half of the rows is deleted.                         *)
OlderHalf(h) ==
  IF Len(h) < MaxAlm THEN h ELSE SubSeq(h, 1, Len(h) - (Len(h) + 1) \div 2)
(* db_alarm_write: half of a full table is deleted first.                  *)
Kept(h) ==
  IF Len(h) < MaxAlm THEN h ELSE SubSeq(h, (Len(h) + 1) \div 2 + 1, Len(h))

(* CompareAlarm returns early: the loop that waits for the FPGA ignores it *)
(* and goes on, the other one ends the daemon.  old_alarm keeps its value. *)
Fail ==
  /\ bounds.faults < MaxFaults
  /\ waiting \/ bounds.starts < MaxStarts
  /\ bounds' = [bounds EXCEPT !.faults = @ + 1, !.ignored = @ \/ waiting]
  /\ pc' = IF waiting THEN "write" ELSE "down"
  /\ at' = at

Proceed ==
  /\ at' = at + 1
  /\ pc' = pc
  /\ bounds' = bounds

Raise ==
  /\ pc = "compare" /\ at \in new \ old
  /\ Enter(at, TRUE, CurWith(at))
  /\ Proceed \/ Fail
  /\ UNCHANGED <<dev, waiting, new, old, ended>>

Clear ==
  /\ pc = "compare" /\ at \in old \ new
  /\ Enter(at, FALSE, CurWithout(at))
  /\ \/ ended' = Append(Kept(ended), at) /\ (Proceed \/ Fail)
     \/ ended' \in {ended, Kept(ended)} /\ Fail
  /\ UNCHANGED <<dev, waiting, new, old>>

(* GetSysTime fails before anything is entered.                            *)
NoTime ==
  /\ pc = "compare" /\ at \in (new \ old) \cup (old \ new)
  /\ Fail
  /\ UNCHANGED <<dev, waiting, new, old, cur, upload, last, ended, shown, log>>

Same ==
  /\ pc = "compare" /\ at \in Alarms
  /\ (at \in old) <=> (at \in new)
  /\ at' = at + 1
  /\ UNCHANGED <<dev, pc, waiting, new, old, cur, upload, last, ended, shown, log,
                 bounds>>

(* The memcpy to old_alarm at the end of the comparison.                   *)
Copied == new
Compared ==
  /\ pc = "compare" /\ at > MaxAlarm
  /\ old' = Copied
  /\ pc' = "write"
  /\ UNCHANGED <<dev, waiting, at, new, cur, upload, last, ended, shown, log, bounds>>

-----------------------------------------------------------------------------
(* ProcAlarm                                                               *)

(* CollectAlarm_FPGAInvalid reads the alarm of the NTP daemon only.        *)
Wait ==
  /\ pc = "top" /\ ~dev.fpga
  /\ new' = (new \ {NtpExit}) \cup {Halt} \cup (dev.on \cap {NtpExit})
  /\ waiting' = TRUE
  /\ pc' = "compare" /\ at' = 1
  /\ UNCHANGED <<dev, old, cur, upload, last, ended, shown, log, bounds>>

(* CollectAlarm; nothing is compared before the source is judged.          *)
Collect ==
  /\ pc = "top" /\ dev.fpga
  /\ new' = dev.on \ {Halt}
  /\ waiting' = FALSE
  /\ pc' = IF dev.judged THEN "compare" ELSE "write"
  /\ at' = 1
  /\ UNCHANGED <<dev, old, cur, upload, last, ended, shown, log, bounds>>

Tables == [cur |-> cur, upload |-> upload]
(* WriteAlarmInfoToShareMemory                                             *)
WriteInfo ==
  /\ pc = "write"
  /\ shown' = Tables
  /\ pc' = "top"
  /\ UNCHANGED <<dev, waiting, at, new, old, cur, upload, last, ended, log, bounds>>

(* initializeContext; the FPGA has to run.                                 *)
Start ==
  /\ pc = "down" /\ dev.fpga
  /\ bounds.starts < MaxStarts
  /\ bounds' = [bounds EXCEPT !.starts = @ + 1, !.ignored = FALSE]
  /\ pc' = "top" /\ waiting' = FALSE /\ at' = 1
  /\ new' = {} /\ old' = {}
  /\ cur' = NoTables.cur /\ upload' = NoTables.upload
  /\ last' = [cur |-> 0, upload |-> 0]
  /\ log' = [log EXCEPT !.changes = <<>>, !.full = FALSE]
  /\ UNCHANGED <<dev, ended, shown>>

(* The daemon is killed, or ends after another error.                      *)
Stop ==
  /\ pc # "down" /\ bounds.starts < MaxStarts
  /\ pc' = "down"
  /\ UNCHANGED <<dev, waiting, at, new, old, cur, upload, last, ended, shown, log,
                 bounds>>

(* The device: an alarm comes or goes, the FPGA stops or runs, the input   *)
(* daemon judges its source or starts again.                               *)
Change ==
  /\ bounds.changes < MaxChanges
  /\ bounds' = [bounds EXCEPT !.changes = @ + 1]
  /\ \/ \E a \in Alarms \ {Halt} :
          dev' = [dev EXCEPT !.on = IF a \in @ THEN @ \ {a} ELSE @ \cup {a}]
     \/ dev' = [dev EXCEPT !.fpga = ~@]
     \/ dev' = [dev EXCEPT !.judged = ~@]
  /\ UNCHANGED <<pc, waiting, at, new, old, cur, upload, last, ended, shown, log>>

Daemon == Raise \/ Clear \/ NoTime \/ Same \/ Compared \/ Wait \/ Collect \/ WriteInfo
Next == Daemon \/ Start \/ Stop \/ Change

Spec == Init /\ [][Next]_vars

(* The daemon is scheduled; the manager starts it again.                   *)
FairSpec == Spec /\ WF_vars(Daemon) /\ WF_vars(Start)

-----------------------------------------------------------------------------
TypeOK ==
  /\ dev \in [on : SUBSET Alarms, fpga : BOOLEAN, judged : BOOLEAN]
  /\ pc \in {"down", "top", "compare", "write"}
  /\ waiting \in BOOLEAN
  /\ at \in 1..(MaxAlarm + 1)
  /\ new \subseteq Alarms /\ old \subseteq Alarms
  /\ cur \in [1..MaxCur -> [id : 0..MaxId, alarm : 0..MaxAlarm]]
  /\ upload \in [1..MaxUpload -> [id : 0..MaxId, alarm : 0..MaxAlarm, on : BOOLEAN]]
  /\ last \in [cur : 0..(MaxId - 1), upload : 0..(MaxId - 1)]
  /\ ended \in Seq(Alarms) /\ Len(ended) <= MaxAlm
  /\ log.full \in BOOLEAN

(* Between two comparisons the table of current alarms holds each alarm    *)
(* that is on exactly once and no other; only a full table misses some.    *)
(* The exception: once an error was ignored in the loop that waits for the *)
(* FPGA (dalm_ctrl.c:218) nothing of this holds until the daemon starts    *)
(* again, for the changes entered before the error are found once more.    *)
ListIsCurrent ==
  pc \in {"top", "write"} /\ ~bounds.ignored =>
    /\ Cardinality({i \in DOMAIN cur : cur[i].id # 0}) = Cardinality(Listed(cur))
    /\ Listed(cur) \subseteq old
    /\ ~log.full => Listed(cur) = old

(* The upload table holds the last changes and no other, numbered in the   *)
(* order in which they were found, also behind a wrap of the ids.          *)
UploadHoldsLatest ==
  LET n    == Len(log.changes)
      kept == IF n < MaxUpload THEN n ELSE MaxUpload
  IN  pc # "down" =>
        {upload[i] : i \in DOMAIN upload} \ {Empty} =
        {[id |-> i, alarm |-> log.changes[i][1], on |-> log.changes[i][2]]
           : i \in (n - kept + 1)..n}

(* The table of ended alarms holds the youngest of them, in order; only    *)
(* those whose write failed are missing.                                   *)
EndedIsLatest ==
  bounds.faults = 0 =>
    /\ Len(ended) <= Len(log.ended)
    /\ ended = SubSeq(log.ended, Len(log.ended) - Len(ended) + 1, Len(log.ended))
    /\ log.ended # <<>> => ended # <<>>

(* Both tables of what has happened hold the latest of it: the changes for *)
(* the upload and the ended ones (set_upload_alarm_info, db_alarm_write).  *)
LogsHoldLatest == UploadHoldsLatest /\ EndedIsLatest

(* An alarm that stays is shown in the end, unless the table was full, and *)
(* one that stays away is not, through restarts and stops of the FPGA and  *)
(* with the exception of ListIsCurrent.                                    *)
SettledIsShown ==
  \A a \in Alarms \ {Halt} :
    LET settled == dev.fpga /\ dev.judged /\ ~bounds.ignored
    IN  /\ <>[](a \in dev.on /\ settled /\ ~log.full) => <>[](a \in Listed(shown.cur))
        /\ <>[](a \notin dev.on /\ settled) => <>[](a \notin Listed(shown.cur))
=============================================================================
