----------------------------- MODULE SourceSelect -----------------------------
(***************************************************************************)
(* The input daemon chooses the reference source of the clock and judges   *)
(* whether it can be trusted: src/d-input/din_source.c (bis_free,          *)
(* best_input_source), din_ctrl.c (Time_Refresh_Strategy, the main loop),  *)
(* din_parser.c (sysSchema) and din_config.c (ReadSchema).                 *)
(*                                                                         *)
(* In the free schema every round takes the best source that has no alarm; *)
(* in the forced schema the operator's command fixes the source.  A source *)
(* is declared valid after ValidAfter rounds without alarm, the time is    *)
(* taken over after FreshAfter, and it is declared invalid after LostAfter *)
(* rounds with one.  The time is taken over on two events as well, without *)
(* a look at that: a receiver is heard again, or the clock locks.          *)
(*                                                                         *)
(* A slot offers three sources here: "gps", "freq" (2 MHz, 2 Mbit) and     *)
(* "tod".  The last one stands behind two kinds of board and two alarms,   *)
(* which is why the board matters.  The alarms of a slot are refreshed for *)
(* the board that is in it; the others keep their last value.              *)
(***************************************************************************)
EXTENDS Naturals, Sequences, FiniteSets

CONSTANTS
  MaxSlot,      (* INPUT_SLOT_CURSOR_ARRAY_SIZE (4)                           *)
  Fitting,      (* Fitting[slot]: the boards that are put into a slot         *)
  Prio,         (* Prio[source]: 0..9, or NoPrio                              *)
  ClockType,    (* "RB", "XO" or "none"                                       *)
  Faulty,       (* bound: the alarms that occur, a slot and a kind each       *)
  ValidAfter,   (* 50                                                         *)
  FreshAfter,   (* 60                                                         *)
  LostAfter,    (* 60                                                         *)
  MaxSwaps,     (* bound: boards pulled or pushed while the daemon runs       *)
  MaxCommands,  (* bound: commands of the operator                            *)
  MaxStarts     (* bound: how often the daemon is started                     *)

Slots == 1..MaxSlot
Types == <<"gps", "freq", "tod">>
NoSource == MaxSlot * Len(Types) + 1     \* TIME_SOURCE_MAX_NOSOURCE
Sources == 1..(NoSource - 1)
NoPrio == 10                             \* '-'

(* gBoardAttrTbl: the sources on the ports of a board.  An "old" board has *)
(* no table of ports at all.                                               *)
Boards == {"none", "sat", "ptp", "rtf", "old"}
Offers == [none |-> {}, sat |-> {"gps", "freq"}, ptp |-> {"tod"},
           rtf |-> {"tod"}, old |-> {}]
HasPorts(b) == b # "old"

(* gTimeSourceTbl.  NoSource is in slot 0.                                 *)
SlotOf(s) == IF s = NoSource THEN 0 ELSE ((s - 1) \div Len(Types)) + 1
TypeOf(s) == IF s = NoSource THEN "none" ELSE Types[((s - 1) % Len(Types)) + 1]

ASSUME SelectAssumption ==
  /\ MaxSlot \in Nat \ {0}
  /\ Fitting \in [Slots -> SUBSET Boards]
  /\ Prio \in [Sources -> 0..NoPrio]
  /\ ClockType \in {"RB", "XO", "none"}
  /\ Faulty \subseteq Slots \X {"gps", "dgd", "freq", "ssm", "ptp", "rtf"}
  /\ {ValidAfter, FreshAfter, LostAfter, MaxSwaps, MaxCommands, MaxStarts}
       \subseteq Nat
  /\ ValidAfter < FreshAfter

VARIABLES
  phase,    \* "down", "top" (of the loop), "msgs" (the queue may be read)
  bid,      \* bid[slot]: the board, as it was read last
  alarm,    \* the alarms that are on: a set of <<slot, kind>>
  cs,       \* ctx->cs: schema, src (src_inx), bid and valid (refsrc_is_valid)
  count,    \* the static counters alm, unalm and the static old_schema
  fast,     \* the static pre_clock_state is 3: the clock was still catching
  reg,      \* FPGA: select, lost (FPGA_SYS_INSRC_VALID), and fresh: why the
            \* time was taken over (FPGA_SYS_FRESH_TIME) in the last round
  shown,    \* shown[slot]: the board in the shared memory
  saved,    \* the schema in the database
  queue,    \* schema messages
  streak,   \* history: rounds in a row without (good) and with (lost) alarm,
            \* and (same) without alarm and with the same source
  swaps, commands, starts  \* how many of each

fixed == <<fast, shown, saved, queue, commands, starts>>
vars == <<phase, bid, alarm, cs, count, fast, reg, shown, saved, queue, streak,
          swaps, commands, starts>>

Kinds == {"gps", "dgd", "freq", "ssm", "ptp", "rtf"}
Schema == [schema : {0, 1}, src : Sources \cup {NoSource}]
Messages == [schema : {1}, src : Sources] \cup [schema : {0}, src : {NoSource}]
Top(n, max) == IF n < max THEN n + 1 ELSE max

Init ==
  /\ phase = "down"
  /\ bid = [s \in Slots |-> "none"]
  /\ alarm = {}
  /\ cs = [schema |-> 0, src |-> 1, bid |-> "none", valid |-> "init"]
  /\ count = [alm |-> 0, unalm |-> 0, schema |-> 0]
  /\ fast = FALSE
  /\ reg = [select |-> NoSource, lost |-> TRUE, fresh |-> {}]
  /\ shown = [s \in Slots |-> "none"]
  /\ saved = [schema |-> 0, src |-> NoSource]
  /\ queue = <<>>
  /\ streak = [good |-> 0, lost |-> 0, same |-> 0]
  /\ swaps = 0
  /\ commands = 0
  /\ starts = 0

-----------------------------------------------------------------------------
(* The alarm that is looked up for a source of type t on board b.          *)
AlarmKind(t, b) == IF t = "tod" THEN b ELSE t

(* The alarms ReadAlarm and ReadSSM refresh for the board of a slot.       *)
KindsOf(b) ==
  CASE b = "sat" -> {"gps", "dgd", "freq", "ssm"}
    [] b \in {"ptp", "rtf"} -> {b}
    [] b = "old" -> {"gps"}
    [] b = "none" -> {}
Refreshed(b) == {<<s, k>> : s \in Slots, k \in Kinds} \cap
                UNION {{s} \X KindsOf(b[s]) : s \in Slots}

(* bis_free: the source is on a port of the board, has no alarm, a         *)
(* priority, and, for a frequency, a quality level the clock accepts.      *)
Usable(s, b, al) ==
  /\ TypeOf(s) \in Offers[b[SlotOf(s)]]
  /\ <<SlotOf(s), AlarmKind(TypeOf(s), b[SlotOf(s)])>> \notin al
  /\ TypeOf(s) = "gps" => <<SlotOf(s), "dgd">> \notin al
  /\ TypeOf(s) = "freq" =>
       ClockType \in {"RB", "XO"} /\ <<SlotOf(s), "ssm">> \notin al
  /\ Prio[s] # NoPrio

(* Fault: the alarms are not looked at.                                    *)
AnyOffered(b, al) ==
  LET ok == {s \in Sources : Usable(s, b, {})}
  IN  IF ok = {} THEN NoSource ELSE CHOOSE s \in ok : TRUE
(* The least priority number wins, and the first of those that share it.   *)
BisFree(b, al) ==
  LET ok == {s \in Sources : Usable(s, b, al)}
  IN  IF ok = {} THEN NoSource
      ELSE CHOOSE s \in ok : \A t \in ok :
             Prio[s] < Prio[t] \/ (Prio[s] = Prio[t] /\ s <= t)

(* The board of the selected source, copied when the source is selected.   *)
BoardOf(s) == IF s = NoSource THEN "none" ELSE bid[SlotOf(s)]

-----------------------------------------------------------------------------
(* One round of the main loop.                                             *)

Inserted == {b \in [Slots -> Boards] : \A s \in Slots : b[s] \in Fitting[s]}

(* The top of the loop: ReadBidFromFpga.  Boards are pulled and pushed     *)
(* while the device runs.                                                  *)
ReadBid ==
  /\ phase = "top"
  /\ bid' \in {b \in Inserted : b # bid => swaps < MaxSwaps}
  /\ swaps' = IF bid' = bid THEN swaps ELSE swaps + 1
  /\ phase' = "msgs"
  /\ reg' = [reg EXCEPT !.fresh = {}]
  /\ UNCHANGED <<alarm, cs, count, streak, fixed>>

(* Fault: the register keeps the source it had.                            *)
OldSelect(s) == reg
(* bis_force                                                               *)
BisForce(s) == [reg EXCEPT !.select = s]

(* sysSchema: the free schema selects by the alarms of the last round.  A  *)
(* board without ports makes it fail, behind the register and before the   *)
(* database; the daemon ends.                                              *)
SysSchema ==
  /\ phase = "msgs"
  /\ queue # <<>>
  /\ queue' = Tail(queue)
  /\ LET m   == Head(queue)
         src == IF m.schema = 1 THEN m.src ELSE BisFree(bid, alarm)
     IN  /\ reg' = IF cs.src # src THEN BisForce(src) ELSE reg
         /\ cs' = [cs EXCEPT !.schema = m.schema, !.src = src, !.bid = BoardOf(src)]
         /\ IF HasPorts(BoardOf(src))
            THEN /\ saved' = [schema |-> m.schema, src |-> src]
                 /\ phase' = phase
            ELSE /\ phase' = "down"
                 /\ saved' = saved
  /\ UNCHANGED <<bid, alarm, count, fast, shown, streak, swaps, commands, starts>>

(* best_input_source: in the free schema only, and when the best source is *)
(* another one.                                                            *)
Selected(al) ==
  LET src == BisFree(bid, al)
  IN  IF cs.schema = 0 /\ cs.src # src
      THEN [cs EXCEPT !.src = src, !.bid = BoardOf(src)]
      ELSE cs

(* Time_Refresh_Strategy: the state of the selected source.  The alarm is  *)
(* that of the board it was selected on, the slot must not be empty now.   *)
PortAlarm(c, al) ==
  \/ c.src = NoSource
  \/ TypeOf(c.src) = "tod" /\ c.bid \notin {"ptp", "rtf"}
  \/ bid[SlotOf(c.src)] = "none"
  \/ <<SlotOf(c.src), AlarmKind(TypeOf(c.src), c.bid)>> \in al
  \/ ~HasPorts(c.bid)

(* Fault: a quiet round does not start the count of alarms again.          *)
NeverForgiven(c, al) ==
  LET cnt == IF c.schema # count.schema
             THEN [alm |-> 0, unalm |-> 0, schema |-> c.schema] ELSE count
  IN  IF PortAlarm(c, al)
      THEN [cnt EXCEPT !.alm = 0, !.unalm = Top(cnt.unalm, LostAfter + 1)]
      ELSE [cnt EXCEPT !.alm = Top(cnt.alm, FreshAfter + 1)]
(* Fault: the schema is not remembered, and found changed in every round.  *)
NeverRemembered(c, al) ==
  LET cnt == IF c.schema # count.schema THEN [count EXCEPT !.alm = 0, !.unalm = 0]
             ELSE count
  IN  IF PortAlarm(c, al)
      THEN [cnt EXCEPT !.alm = 0, !.unalm = Top(cnt.unalm, LostAfter + 1)]
      ELSE [cnt EXCEPT !.alm = Top(cnt.alm, FreshAfter + 1), !.unalm = 0]
(* The counters start again with the schema; they stop where no comparison *)
(* is left.                                                                *)
Counted(c, al) ==
  LET cnt == IF c.schema # count.schema
             THEN [alm |-> 0, unalm |-> 0, schema |-> c.schema] ELSE count
  IN  IF PortAlarm(c, al)
      THEN [cnt EXCEPT !.alm = 0, !.unalm = Top(cnt.unalm, LostAfter + 1)]
      ELSE [cnt EXCEPT !.alm = Top(cnt.alm, FreshAfter + 1), !.unalm = 0]

Before(c) == IF c.schema # count.schema THEN [alm |-> 0, unalm |-> 0] ELSE count

Judged(c, al) ==
  CASE ~PortAlarm(c, al) /\ Before(c).alm = ValidAfter -> "valid"
    [] PortAlarm(c, al) /\ Before(c).unalm = LostAfter -> "invalid"
    [] OTHER -> c.valid

(* FreshTime, FreshTime_no_leapSecond: not from a frequency.               *)
IsTime(s) == TypeOf(s) # "freq"

(* What else a round may meet, where it makes a difference: FPGA_RBXO_STA  *)
(* says that the clock catches (3), is locked (4) or else (a failing read  *)
(* is like the value read before); the leap second changes; a satellite    *)
(* board's pulse has been valid for 70 sentences again.                    *)
Events ==
  {e \in [clock : {"fast", "lock", "other"}, leap : BOOLEAN, heard : BOOLEAN] :
     /\ e.clock = "lock" => fast
     /\ e.leap => count.alm > FreshAfter
     /\ e.heard => IsTime(cs.src) /\ \E s \in Slots : bid[s] = "sat"}

(* Why the time is taken over: a source is judged good and quiet for long  *)
(* enough, or is so when the leap second changes (Time_Refresh_Strategy);  *)
(* the receiver is heard again (STA_Parser, before the selection) or the   *)
(* clock goes from catching to locked (FlushTimeClockStateToLock).         *)
Reasons(c, al, e) ==
  {why \in {"judged", "event"} :
     IF why = "judged"
     THEN /\ IsTime(c.src)
          /\ Counted(c, al).alm > FreshAfter
          /\ Before(c).alm = FreshAfter \/ e.leap
     ELSE \/ IsTime(cs.src) /\ e.heard
          \/ IsTime(c.src) /\ fast /\ e.clock = "lock"}

(* The register goes with the judgement.                                   *)
Issued(c, al, e, r) ==
  [r EXCEPT !.lost  = CASE ~PortAlarm(c, al) /\ Before(c).alm = ValidAfter -> FALSE
                        [] PortAlarm(c, al) /\ Before(c).unalm = LostAfter -> TRUE
                        [] OTHER -> r.lost,
            !.fresh = Reasons(c, al, e)]

(* The rest of the round: ReadAlarm, the selection, the judgement and what *)
(* is written to the shared memory.  al: the alarms after ReadAlarm.       *)
Judge(c, al, e) ==
  LET ok == ~PortAlarm(c, al)
      r  == IF cs.src # c.src THEN BisForce(c.src) ELSE reg
  IN  /\ cs' = [c EXCEPT !.valid = Judged(c, al)]
      /\ count' = Counted(c, al)
      /\ fast' = (e.clock = "fast")
      /\ reg' = Issued(c, al, e, r)
      /\ streak' =
           [good |-> IF ok THEN Top(streak.good, ValidAfter + 1) ELSE 0,
            lost |-> IF ok THEN 0 ELSE Top(streak.lost, LostAfter + 1),
            same |-> IF ~ok THEN 0
                     ELSE IF c.src = cs.src
                     THEN Top(streak.same, ValidAfter + 1) ELSE 1]

Round(al, e) ==
  /\ phase = "msgs"
  /\ alarm' = al
  /\ \E c \in {Selected(al)} : Judge(c, al, e)
  /\ shown' = bid
  /\ phase' = "top"
  /\ UNCHANGED <<bid, saved, queue, swaps, commands, starts>>

-----------------------------------------------------------------------------
(* The operator: schema_set of src/cmd/c-input/cin_set.c checks a forced   *)
(* source against the boards in the shared memory.                         *)
SchemaSet(m) ==
  /\ commands < MaxCommands
  /\ commands' = commands + 1
  /\ m.schema = 1 =>
       /\ \A s \in Slots : HasPorts(shown[s])
       /\ TypeOf(m.src) \in Offers[shown[SlotOf(m.src)]]
  /\ queue' = Append(queue, m)
  /\ UNCHANGED <<phase, bid, alarm, cs, count, fast, reg, shown, saved, streak,
                 swaps, starts>>

(* ProcInput up to the loop: the boards are read, then ReadSchema selects  *)
(* with no alarm read yet.                                                 *)
Start ==
  /\ phase = "down"
  /\ starts < MaxStarts
  /\ starts' = starts + 1
  /\ bid' \in Inserted
  /\ alarm' = {}
  /\ LET src == IF saved.schema = 1 THEN saved.src ELSE BisFree(bid', {})
         b   == IF src = NoSource THEN "none" ELSE bid'[SlotOf(src)]
     IN  /\ cs' = [schema |-> saved.schema, src |-> src, bid |-> b, valid |-> "init"]
         /\ reg' = BisForce(src)
         /\ phase' = IF HasPorts(b) THEN "top" ELSE "down"
  /\ count' = [alm |-> 0, unalm |-> 0, schema |-> 0]
  /\ fast' = FALSE
  /\ streak' = [good |-> 0, lost |-> 0, same |-> 0]
  /\ UNCHANGED <<shown, saved, queue, swaps, commands>>

(* Any call of the loop that fails ends the daemon; it may be killed, too. *)
Stop ==
  /\ phase # "down"
  /\ starts < MaxStarts
  /\ phase' = "down"
  /\ UNCHANGED <<bid, alarm, cs, count, reg, streak, swaps, fixed>>

-----------------------------------------------------------------------------
(* What ReadAlarm may leave: the alarms of the boards that are in the      *)
(* slots are read afresh, the others stay.                                 *)
Found == {(alarm \ Refreshed(bid)) \cup on :
            on \in SUBSET (Refreshed(bid) \cap Faulty)}

Daemon == ReadBid \/ SysSchema \/ (\E al \in Found, e \in Events : Round(al, e))

Next ==
  \/ Daemon
  \/ \E m \in Messages : SchemaSet(m)
  \/ Start
  \/ Stop

Spec == Init /\ [][Next]_vars

(* The manager starts the daemon, and a round that was begun comes to its  *)
(* end: nothing in the loop waits.                                         *)
FairSpec == Spec /\ WF_vars(Start) /\ WF_vars(ReadBid) /\ []<>(phase # "msgs")

-----------------------------------------------------------------------------
TypeOK ==
  /\ phase \in {"down", "top", "msgs"}
  /\ bid \in [Slots -> Boards]
  /\ alarm \subseteq Slots \X Kinds
  /\ cs \in [schema : {0, 1}, src : Sources \cup {NoSource}, bid : Boards,
             valid : {"init", "valid", "invalid"}]
  /\ count \in [alm : 0..(FreshAfter + 1), unalm : 0..(LostAfter + 1), schema : {0, 1}]
  /\ fast \in BOOLEAN
  /\ reg \in [select : Sources \cup {NoSource}, lost : BOOLEAN,
              fresh : SUBSET {"judged", "event"}]
  /\ shown \in [Slots -> Boards]
  /\ saved \in Schema
  /\ queue \in Seq(Schema) /\ Len(queue) <= MaxCommands
  /\ streak \in [good : 0..(ValidAfter + 1), lost : 0..(LostAfter + 1),
                 same : 0..(ValidAfter + 1)]
  /\ swaps \in 0..MaxSwaps
  /\ commands \in 0..MaxCommands
  /\ starts \in 0..MaxStarts

(* The register that switches the inputs always holds the source the       *)
(* daemon believes selected: after commands that fail half-way, restarts   *)
(* and changes of the schema.                                              *)
RegisterFollows == phase # "down" => reg.select = cs.src

(* What the FPGA is told of the source is what the other daemons are told. *)
JudgementIsShared ==
  /\ cs.valid = "valid" => ~reg.lost
  /\ cs.valid = "invalid" => reg.lost

(* The FPGA and the daemons have one selection and one judgement of it.    *)
FpgaFollows == RegisterFollows /\ JudgementIsShared

(* At the end of a round of the free schema the selected source can be     *)
(* used and no usable one has a better priority, whatever was pulled, came *)
(* back or was commanded in the round; there is no source only if none can *)
(* be used.                                                                *)
FreeTakesTheBest ==
  phase = "top" /\ cs.schema = 0 /\ (streak.good > 0 \/ streak.lost > 0) =>
    LET ok == {s \in Sources : Usable(s, bid, alarm)}
    IN  /\ (cs.src = NoSource) <=> (ok = {})
        /\ cs.src # NoSource =>
             cs.src \in ok /\ \A s \in ok : Prio[cs.src] <= Prio[s]

(* A source is not judged by a moment: it becomes valid only after         *)
(* ValidAfter rounds in a row without an alarm of the selected source, and *)
(* invalid only after LostAfter rounds with one; on the daemon's own       *)
(* judgement or with a new leap second the clock's time is taken over only *)
(* from a source that was judged good and stayed quiet since.  When the    *)
(* clock locks (din_ctrl.c:220) or a receiver is heard again               *)
(* (din_satellite.c:658) the code takes the time over from whatever is     *)
(* selected, valid or not: of these two nothing is said.                   *)
JudgedByRounds ==
  [][/\ cs'.valid = "valid" /\ cs.valid # "valid" => streak'.good > ValidAfter
     /\ cs'.valid = "invalid" /\ cs.valid # "invalid" => streak'.lost > LostAfter
     /\ "judged" \in reg'.fresh \ reg.fresh =>
          cs'.valid = "valid" /\ ~reg'.lost /\ streak'.good > ValidAfter]_vars

(* What lasts is declared, however commands and restarts cut the count of  *)
(* the rounds, once the daemon stays up: a source whose alarm stays does   *)
(* not remain valid, one that stays without alarm becomes valid.           *)
LastingIsDeclared ==
  /\ <>[](phase # "down" /\ streak.lost > 0) => <>[](cs.valid # "valid")
  /\ <>[](phase # "down" /\ streak.good > 0) => <>[](cs.valid = "valid")

(* The comment in Time_Refresh_Strategy: when the selected source changes, *)
(* its stability has to be established again.                              *)
ValidIsEarned ==
  [][cs'.valid = "valid" /\ cs.valid # "valid" => streak'.same >= ValidAfter]_vars
=============================================================================
