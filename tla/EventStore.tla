------------------------------ MODULE EventStore ------------------------------
(***************************************************************************)
(* The event log of the device: the tables TBL_EVENT_CURRENT and           *)
(* TBL_EVENT_HISTORY, written by several daemons at a time through         *)
(* src/alloc/common_event.c, and moved over by the manager when the device *)
(* starts.  src/alloc/common_phase_perf.c keeps the phase measurements the *)
(* same way.                                                               *)
(*                                                                         *)
(* db_lock ("begin immediate") and db_unlock ("commit") make a transaction *)
(* of what is between them; a transaction is one action.  Writing one      *)
(* event takes three of them, and other daemons may come in between.  A    *)
(* power failure keeps what is committed.  A statement list that fails in  *)
(* the middle is committed all the same, since the error path calls        *)
(* db_unlock and not db_rollback.                                          *)
(*                                                                         *)
(* Events are numbered in the order in which they are inserted.            *)
(***************************************************************************)
EXTENDS Naturals, SequencesExt, FiniteSets

CONSTANTS
  Writers,    (* the daemons that write events (input, output, alarm, wg)     *)
  MaxCurrent, (* TBL_EVENT_CURRENT_ARRAY_SIZE (20)                            *)
  MaxHist,    (* TBL_EVENT_HISTORY_ARRAY_SIZE (10000)                         *)
  MaxSeq,     (* TBL_EVENT_CURRENT_ID_MAX_SEQ (0x7FFFFFFF)                    *)
  MaxEvents,  (* bound: how many events are inserted                          *)
  MaxCycles,  (* bound: how often the power fails                             *)
  MaxTorn     (* bound: how many statement lists fail in the middle           *)

ASSUME StoreAssumption ==
  /\ IsFiniteSet(Writers)
  /\ MaxCurrent \in Nat \ {0}
  /\ MaxHist \in Nat \ {0}
  /\ MaxSeq \in Nat \ {0}
  /\ MaxEvents \in Nat
  /\ MaxCycles \in Nat
  /\ MaxTorn \in Nat

VARIABLES
  system,    \* "check", "move": the manager starts; "up": the daemons run
  writer,    \* writer[w]: the transaction writer w comes to next
  current,   \* the rows of the current table, oldest first
  history,   \* the events of the history table, oldest first
  seq,       \* sqlite_sequence of the current table, 0 when there is no row
  logged,    \* how many events have been inserted
  cycles,    \* power failures so far
  torn       \* statement lists committed half-way so far

tables == <<current, history, seq, logged>>
storeVars == <<system, writer, current, history, seq, logged, cycles, torn>>

Row == [event : 1..MaxEvents, id : 1..(MaxSeq + MaxEvents)]
Events(rows) == [i \in 1..Len(rows) |-> rows[i].event]

StoreInit ==
  /\ system = "check"
  /\ writer = [w \in Writers |-> "idle"]
  /\ current = <<>>
  /\ history = <<>>
  /\ seq = 0
  /\ logged = 0
  /\ cycles = 0
  /\ torn = 0

-----------------------------------------------------------------------------
(* The transactions.                                                       *)

(* Fault: everything is deleted when the history is full.                  *)
PurgeAll == IF Len(history) >= MaxHist THEN <<>> ELSE history
(* CheckHistoryEventNumTable: a full history loses the rows up to          *)
(* (min(rowid) + max(rowid)) / 2, which is the older half.                 *)
Purged ==
  IF Len(history) >= MaxHist
  THEN SubSeq(history, (Len(history) - 1) \div 2 + 2, Len(history))
  ELSE history

(* insert into the current table: the id is the next of the sequence.      *)
Inserted(rows, last) == Append(rows, [event |-> logged + 1, id |-> last + 1])

(* "insert into history select ... from current; delete from current".     *)
AfterMoveAll == <<>>

(* Fault: the newest row is moved.                                         *)
Newest == Len(current)
(* Where the row with the smallest rowid is.                               *)
Oldest == CHOOSE i \in 1..Len(current) :
            \A j \in 1..Len(current) : current[i].id <= current[j].id

IsFull == Len(current) >= MaxCurrent

-----------------------------------------------------------------------------
(* The manager: initCurEventAndHistoryTable, before any daemon runs.       *)

InitCheck ==
  /\ system = "check"
  /\ history' = Purged
  /\ system' = "move"
  /\ UNCHANGED <<writer, current, seq, logged, cycles, torn>>

(* MoveAllCurEventToHistoryTable also sets the sequence to the largest id. *)
InitMove ==
  /\ system = "move"
  /\ history' = history \o Events(current)
  /\ current' = AfterMoveAll
  /\ seq' = IF current = <<>> THEN seq ELSE current[Len(current)].id
  /\ system' = "up"
  /\ UNCHANGED <<writer, logged, cycles, torn>>

-----------------------------------------------------------------------------
(* A daemon writes an event: WriteCurEventToTable.                         *)

Begin(w) ==
  /\ system = "up"
  /\ writer[w] = "idle"
  /\ logged + Cardinality({v \in Writers : writer[v] # "idle"}) < MaxEvents
  /\ writer' = [writer EXCEPT ![w] = "check"]
  /\ UNCHANGED <<system, tables, cycles, torn>>

CheckHistory(w) ==
  /\ writer[w] = "check"
  /\ history' = Purged
  /\ writer' = [writer EXCEPT ![w] = "first"]
  /\ UNCHANGED <<system, current, seq, logged, cycles, torn>>

(* The first transaction of WriteOneCurEventToTable: an empty table takes  *)
(* the event at once; a table whose ids are used up is emptied.            *)
WriteToEmpty(w) ==
  /\ writer[w] = "first"
  /\ current = <<>>
  /\ current' = Inserted(current, seq)
  /\ seq' = seq + 1
  /\ logged' = logged + 1
  /\ writer' = [writer EXCEPT ![w] = "idle"]
  /\ UNCHANGED <<system, history, cycles, torn>>

CheckSequence(w) ==
  /\ writer[w] = "first"
  /\ current # <<>>
  /\ IF seq >= MaxSeq
     THEN /\ history' = history \o Events(current)
          /\ current' = AfterMoveAll
          /\ seq' = 0
     ELSE UNCHANGED <<history, current, seq>>
  /\ writer' = [writer EXCEPT ![w] = "second"]
  /\ UNCHANGED <<system, logged, cycles, torn>>

(* The second one: a full table gives its oldest row away.                 *)
Write(w) ==
  /\ writer[w] = "second"
  /\ IF IsFull
     THEN /\ history' = Append(history, current[Oldest].event)
          /\ current' = Inserted(RemoveAt(current, Oldest), seq)
     ELSE /\ current' = Inserted(current, seq)
          /\ UNCHANGED history
  /\ seq' = seq + 1
  /\ logged' = logged + 1
  /\ writer' = [writer EXCEPT ![w] = "idle"]
  /\ UNCHANGED <<system, cycles, torn>>

(* A query or a statement fails: the transaction has no effect, the daemon *)
(* leaves and is started again, the event is lost.                         *)
WriteFails(w) ==
  /\ writer[w] # "idle"
  /\ writer' = [writer EXCEPT ![w] = "idle"]
  /\ UNCHANGED <<system, tables, cycles, torn>>

(* A full table has given its oldest row away when the insert fails: the   *)
(* move is committed, the event is lost.                                   *)
WriteLost(w) ==
  /\ writer[w] = "second"
  /\ IsFull
  /\ history' = Append(history, current[Oldest].event)
  /\ current' = RemoveAt(current, Oldest)
  /\ writer' = [writer EXCEPT ![w] = "idle"]
  /\ UNCHANGED <<system, seq, logged, cycles, torn>>

(* The insert succeeds, the delete behind it does not, and db_unlock       *)
(* commits: rows are in both tables.                                       *)
WriteTorn(w) ==
  /\ torn < MaxTorn
  /\ torn' = torn + 1
  /\ \/ /\ writer[w] = "second" /\ IsFull
        /\ history' = Append(history, current[Oldest].event)
     \/ /\ writer[w] = "first" /\ current # <<>> /\ seq >= MaxSeq
        /\ history' = history \o Events(current)
  /\ writer' = [writer EXCEPT ![w] = "idle"]
  /\ UNCHANGED <<system, current, seq, logged, cycles>>

PowerFails ==
  /\ cycles < MaxCycles
  /\ cycles' = cycles + 1
  /\ system' = "check"
  /\ writer' = [w \in Writers |-> "idle"]
  /\ UNCHANGED <<tables, torn>>

-----------------------------------------------------------------------------
Writer(w) ==
  \/ Begin(w) \/ CheckHistory(w) \/ WriteToEmpty(w) \/ CheckSequence(w)
  \/ Write(w) \/ WriteFails(w) \/ WriteLost(w) \/ WriteTorn(w)

StoreNext ==
  \/ InitCheck \/ InitMove
  \/ \E w \in Writers : Writer(w)
  \/ PowerFails

StoreSpec == StoreInit /\ [][StoreNext]_storeVars

-----------------------------------------------------------------------------
StoreTypeOK ==
  /\ system \in {"check", "move", "up"}
  /\ writer \in [Writers -> {"idle", "check", "first", "second"}]
  /\ current \in Seq(Row) /\ Len(current) <= MaxCurrent
  /\ history \in Seq(1..MaxEvents)
  /\ seq \in 0..(MaxSeq + MaxEvents)
  /\ logged \in 0..MaxEvents
  /\ cycles \in 0..MaxCycles
  /\ torn \in 0..MaxTorn

(* What the two tables hold, the history first, is an unbroken run of the  *)
(* latest events: whatever daemons write at the same time, whenever the    *)
(* ids start again and the power fails, no event is in both tables, out of *)
(* order or missing between two others, as long as no statement list was   *)
(* committed half-way.                                                     *)
Contents == history \o Events(current)
LogIsSuffix ==
  torn = 0 =>
    \A i \in 1..Len(Contents) : Contents[i] = logged - Len(Contents) + i

(* The ids of the current table grow with the rows, so that the smallest   *)
(* rowid is the oldest event, after a reset of the sequence too.           *)
IdsFollowAge ==
  /\ \A i, j \in 1..Len(current) : i < j => current[i].id < current[j].id
  /\ \A i \in 1..Len(current) : current[i].id <= seq

(* However many writers find the history full, only one of them halves it: *)
(* the later half of the limit is never lost.                              *)
KeepsRecent ==
  Len(Contents) >= (IF logged < MaxHist \div 2 THEN logged ELSE MaxHist \div 2)

(* The test and the move are different transactions, so that the limit is  *)
(* overrun, but by no more than what every writer may move behind its test *)
(* and what the start moves.                                               *)
OverrunIsBounded ==
  Len(history) < MaxHist + Cardinality(Writers) + (MaxTorn + 1) * MaxCurrent

(* Both sides of the limit, for three daemons that test and move in        *)
(* different transactions (common_event.c:198-249).                        *)
HistoryKeepsItsLimit == KeepsRecent /\ OverrunIsBounded
=============================================================================
