------------------------------ MODULE IoBoards ------------------------------
(***************************************************************************)
(* The settings of the boards: what d-input and d-output do when a board   *)
(* is pulled or pushed and when a command changes a setting.               *)
(*                                                                         *)
(* Both daemons poll the identifiers of the boards from the FPGA and keep  *)
(* the settings of their boards in one table, TBL_IO_RUNTIME; each       *)
(* statement on the table is a transaction of its own.  Every daemon       *)
(* empties the row of a slot whose board is gone, whichever of them it     *)
(* belonged to.  A command copies the settings of a slot from the shared   *)
(* memory of the daemon, changes one field and sends the copy back.        *)
(*                                                                         *)
(* The settings of a board are the set of the commands whose change they   *)
(* contain: {} is the default, and each command changes a field of its     *)
(* own.  The common and the private part of the settings take the same     *)
(* way and are not told apart.                                             *)
(***************************************************************************)
EXTENDS Naturals, Sequences, FiniteSetsExt

CONSTANTS
  MaxSlot,      \* the slots of the frame
  MaxIn,        \* the slots that may hold an input board
  InKinds,      \* the identifiers of the boards of d-input
  OutKinds,     \* the identifiers of the boards of d-output
  NoBoard,      \* BID_NONE
  MaxChanges,   \* bound: how often a board is pulled or pushed
  MaxCommands,  \* bound: how many commands the operator gives
  MaxKills      \* bound: how often a daemon is ended

ASSUME IoBoardsAssumption ==
  /\ MaxSlot \in Nat \ {0} /\ MaxIn \in 1..MaxSlot
  /\ MaxChanges \in Nat /\ MaxCommands \in Nat /\ MaxKills \in Nat
  /\ InKinds \cap OutKinds = {} /\ NoBoard \notin InKinds \union OutKinds

Daemons == {"in", "out"}
Slots == 1..MaxSlot
Kinds == InKinds \union OutKinds \union {NoBoard}
Own(d) == IF d = "in" THEN InKinds ELSE OutKinds
SlotsOf(d) == 1..(IF d = "in" THEN MaxIn ELSE MaxSlot)
Other(d) == IF d = "in" THEN "out" ELSE "in"

Junk == 0                            \* what a read without a row leaves
Settings == SUBSET (0..MaxCommands)
Default == {}
Rows == [bid : Kinds, set : Settings]
Messages == [slot : Slots, bid : Kinds, set : Settings, alone : BOOLEAN]
Nobody == [daemon |-> "none"]

Points == {"off", "first", "bid", "msgs", "drain", "push", "copy", "read", "issue", "share"}

VARIABLES
  board,     \* the board in each slot (the registers FPGA_BID_S01_TO_S16)
  table,     \* TBL_IO_RUNTIME: the rows of each slot, in the order of insertion
  queue,     \* the message queue of each daemon
  notified,  \* notify_flag
  pc,        \* where the daemon is
  at,        \* the slot it handles or has handled last; 0 before the first
  message,   \* TRUE: the settings to issue come from a message
  power,     \* power_flag
  old,       \* oldBid
  bid,       \* inSta[].boardId, outSta[].boardId
  mem,       \* the settings in inSta, outSta
  reg,       \* what was last issued to the FPGA
  shown,     \* the shared memory
  asked,     \* the command that has read the shared memory and not yet sent
  commands, changes, kills,
  spoilt     \* a message for another board, or the other daemon, touched the slot

daemonVars == <<pc, at, message, power, old, bid, mem, reg, shown, notified>>
vars == <<board, table, queue, asked, commands, changes, kills, spoilt, daemonVars>>

----------------------------------------------------------------------------
(* The table of the settings.                                              *)

RowsFor(s, b) == {i \in DOMAIN table[s] : table[s][i].bid = b}
HasRow(s, b) == RowsFor(s, b) # {}
\* The settings a select finds: its last row.
RowOf(s, b) == table[s][Max(RowsFor(s, b))].set
\* Fault: the condition of the update meets no row.
NotUpdated(rows, b, set) == rows
Updated(rows, b, set) == [i \in DOMAIN rows |-> IF rows[i].bid = b THEN [rows[i] EXCEPT !.set = set] ELSE rows[i]]
\* ReadBidFromTable: the rows of a slot come in no order that is asked for.
BidsIn(s) == IF table[s] = <<>> THEN {NoBoard} ELSE {table[s][i].bid : i \in DOMAIN table[s]}

----------------------------------------------------------------------------
(* The start of a daemon, and its end.                                     *)

Init ==
  /\ board \in [Slots -> Kinds]
  /\ \A s \in Slots : s > MaxIn => board[s] \notin InKinds
  /\ table = [s \in Slots |-> <<[bid |-> NoBoard, set |-> Default]>>]
  /\ queue = [d \in Daemons |-> <<>>] /\ notified = [d \in Daemons |-> FALSE]
  /\ pc = [d \in Daemons |-> "off"] /\ at = [d \in Daemons |-> 0]
  /\ message = [d \in Daemons |-> FALSE] /\ power = [d \in Daemons |-> FALSE]
  /\ old = [d \in Daemons |-> [s \in Slots |-> NoBoard]] /\ bid = old
  /\ mem = [d \in Daemons |-> [s \in Slots |-> Default]] /\ reg = mem
  /\ shown = [d \in Daemons |-> [s \in Slots |-> [bid |-> NoBoard, set |-> Default]]]
  /\ asked = Nobody
  /\ commands = 0 /\ changes = 0 /\ kills = 0
  /\ spoilt = [d \in Daemons |-> [s \in Slots |-> FALSE]]

\* ReadBidFromTable: the boards of before the power went.
Start(d) ==
  /\ pc[d] = "off"
  /\ \E found \in [Slots -> Kinds] :
       /\ \A s \in Slots : found[s] \in IF s \in SlotsOf(d) THEN BidsIn(s) ELSE {NoBoard}
       /\ old' = [old EXCEPT ![d] = found]
  /\ pc' = [pc EXCEPT ![d] = "bid"]
  /\ power' = [power EXCEPT ![d] = TRUE]
  /\ UNCHANGED <<board, table, queue, at, message, bid, mem, reg, shown, notified, asked, commands, changes, kills, spoilt>>

\* The process is gone, with its memory.
Gone(d) ==
  /\ pc' = [pc EXCEPT ![d] = "off"] /\ at' = [at EXCEPT ![d] = 0]
  /\ message' = [message EXCEPT ![d] = FALSE] /\ power' = [power EXCEPT ![d] = FALSE]
  /\ notified' = [notified EXCEPT ![d] = FALSE]
  /\ old' = [old EXCEPT ![d] = [s \in Slots |-> NoBoard]]
  /\ bid' = [bid EXCEPT ![d] = [s \in Slots |-> NoBoard]]
  /\ mem' = [mem EXCEPT ![d] = [s \in Slots |-> Default]]

\* A daemon is ended or fails: the loop is left wherever it is.
Dies(d) ==
  /\ pc[d] # "off" /\ kills < MaxKills
  /\ kills' = kills + 1
  /\ Gone(d)
  /\ UNCHANGED <<board, table, queue, reg, shown, asked, commands, changes, spoilt>>

----------------------------------------------------------------------------
(* The loop.  d-output takes the messages first and reads the boards then, *)
(* d-input does it the other way round.                                    *)

BeginPush(d) == pc' = [pc EXCEPT ![d] = "push"]

\* ReadBidFromFpga
ReadBid(d) ==
  /\ pc[d] \in {"first", "bid"}
  /\ bid' = [bid EXCEPT ![d] = [s \in Slots |-> IF s \in SlotsOf(d) THEN board[s] ELSE NoBoard]]
  /\ IF d = "in" /\ ~power[d] THEN pc' = [pc EXCEPT ![d] = "msgs"] ELSE BeginPush(d)
  /\ UNCHANGED <<board, table, queue, at, message, power, old, mem, reg, shown, notified, asked, commands, changes, kills, spoilt>>

AfterMessages(d) == IF d = "in" THEN BeginPush(d) ELSE pc' = [pc EXCEPT ![d] = "bid"]

\* isNotify: without a signal the queue is not looked at.
Notify(d) ==
  /\ pc[d] = "msgs"
  /\ IF notified[d] THEN pc' = [pc EXCEPT ![d] = "drain"] ELSE AfterMessages(d)
  /\ notified' = [notified EXCEPT ![d] = FALSE]
  /\ UNCHANGED <<board, table, queue, at, message, power, old, bid, mem, reg, shown, asked, commands, changes, kills, spoilt>>

\* ReadMessageQueue until it is empty.
Drained(d) ==
  /\ pc[d] = "drain" /\ queue[d] = <<>>
  /\ AfterMessages(d)
  /\ UNCHANGED <<board, table, queue, at, message, power, old, bid, mem, reg, shown, notified, asked, commands, changes, kills, spoilt>>

\* Fault: the identifier is shown and not the settings.
BidShared(d, s, b, set) == [shown EXCEPT ![d][s].bid = b]
\* WriteConfigToShareMemory of one slot.
Shared(d, s, b, set) == [shown EXCEPT ![d][s] = [bid |-> b, set |-> set]]

\* sysInput, sysOutput up to IssueConfig: the settings go to the memory and
\* to the rows of the board the message names; d-output shows them at once.
Store(d) ==
  /\ pc[d] = "drain" /\ queue[d] # <<>>
  /\ LET m == Head(queue[d]) IN
       /\ mem' = [mem EXCEPT ![d][m.slot] = m.set]
       /\ table' = [table EXCEPT ![m.slot] = Updated(@, m.bid, m.set)]
       /\ shown' = IF d = "out" THEN Shared(d, m.slot, bid[d][m.slot], m.set) ELSE shown
       /\ spoilt' = [spoilt EXCEPT ![d][m.slot] = @ \/ m.bid # bid[d][m.slot]]
       /\ at' = [at EXCEPT ![d] = m.slot]
  /\ queue' = [queue EXCEPT ![d] = Tail(@)]
  /\ message' = [message EXCEPT ![d] = TRUE]
  /\ pc' = [pc EXCEPT ![d] = "issue"]
  /\ UNCHANGED <<board, power, old, bid, reg, notified, asked, commands, changes, kills>>

----------------------------------------------------------------------------
(* BoardPushPull: one slot after the other.                                *)

\* Fault: only a board in an empty slot counts as new.
PushedIntoEmpty(d, s) == bid[d][s] \in Own(d) /\ old[d][s] = NoBoard
Pushed(d, s) == bid[d][s] \in Own(d) /\ bid[d][s] # old[d][s]
Pulled(d, s) == bid[d][s] = NoBoard /\ old[d][s] # NoBoard
PoweredUp(d, s) == bid[d][s] \in Own(d) /\ bid[d][s] = old[d][s] /\ power[d]

\* The slots still to be handled.  The loop passes over the others: a board
\* of the other daemon, no board as before, the same board as before.
Due(d) == {s \in SlotsOf(d) : s > at[d] /\ (Pushed(d, s) \/ Pulled(d, s) \/ PoweredUp(d, s))}
Turn(d, s) == pc[d] = "push" /\ Due(d) # {} /\ s = Min(Due(d))
Handles(d, s) == Turn(d, s) /\ at' = [at EXCEPT ![d] = s]

\* EmptyConfig, in one transaction.
Empty(d) == \E s \in Slots :
  /\ Handles(d, s) /\ Pulled(d, s)
  /\ table' = [table EXCEPT ![s] = <<[bid |-> NoBoard, set |-> Default]>>]
  /\ shown' = IF d = "out" THEN Shared(d, s, NoBoard, mem[d][s]) ELSE shown
  /\ spoilt' = [spoilt EXCEPT ![Other(d)][s] = TRUE]
  /\ UNCHANGED <<board, queue, pc, message, power, old, bid, mem, reg, notified, asked, commands, changes, kills>>

\* DeleteConfig
Delete(d) == \E s \in Slots :
  /\ Handles(d, s) /\ Pushed(d, s)
  /\ table' = [table EXCEPT ![s] = <<>>]
  /\ spoilt' = [spoilt EXCEPT ![Other(d)][s] = TRUE]
  /\ pc' = [pc EXCEPT ![d] = "copy"]
  /\ UNCHANGED <<board, queue, message, power, old, bid, mem, reg, shown, notified, asked, commands, changes, kills>>

\* CopyConfig of the default settings.
Copy(d) ==
  /\ pc[d] = "copy"
  /\ table' = [table EXCEPT ![at[d]] = Append(@, [bid |-> bid[d][at[d]], set |-> Default])]
  /\ pc' = [pc EXCEPT ![d] = "read"]
  /\ UNCHANGED <<board, queue, at, message, power, old, bid, mem, reg, shown, notified, asked, commands, changes, kills, spoilt>>

\* ReadConfigFromRunTimeTable.  Without a row d-input leaves the loop;
\* d-output does not look whether there is one and reads what it finds in
\* the memory, or ends.
Loaded(d, s, set) ==
  /\ mem' = [mem EXCEPT ![d][s] = set]
  /\ shown' = IF d = "out" THEN Shared(d, s, bid[d][s], set) ELSE shown
  /\ spoilt' = [spoilt EXCEPT ![d][s] = ~HasRow(s, bid[d][s])]
  /\ pc' = [pc EXCEPT ![d] = "issue"]
  /\ UNCHANGED <<message, power, old, bid, notified, kills>>
Reads(d, s) == \/ pc[d] = "read" /\ s = at[d]
               \/ Turn(d, s) /\ PoweredUp(d, s)
Read(d) == \E s \in Slots :
  /\ Reads(d, s)
  /\ at' = [at EXCEPT ![d] = s]
  /\ IF HasRow(s, bid[d][s]) THEN Loaded(d, s, RowOf(s, bid[d][s]))
                             ELSE d = "out" /\ Loaded(d, s, {Junk})
  /\ UNCHANGED <<board, table, queue, reg, asked, commands, changes>>
ReadFails(d) ==
  /\ \E s \in Slots : Reads(d, s) /\ ~HasRow(s, bid[d][s])
  /\ Gone(d)
  /\ UNCHANGED <<board, table, queue, reg, shown, asked, commands, changes, kills, spoilt>>

\* IssueConfig, seconds after the settings were read or stored.  d-output
\* shows the slot once more.
Issue(d) ==
  /\ pc[d] = "issue"
  /\ reg' = [reg EXCEPT ![d][at[d]] = mem[d][at[d]]]
  /\ shown' = IF d = "out" THEN Shared(d, at[d], bid[d][at[d]], mem[d][at[d]]) ELSE shown
  /\ IF message[d] THEN pc' = [pc EXCEPT ![d] = "drain"] /\ at' = [at EXCEPT ![d] = 0]
                   ELSE BeginPush(d) /\ UNCHANGED at
  /\ message' = [message EXCEPT ![d] = FALSE]
  /\ UNCHANGED <<board, table, queue, power, old, bid, mem, notified, asked, commands, changes, kills, spoilt>>

\* CopyBid; the start of d-input ends here, a round goes on to its end.
EndPush(d) ==
  /\ pc[d] = "push" /\ Due(d) = {}
  /\ old' = [old EXCEPT ![d] = bid[d]]
  /\ power' = [power EXCEPT ![d] = FALSE]
  /\ at' = [at EXCEPT ![d] = 0]
  /\ pc' = [pc EXCEPT ![d] = IF d = "out" THEN "msgs" ELSE IF power[d] THEN "first" ELSE "share"]
  /\ UNCHANGED <<board, table, queue, message, bid, mem, reg, shown, notified, asked, commands, changes, kills, spoilt>>

\* d-input shows all its slots at the end of a round.
Share(d) ==
  /\ pc[d] = "share"
  /\ shown' = [shown EXCEPT ![d] = [s \in Slots |->
                 IF s \in SlotsOf(d) THEN [bid |-> bid[d][s], set |-> mem[d][s]] ELSE @[s]]]
  /\ pc' = [pc EXCEPT ![d] = "bid"]
  /\ UNCHANGED <<board, table, queue, at, message, power, old, bid, mem, reg, notified, asked, commands, changes, kills, spoilt>>

----------------------------------------------------------------------------
(* The boards and the operator.                                            *)

SwapBoard(s) ==
  /\ changes < MaxChanges
  /\ \E b \in Kinds \ {board[s]} :
       /\ b \in InKinds => s <= MaxIn
       /\ b = NoBoard \/ board[s] = NoBoard
       /\ board' = [board EXCEPT ![s] = b]
  /\ changes' = changes + 1
  /\ UNCHANGED <<table, queue, asked, commands, kills, spoilt, daemonVars>>

\* At the top of its loop with a round behind it.
Top(d) == pc[d] = (IF d = "in" THEN "bid" ELSE "msgs") /\ ~power[d]

\* A command reads the slot from the shared memory and changes its field.
Ask(d, s) ==
  /\ asked = Nobody /\ commands < MaxCommands
  /\ shown[d][s].bid \in Own(d)
  /\ asked' = [daemon |-> d, slot |-> s, bid |-> shown[d][s].bid,
               set |-> shown[d][s].set \union {commands + 1},
               alone |-> Top(d) /\ queue[d] = <<>> /\ ~spoilt[d][s]]
  /\ commands' = commands + 1
  /\ UNCHANGED <<board, table, queue, changes, kills, spoilt, daemonVars>>

\* MsgQ_Send and notify; the signal of a daemon that is down is lost.
Send ==
  /\ asked # Nobody
  /\ LET d == asked.daemon IN
       /\ queue' = [queue EXCEPT ![d] = Append(@, [slot |-> asked.slot, bid |-> asked.bid,
                                                     set |-> asked.set, alone |-> asked.alone])]
       /\ notified' = [notified EXCEPT ![d] = pc[d] # "off"]
  /\ asked' = Nobody
  /\ UNCHANGED <<board, table, commands, changes, kills, spoilt, pc, at, message, power, old, bid, mem, reg, shown>>

----------------------------------------------------------------------------
Daemon(d) == \/ Start(d) \/ ReadBid(d) \/ Notify(d) \/ Drained(d) \/ Store(d)
             \/ Empty(d) \/ Delete(d) \/ Copy(d) \/ Read(d) \/ ReadFails(d) \/ Issue(d)
             \/ EndPush(d) \/ Share(d)

Next == \/ \E d \in Daemons : Daemon(d) \/ Dies(d)
        \/ \E s \in Slots : SwapBoard(s)
        \/ \E d \in Daemons, s \in Slots : Ask(d, s)
        \/ Send

\* The daemons run, and the manager starts them again (Supervisor).
Fairness == \A d \in Daemons : WF_vars(Daemon(d))
Spec == Init /\ [][Next]_vars /\ Fairness

----------------------------------------------------------------------------
(* What holds.                                                             *)

\* The values each variable takes.
TypeOK ==
  /\ board \in [Slots -> Kinds] /\ table \in [Slots -> Seq(Rows)]
  /\ queue \in [Daemons -> Seq(Messages)]
  /\ notified \in [Daemons -> BOOLEAN] /\ pc \in [Daemons -> Points]
  /\ at \in [Daemons -> 0..MaxSlot]
  /\ message \in [Daemons -> BOOLEAN] /\ power \in [Daemons -> BOOLEAN]
  /\ old \in [Daemons -> [Slots -> Kinds]] /\ bid \in [Daemons -> [Slots -> Kinds]]
  /\ mem \in [Daemons -> [Slots -> Settings]] /\ reg \in [Daemons -> [Slots -> Settings]]
  /\ shown \in [Daemons -> [Slots -> Rows]]
  /\ asked = Nobody \/ asked \in [daemon : Daemons, slot : Slots, bid : Kinds, set : Settings, alone : BOOLEAN]
  /\ commands \in 0..MaxCommands /\ changes \in 0..MaxChanges /\ kills \in 0..MaxKills
  /\ spoilt \in [Daemons -> [Slots -> BOOLEAN]]

\* At the top of the loop the four copies of the settings of a board agree:
\* what BoardPushPull and the messages changed was issued and is shown, and
\* the table holds it for the next start.  Only behind a message meant for
\* another board, and behind a pull the other daemon acted on, the table
\* does not.
FourCopiesAgree ==
  \A d \in Daemons : Top(d) => \A s \in SlotsOf(d) : bid[d][s] \in Own(d) =>
    /\ mem[d][s] = reg[d][s]
    /\ shown[d][s] = [bid |-> bid[d][s], set |-> mem[d][s]]
    /\ ~spoilt[d][s] => HasRow(s, bid[d][s]) /\ RowOf(s, bid[d][s]) = mem[d][s]

\* A command that read the settings while no other was on its way, and while
\* the copies agreed, undoes none of them, whatever boards and daemons came
\* and went before it is handled: the reason the comment of sysOutput gives
\* for showing the settings at once.
OthersAreKept ==
  \A d \in Daemons : pc[d] = "drain" /\ queue[d] # <<>> =>
    LET m == Head(queue[d]) IN m.alone => mem[d][m.slot] \ {Junk} \subseteq m.set

\* Once the boards stay and nobody ends the daemons, every board is served:
\* its daemon shows it, with the settings the FPGA has, whatever the two
\* daemons did to each other's rows meanwhile.
ServedBy(d, s) == /\ shown[d][s].bid = board[s] /\ bid[d][s] = board[s]
                  /\ reg[d][s] = mem[d][s]
BoardsAreServed ==
  \A d \in Daemons : \A s \in SlotsOf(d) : <>[](board[s] \in Own(d) => ServedBy(d, s))

=============================================================================
