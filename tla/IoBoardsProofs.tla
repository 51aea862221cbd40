---------------------------- MODULE IoBoardsProofs ----------------------------
(***************************************************************************)
(* Proofs about IoBoards for every number of slots, all kinds of boards    *)
(* and every number of commands, exchanges and restarts: the copies of the *)
(* settings agree at the top of the loop, and no command undoes another.   *)
(* The invariant follows a slot through the pass over the boards: which    *)
(* slots a daemon has handled in this pass, what the table holds of its    *)
(* own kinds while the other daemon empties the same rows, and what every  *)
(* waiting message contains.                                               *)
(***************************************************************************)
EXTENDS IoBoards, SequenceTheorems, WellFoundedInduction, TLAPS

-----------------------------------------------------------------------------
(* The inductive invariant.                                                *)

(* The places of the rows of a slot that are of the daemon's kinds.        *)
OwnRows(d, s) == {i \in DOMAIN table[s] : table[s][i].bid \in Own(d)}

(* No slot has two of them, and none between the statements that delete    *)
(* the rows and copy the default settings.                                 *)
OneOwnRow ==
  \A d \in Daemons :
    /\ \A s \in Slots : \A i, j \in OwnRows(d, s) : i = j
    /\ \A s \in Slots : pc[d] = "copy" /\ at[d] = s => OwnRows(d, s) = {}

(* A pass over the boards is going on.                                     *)
InPush(d) == pc[d] \in {"push", "copy", "read"} \/ (pc[d] = "issue" /\ ~message[d])

(* Where the daemon is, and which of its memories of the boards agree.     *)
PlacedAt(d) ==
  /\ at[d] # 0 => InPush(d) \/ pc[d] = "issue"
  /\ pc[d] = "issue" => at[d] \in Slots
  /\ pc[d] \in {"copy", "read"} =>
       /\ at[d] \in SlotsOf(d) /\ bid[d][at[d]] \in Own(d)
       /\ old[d][at[d]] # bid[d][at[d]]
  /\ message[d] => pc[d] = "issue" /\ ~power[d]
  /\ pc[d] = "off" => \A s \in Slots : bid[d][s] = NoBoard
  /\ pc[d] \in {"msgs", "drain", "share", "first"} => ~power[d]
  /\ pc[d] = "share" => d = "in"
  /\ /\ ~power[d]
     /\ \/ pc[d] \in {"first", "bid", "share"}
        \/ d = "out" /\ (pc[d] \in {"msgs", "drain"} \/ message[d])
     => \A s \in Slots : old[d][s] = bid[d][s]
Placed == \A d \in Daemons : PlacedAt(d)

(* The pass over the boards, the one before or this one, has served the    *)
(* board that is there.                                                    *)
Handled(d, s) ==
  \/ old[d][s] = bid[d][s] /\ ~power[d]
  \/ InPush(d) /\ (s < at[d] \/ (s = at[d] /\ pc[d] \in {"push", "issue"}))

(* A board that was served has its settings in all places.                 *)
RowServes(d, s) == ~spoilt[d][s] => HasRow(s, bid[d][s]) /\ RowOf(s, bid[d][s]) = mem[d][s]
Served(d, s) ==
  /\ ~(pc[d] = "issue" /\ at[d] = s) => mem[d][s] = reg[d][s]
  /\ d = "out" => shown[d][s] = [bid |-> bid[d][s], set |-> mem[d][s]]
  /\ RowServes(d, s)
HandledAreServed ==
  \A d \in Daemons : \A s \in SlotsOf(d) :
    bid[d][s] \in Own(d) /\ Handled(d, s) => Served(d, s)

(* What the shared memory shows: of d-input at the end of a round, of      *)
(* d-output at any time.                                                   *)
ShownIn ==
  /\ \A s \in Slots \ SlotsOf("in") : shown["in"][s].bid = NoBoard
  /\ pc["in"] = "bid" /\ ~power["in"] =>
       \A s \in SlotsOf("in") : shown["in"][s] = [bid |-> bid["in"][s], set |-> mem["in"][s]]
WithinShown(s) == mem["out"][s] \in {Default, shown["out"][s].set}
Covered(s) ==
  shown["out"][s].bid \in Own("out") /\ ~spoilt["out"][s] =>
    \A i \in OwnRows("out", s) : table[s][i].set \subseteq shown["out"][s].set
ShownOut == \A s \in Slots : WithinShown(s) /\ Covered(s)

(* Messages are for boards of the daemon that gets them.  One that was     *)
(* given alone stays the first, and contains what the memory and the table *)
(* have of the slot.                                                       *)
Contains(d, m) ==
  /\ mem[d][m.slot] \ {Junk} \subseteq m.set
  /\ \A i \in OwnRows(d, m.slot) : table[m.slot][i].set \subseteq m.set
AskedIsSound ==
  asked # Nobody =>
    /\ asked.bid \in Own(asked.daemon)
    /\ asked.alone => queue[asked.daemon] = <<>> /\ Contains(asked.daemon, asked)
QueueIsSound ==
  \A d \in Daemons : \A i \in 1..Len(queue[d]) :
    /\ queue[d][i].bid \in Own(d)
    /\ queue[d][i].alone => i = 1 /\ Contains(d, queue[d][i])

IInv ==
  /\ TypeOK
  /\ OneOwnRow /\ Placed /\ HandledAreServed
  /\ ShownIn /\ ShownOut
  /\ AskedIsSound /\ QueueIsSound
-----------------------------------------------------------------------------
(* Constants, places and rows.                                             *)

LEMMA Constants ==
  /\ MaxSlot \in Nat \ {0} /\ MaxIn \in 1..MaxSlot
  /\ MaxChanges \in Nat /\ MaxCommands \in Nat /\ MaxKills \in Nat
BY IoBoardsAssumption DEF IoBoardsAssumption

LEMMA SlotsAreNumbers ==
  /\ Slots \subseteq Nat /\ Slots \subseteq 0..MaxSlot /\ 0 \notin Slots
  /\ SlotsOf("out") = Slots
  /\ \A d \in Daemons : SlotsOf(d) \subseteq Slots
BY Constants DEF Slots, SlotsOf, Daemons

LEMMA SlotIsNumber ==
  ASSUME NEW d \in Daemons, NEW s \in SlotsOf(d) PROVE s \in Slots /\ s \in Nat /\ s # 0
<1>1. s \in Slots
  BY SlotsAreNumbers
<1>. QED
  BY <1>1, SlotsAreNumbers

LEMMA PlaceIsNumber ==
  ASSUME TypeOK, NEW d \in Daemons PROVE at[d] \in Nat
<1>1. at[d] \in 0..MaxSlot
  BY DEF TypeOK
<1>. QED
  BY <1>1, Constants

LEMMA KindsAreApart ==
  /\ NoBoard \in Kinds
  /\ \A d \in Daemons : Own(d) \subseteq Kinds /\ NoBoard \notin Own(d)
  /\ \A d, e \in Daemons : d # e => Own(d) \cap Own(e) = {}
BY IoBoardsAssumption DEF IoBoardsAssumption, Kinds, Own, Daemons

LEMMA SettingsGiven == Default \in Settings /\ {Junk} \in Settings
BY Constants DEF Default, Settings, Junk

(* A set of natural numbers has a least element.                           *)
LEMMA LeastNat ==
  ASSUME NEW S, S \subseteq Nat, S # {}
  PROVE  \E m \in S : \A j \in S : m <= j
<1>1. PICK m \in S : \A j \in S : ~(<<j, m>> \in OpToRel(<, Nat))
  BY NatLessThanWellFounded, WFMin
<1>2. ASSUME NEW j \in S PROVE m <= j
  <2>1. m \in Nat /\ j \in Nat
    OBVIOUS
  <2>2. ~(j < m)
    BY <1>1, <2>1 DEF OpToRel
  <2>. QED
    BY <2>1, <2>2
<1>. QED
  BY <1>2

(* The pass goes to the next slot there is something to do for.            *)
LEMMA NextDue ==
  ASSUME TypeOK, NEW d \in Daemons, NEW s, Turn(d, s)
  PROVE  /\ s \in SlotsOf(d) /\ s \in Slots /\ s > at[d] /\ pc[d] = "push"
         /\ Pushed(d, s) \/ Pulled(d, s) \/ PoweredUp(d, s)
         /\ \A k \in SlotsOf(d) : at[d] < k /\ k < s =>
              ~Pushed(d, k) /\ ~Pulled(d, k) /\ ~PoweredUp(d, k)
<1>1. Due(d) \subseteq Nat /\ Due(d) # {} /\ s = Min(Due(d)) /\ pc[d] = "push"
  BY SlotsAreNumbers DEF Turn, Due
<1>2. \E m \in Due(d) : \A j \in Due(d) : m <= j
  BY <1>1, LeastNat
<1>3. s \in Due(d) /\ \A j \in Due(d) : s <= j
  BY <1>1, <1>2 DEF Min
<1>4. \A k \in Due(d) : ~(k < s)
  BY <1>1, <1>3
<1>5. s \in SlotsOf(d) /\ s > at[d] /\ (Pushed(d, s) \/ Pulled(d, s) \/ PoweredUp(d, s))
  BY <1>3 DEF Due
<1>6. ASSUME NEW k \in SlotsOf(d), at[d] < k, k < s
      PROVE  ~Pushed(d, k) /\ ~Pulled(d, k) /\ ~PoweredUp(d, k)
  <2>1. k \notin Due(d)
    BY <1>4, <1>6
  <2>2. k > at[d]
    BY <1>6, SlotsAreNumbers DEF TypeOK
  <2>. QED
    BY <2>1, <2>2 DEF Due
<1>. QED
  BY <1>1, <1>5, <1>6, SlotsAreNumbers

LEMMA RowsAreRecords ==
  ASSUME TypeOK, NEW s \in Slots, NEW i \in DOMAIN table[s]
  PROVE  /\ table[s][i] \in Rows /\ table[s][i].bid \in Kinds /\ table[s][i].set \in Settings
         /\ i \in Nat /\ table[s] \in Seq(Rows)
<1>1. table[s] \in Seq(Rows)
  BY DEF TypeOK
<1>2. table[s][i] \in Rows /\ i \in Nat
  BY <1>1
<1>. QED
  BY <1>1, <1>2 DEF Rows

(* The row a select finds is the only one of the daemon's kinds.           *)
LEMMA TheOwnRow ==
  ASSUME TypeOK, OneOwnRow, NEW d \in Daemons, NEW s \in Slots, NEW b \in Own(d), HasRow(s, b)
  PROVE  \E i \in DOMAIN table[s] :
           /\ OwnRows(d, s) = {i}
           /\ table[s][i].bid = b /\ table[s][i].set = RowOf(s, b)
           /\ RowOf(s, b) \in Settings
<1>1. PICK i \in RowsFor(s, b) : TRUE
  BY DEF HasRow
<1>2. i \in OwnRows(d, s) /\ i \in DOMAIN table[s] /\ table[s][i].bid = b
  BY <1>1 DEF RowsFor, OwnRows
<1>3. OwnRows(d, s) = {i}
  BY <1>2 DEF OneOwnRow
<1>4. RowsFor(s, b) = {i}
  BY <1>1, <1>3 DEF RowsFor, OwnRows
<1>5. Max({i}) = i
  <2>1. i \in Nat
    BY <1>2, RowsAreRecords
  <2>. QED
    BY <2>1 DEF Max
<1>6. RowOf(s, b) = table[s][i].set
  BY <1>4, <1>5 DEF RowOf
<1>. QED
  BY <1>2, <1>3, <1>6, RowsAreRecords

LEMMA HeadMessage ==
  ASSUME TypeOK, NEW d \in Daemons, queue[d] # <<>>
  PROVE  /\ Head(queue[d]) \in Messages /\ Head(queue[d]) = queue[d][1]
         /\ Len(queue[d]) \in Nat \ {0} /\ 1 \in 1..Len(queue[d])
         /\ Tail(queue[d]) \in Seq(Messages) /\ Len(Tail(queue[d])) = Len(queue[d]) - 1
         /\ \A i \in 1..Len(Tail(queue[d])) :
              /\ i + 1 \in 1..Len(queue[d])
              /\ Tail(queue[d])[i] = queue[d][i + 1]
<1>1. queue[d] \in Seq(Messages)
  BY DEF TypeOK
<1>. QED
  BY <1>1, HeadTailProperties

LEMMA UpdatedRows ==
  ASSUME NEW rows \in Seq(Rows), NEW b, NEW set \in Settings
  PROVE  /\ Updated(rows, b, set) \in Seq(Rows)
         /\ DOMAIN Updated(rows, b, set) = DOMAIN rows
         /\ \A i \in DOMAIN rows :
              /\ Updated(rows, b, set)[i].bid = rows[i].bid
              /\ Updated(rows, b, set)[i].set = IF rows[i].bid = b THEN set ELSE rows[i].set
<1>1. \A i \in DOMAIN rows : rows[i] \in Rows
  OBVIOUS
<1>2. \A i \in DOMAIN rows :
        (IF rows[i].bid = b THEN [rows[i] EXCEPT !.set = set] ELSE rows[i]) \in Rows
  BY <1>1 DEF Rows
<1>3. DOMAIN rows = 1..Len(rows) /\ Len(rows) \in Nat
  OBVIOUS
<1>4. Updated(rows, b, set) \in [1..Len(rows) -> Rows]
  BY <1>2, <1>3 DEF Updated
<1>5. Updated(rows, b, set) \in Seq(Rows)
  BY <1>3, <1>4
<1>6. \A i \in DOMAIN rows :
              /\ Updated(rows, b, set)[i].bid = rows[i].bid
              /\ Updated(rows, b, set)[i].set = IF rows[i].bid = b THEN set ELSE rows[i].set
  BY <1>1 DEF Updated, Rows
<1>. QED
  BY <1>5, <1>6 DEF Updated
-----------------------------------------------------------------------------
(* Types.                                                                  *)

LEMMA InitTypes == Init => TypeOK
<1>. SUFFICES ASSUME Init PROVE TypeOK
  OBVIOUS
<1>1. /\ board \in [Slots -> Kinds]
      /\ notified \in [Daemons -> BOOLEAN] /\ pc \in [Daemons -> Points]
      /\ at \in [Daemons -> 0..MaxSlot]
      /\ message \in [Daemons -> BOOLEAN] /\ power \in [Daemons -> BOOLEAN]
      /\ spoilt \in [Daemons -> [Slots -> BOOLEAN]]
  BY Constants DEF Init, Points
<1>2. [bid |-> NoBoard, set |-> Default] \in Rows
  BY KindsAreApart, SettingsGiven DEF Rows
<1>3. table \in [Slots -> Seq(Rows)]
  <2>1. <<[bid |-> NoBoard, set |-> Default]>> \in Seq(Rows)
    BY <1>2
  <2>. QED
    BY <2>1 DEF Init
<1>4. queue \in [Daemons -> Seq(Messages)]
  BY DEF Init
<1>5. old \in [Daemons -> [Slots -> Kinds]] /\ bid \in [Daemons -> [Slots -> Kinds]]
  BY KindsAreApart DEF Init
<1>6. mem \in [Daemons -> [Slots -> Settings]] /\ reg \in [Daemons -> [Slots -> Settings]]
  BY SettingsGiven DEF Init
<1>7. shown \in [Daemons -> [Slots -> Rows]]
  BY <1>2 DEF Init
<1>8. asked = Nobody /\ commands \in 0..MaxCommands /\ changes \in 0..MaxChanges
      /\ kills \in 0..MaxKills
  BY Constants DEF Init
<1>. QED
  BY <1>1, <1>3, <1>4, <1>5, <1>6, <1>7, <1>8 DEF TypeOK

LEMMA GoneTypes ==
  ASSUME TypeOK, NEW d \in Daemons, Gone(d)
  PROVE  /\ pc' \in [Daemons -> Points] /\ at' \in [Daemons -> 0..MaxSlot]
         /\ message' \in [Daemons -> BOOLEAN] /\ power' \in [Daemons -> BOOLEAN]
         /\ notified' \in [Daemons -> BOOLEAN]
         /\ old' \in [Daemons -> [Slots -> Kinds]] /\ bid' \in [Daemons -> [Slots -> Kinds]]
         /\ mem' \in [Daemons -> [Slots -> Settings]]
<1>1. /\ [s \in Slots |-> NoBoard] \in [Slots -> Kinds]
      /\ [s \in Slots |-> Default] \in [Slots -> Settings]
  BY KindsAreApart, SettingsGiven
<1>2. pc' \in [Daemons -> Points] /\ at' \in [Daemons -> 0..MaxSlot]
  BY Constants DEF Gone, TypeOK, Points
<1>3. /\ message' \in [Daemons -> BOOLEAN] /\ power' \in [Daemons -> BOOLEAN]
      /\ notified' \in [Daemons -> BOOLEAN]
  BY DEF Gone, TypeOK
<1>4. old' \in [Daemons -> [Slots -> Kinds]] /\ bid' \in [Daemons -> [Slots -> Kinds]]
  BY <1>1 DEF Gone, TypeOK
<1>5. mem' \in [Daemons -> [Slots -> Settings]]
  BY <1>1 DEF Gone, TypeOK
<1>. QED
  BY <1>2, <1>3, <1>4, <1>5

(* What is shown of one slot.                                              *)
LEMMA SharedTypes ==
  ASSUME TypeOK, NEW d \in Daemons, NEW s \in Slots, NEW b \in Kinds, NEW set \in Settings
  PROVE  /\ Shared(d, s, b, set) \in [Daemons -> [Slots -> Rows]]
         /\ \A e \in Daemons, k \in Slots :
              Shared(d, s, b, set)[e][k] =
                IF e = d /\ k = s THEN [bid |-> b, set |-> set] ELSE shown[e][k]
<1>1. [bid |-> b, set |-> set] \in Rows
  BY DEF Rows
<1>2. shown \in [Daemons -> [Slots -> Rows]]
  BY DEF TypeOK
<1>. QED
  BY <1>1, <1>2 DEF Shared

(* A pass loads the settings of a slot.                                    *)
LEMMA LoadedTypes ==
  ASSUME TypeOK, NEW d \in Daemons, NEW s \in Slots, NEW set \in Settings, Loaded(d, s, set)
  PROVE  /\ mem' \in [Daemons -> [Slots -> Settings]]
         /\ shown' \in [Daemons -> [Slots -> Rows]]
         /\ spoilt' \in [Daemons -> [Slots -> BOOLEAN]]
         /\ pc' \in [Daemons -> Points]
<1>1. mem' \in [Daemons -> [Slots -> Settings]]
  BY DEF Loaded, TypeOK
<1>2. bid[d][s] \in Kinds
  BY DEF TypeOK
<1>3. shown' \in [Daemons -> [Slots -> Rows]]
  BY <1>2, SharedTypes DEF Loaded, TypeOK
<1>4. spoilt' \in [Daemons -> [Slots -> BOOLEAN]]
  <2>1. HasRow(s, bid[d][s]) \in BOOLEAN
    BY DEF HasRow
  <2>. QED
    BY <2>1 DEF Loaded, TypeOK
<1>5. pc' \in [Daemons -> Points]
  BY DEF Loaded, TypeOK, Points
<1>. QED
  BY <1>1, <1>3, <1>4, <1>5

(* The board that is read for is one of the daemon's.                      *)
LEMMA ReadsOwn ==
  ASSUME TypeOK, Placed, NEW d \in Daemons, NEW s \in Slots, Reads(d, s)
  PROVE  bid[d][s] \in Own(d) /\ s \in SlotsOf(d)
BY NextDue DEF Reads, Placed, PlacedAt, PoweredUp

LEMMA TypeStep == IInv /\ [Next]_vars => TypeOK'
<1>. SUFFICES ASSUME IInv, [Next]_vars PROVE TypeOK'
  OBVIOUS
<1>. USE Constants, SlotsAreNumbers
<1>0. TypeOK /\ OneOwnRow /\ Placed
  BY DEF IInv
<1>1. ASSUME NEW d \in Daemons, Start(d) PROVE TypeOK'
  BY <1>0, <1>1 DEF Start, TypeOK, Points
<1>2. ASSUME NEW d \in Daemons, ReadBid(d) PROVE TypeOK'
  <2>1. [s \in Slots |-> IF s \in SlotsOf(d) THEN board[s] ELSE NoBoard] \in [Slots -> Kinds]
    BY <1>0, KindsAreApart DEF TypeOK
  <2>2. bid' \in [Daemons -> [Slots -> Kinds]]
    BY <1>0, <1>2, <2>1 DEF ReadBid, TypeOK
  <2>3. pc' \in [Daemons -> Points]
    <3>1. pc' = [pc EXCEPT ![d] = "msgs"] \/ pc' = [pc EXCEPT ![d] = "push"]
      BY <1>2 DEF ReadBid, BeginPush
    <3>. QED
      BY <1>0, <3>1 DEF TypeOK, Points
  <2>. QED
    BY <1>0, <1>2, <2>2, <2>3 DEF ReadBid, TypeOK
<1>3. ASSUME NEW d \in Daemons, Notify(d) PROVE TypeOK'
  <2>1. pc' \in [Daemons -> Points]
    <3>1. pc' = [pc EXCEPT ![d] = "bid"] \/ pc' = [pc EXCEPT ![d] = "push"]
          \/ pc' = [pc EXCEPT ![d] = "drain"]
      BY <1>3 DEF Notify, AfterMessages, BeginPush
    <3>. QED
      BY <1>0, <3>1 DEF TypeOK, Points
  <2>2. notified' \in [Daemons -> BOOLEAN]
    BY <1>0, <1>3 DEF Notify, TypeOK
  <2>. QED
    BY <1>0, <1>3, <2>1, <2>2 DEF Notify, TypeOK
<1>4. ASSUME NEW d \in Daemons, Drained(d) PROVE TypeOK'
  <2>1. pc' \in [Daemons -> Points]
    <3>1. pc' = [pc EXCEPT ![d] = "bid"] \/ pc' = [pc EXCEPT ![d] = "push"]
      BY <1>4 DEF Drained, AfterMessages, BeginPush
    <3>. QED
      BY <1>0, <3>1 DEF TypeOK, Points
  <2>. QED
    BY <1>0, <1>4, <2>1 DEF Drained, TypeOK
<1>5. ASSUME NEW d \in Daemons, Store(d) PROVE TypeOK'
  <2>. DEFINE m == Head(queue[d])
  <2>1. m \in Messages /\ Tail(queue[d]) \in Seq(Messages)
    BY <1>0, <1>5, HeadMessage DEF Store
  <2>2. /\ mem' = [mem EXCEPT ![d][m.slot] = m.set]
        /\ table' = [table EXCEPT ![m.slot] = Updated(@, m.bid, m.set)]
        /\ shown' = IF d = "out" THEN Shared(d, m.slot, bid[d][m.slot], m.set) ELSE shown
        /\ spoilt' = [spoilt EXCEPT ![d][m.slot] = @ \/ m.bid # bid[d][m.slot]]
        /\ at' = [at EXCEPT ![d] = m.slot]
        /\ queue' = [queue EXCEPT ![d] = Tail(@)]
        /\ message' = [message EXCEPT ![d] = TRUE]
        /\ pc' = [pc EXCEPT ![d] = "issue"]
        /\ UNCHANGED <<board, power, old, bid, reg, notified, asked, commands, changes, kills>>
    BY <1>5 DEF Store
  <2>. HIDE DEF m
  <2>3. m.slot \in Slots /\ m.set \in Settings
    BY <2>1 DEF Messages
  <2>4. mem' \in [Daemons -> [Slots -> Settings]]
    BY <1>0, <2>2, <2>3 DEF TypeOK
  <2>5. table' \in [Slots -> Seq(Rows)]
    <3>1. Updated(table[m.slot], m.bid, m.set) \in Seq(Rows)
      BY <1>0, <2>3, UpdatedRows DEF TypeOK
    <3>. QED
      BY <1>0, <2>2, <2>3, <3>1 DEF TypeOK
  <2>6. shown' \in [Daemons -> [Slots -> Rows]]
    <3>1. bid[d] \in [Slots -> Kinds] /\ shown \in [Daemons -> [Slots -> Rows]]
      BY <1>0 DEF TypeOK
    <3>2. bid[d][m.slot] \in Kinds
      BY <2>3, <3>1
    <3>3. Shared(d, m.slot, bid[d][m.slot], m.set) \in [Daemons -> [Slots -> Rows]]
      <4>1. \A k \in Slots, b \in Kinds, x \in Settings :
              Shared(d, k, b, x) \in [Daemons -> [Slots -> Rows]]
        BY <1>0, SharedTypes
      <4>. QED
        BY <2>3, <3>2, <4>1
    <3>4. CASE d = "out"
      BY <2>2, <3>3, <3>4
    <3>5. CASE d # "out"
      BY <2>2, <3>1, <3>5
    <3>. QED
      BY <3>4, <3>5
  <2>7. spoilt' \in [Daemons -> [Slots -> BOOLEAN]]
    BY <1>0, <2>2, <2>3 DEF TypeOK
  <2>8. at' \in [Daemons -> 0..MaxSlot]
    BY <1>0, <2>2, <2>3 DEF TypeOK
  <2>9. queue' \in [Daemons -> Seq(Messages)]
    BY <1>0, <2>1, <2>2 DEF TypeOK
  <2>10. message' \in [Daemons -> BOOLEAN] /\ pc' \in [Daemons -> Points]
    BY <1>0, <2>2 DEF TypeOK, Points
  <2>. QED
    BY <1>0, <2>2, <2>4, <2>5, <2>6, <2>7, <2>8, <2>9, <2>10 DEF TypeOK
<1>6. ASSUME NEW d \in Daemons, Empty(d) PROVE TypeOK'
  <2>1. PICK s \in Slots :
          /\ at' = [at EXCEPT ![d] = s]
          /\ table' = [table EXCEPT ![s] = <<[bid |-> NoBoard, set |-> Default]>>]
          /\ shown' = IF d = "out" THEN Shared(d, s, NoBoard, mem[d][s]) ELSE shown
          /\ spoilt' = [spoilt EXCEPT ![Other(d)][s] = TRUE]
          /\ UNCHANGED <<board, queue, pc, message, power, old, bid, mem, reg, notified, asked,
                         commands, changes, kills>>
    BY <1>6 DEF Empty, Handles
  <2>2. <<[bid |-> NoBoard, set |-> Default]>> \in Seq(Rows)
    <3>1. [bid |-> NoBoard, set |-> Default] \in Rows
      BY KindsAreApart, SettingsGiven DEF Rows
    <3>. QED
      BY <3>1
  <2>3. table' \in [Slots -> Seq(Rows)]
    BY <1>0, <2>1, <2>2 DEF TypeOK
  <2>4. shown' \in [Daemons -> [Slots -> Rows]]
    <3>1. mem[d][s] \in Settings
      BY <1>0 DEF TypeOK
    <3>. QED
      BY <1>0, <2>1, <3>1, KindsAreApart, SharedTypes DEF TypeOK
  <2>5. spoilt' \in [Daemons -> [Slots -> BOOLEAN]] /\ at' \in [Daemons -> 0..MaxSlot]
    BY <1>0, <2>1 DEF TypeOK, Other, Daemons
  <2>. QED
    BY <1>0, <2>1, <2>3, <2>4, <2>5 DEF TypeOK
<1>7. ASSUME NEW d \in Daemons, Delete(d) PROVE TypeOK'
  <2>1. PICK s \in Slots :
          /\ at' = [at EXCEPT ![d] = s]
          /\ table' = [table EXCEPT ![s] = <<>>]
          /\ spoilt' = [spoilt EXCEPT ![Other(d)][s] = TRUE]
          /\ pc' = [pc EXCEPT ![d] = "copy"]
          /\ UNCHANGED <<board, queue, message, power, old, bid, mem, reg, shown, notified, asked,
                         commands, changes, kills>>
    BY <1>7 DEF Delete, Handles
  <2>2. table' \in [Slots -> Seq(Rows)]
    BY <1>0, <2>1 DEF TypeOK
  <2>3. spoilt' \in [Daemons -> [Slots -> BOOLEAN]] /\ at' \in [Daemons -> 0..MaxSlot]
    BY <1>0, <2>1 DEF TypeOK, Other, Daemons
  <2>4. pc' \in [Daemons -> Points]
    BY <1>0, <2>1 DEF TypeOK, Points
  <2>. QED
    BY <1>0, <2>1, <2>2, <2>3, <2>4 DEF TypeOK
<1>8. ASSUME NEW d \in Daemons, Copy(d) PROVE TypeOK'
  <2>1. at[d] \in Slots /\ bid[d][at[d]] \in Kinds
    BY <1>0, <1>8 DEF Copy, Placed, PlacedAt, TypeOK
  <2>2. Append(table[at[d]], [bid |-> bid[d][at[d]], set |-> Default]) \in Seq(Rows)
    <3>1. [bid |-> bid[d][at[d]], set |-> Default] \in Rows /\ table[at[d]] \in Seq(Rows)
      BY <1>0, <2>1, SettingsGiven DEF Rows, TypeOK
    <3>. QED
      BY <3>1
  <2>3. table' \in [Slots -> Seq(Rows)]
    BY <1>0, <1>8, <2>1, <2>2 DEF Copy, TypeOK
  <2>4. pc' \in [Daemons -> Points]
    BY <1>0, <1>8 DEF Copy, TypeOK, Points
  <2>. QED
    BY <1>0, <1>8, <2>3, <2>4 DEF Copy, TypeOK
<1>9. ASSUME NEW d \in Daemons, Read(d) PROVE TypeOK'
  <2>1. PICK s \in Slots :
          /\ Reads(d, s) /\ at' = [at EXCEPT ![d] = s]
          /\ IF HasRow(s, bid[d][s]) THEN Loaded(d, s, RowOf(s, bid[d][s]))
                                     ELSE d = "out" /\ Loaded(d, s, {Junk})
          /\ UNCHANGED <<board, table, queue, reg, asked, commands, changes>>
    BY <1>9 DEF Read
  <2>2. \E set \in Settings : Loaded(d, s, set)
    <3>1. HasRow(s, bid[d][s]) => RowOf(s, bid[d][s]) \in Settings
      BY <1>0, <2>1, ReadsOwn, TheOwnRow
    <3>. QED
      BY <2>1, <3>1, SettingsGiven
  <2>3. /\ mem' \in [Daemons -> [Slots -> Settings]]
        /\ shown' \in [Daemons -> [Slots -> Rows]]
        /\ spoilt' \in [Daemons -> [Slots -> BOOLEAN]]
        /\ pc' \in [Daemons -> Points]
    BY <1>0, <2>2, LoadedTypes
  <2>4. UNCHANGED <<message, power, old, bid, notified, kills>>
    BY <2>2 DEF Loaded
  <2>5. at' \in [Daemons -> 0..MaxSlot]
    BY <1>0, <2>1 DEF TypeOK
  <2>. QED
    BY <1>0, <2>1, <2>3, <2>4, <2>5 DEF TypeOK
<1>10. ASSUME NEW d \in Daemons, ReadFails(d) \/ Dies(d) PROVE TypeOK'
  <2>1. Gone(d)
    BY <1>10 DEF ReadFails, Dies
  <2>2. kills' \in 0..MaxKills
    BY <1>0, <1>10 DEF ReadFails, Dies, TypeOK
  <2>3. UNCHANGED <<board, table, queue, reg, shown, asked, commands, changes, spoilt>>
    BY <1>10 DEF ReadFails, Dies
  <2>. QED
    BY <1>0, <2>1, <2>2, <2>3, GoneTypes DEF TypeOK
<1>11. ASSUME NEW d \in Daemons, Issue(d) PROVE TypeOK'
  <2>1. at[d] \in Slots
    BY <1>0, <1>11 DEF Issue, Placed, PlacedAt
  <2>2. reg' \in [Daemons -> [Slots -> Settings]]
    BY <1>0, <1>11, <2>1 DEF Issue, TypeOK
  <2>3. shown' \in [Daemons -> [Slots -> Rows]]
    <3>1. bid[d][at[d]] \in Kinds /\ mem[d][at[d]] \in Settings
      BY <1>0, <2>1 DEF TypeOK
    <3>. QED
      BY <1>0, <1>11, <2>1, <3>1, SharedTypes, ZenonT(60) DEF Issue, TypeOK
  <2>4. pc' \in [Daemons -> Points] /\ at' \in [Daemons -> 0..MaxSlot]
    <3>1. \/ pc' = [pc EXCEPT ![d] = "drain"] /\ at' = [at EXCEPT ![d] = 0]
          \/ pc' = [pc EXCEPT ![d] = "push"] /\ at' = at
      <4>1. CASE message[d]
        BY <1>11, <4>1 DEF Issue
      <4>2. CASE ~message[d]
        BY <1>11, <4>2 DEF Issue, BeginPush
      <4>. QED
        BY <4>1, <4>2
    <3>. QED
      <4>1. 0 \in 0..MaxSlot /\ at \in [Daemons -> 0..MaxSlot] /\ pc \in [Daemons -> Points]
        BY <1>0 DEF TypeOK
      <4>2. {"drain", "push"} \subseteq Points
        BY DEF Points
      <4>. QED
        BY <3>1, <4>1, <4>2
  <2>5. message' \in [Daemons -> BOOLEAN]
    BY <1>0, <1>11 DEF Issue, TypeOK
  <2>. QED
    BY <1>0, <1>11, <2>2, <2>3, <2>4, <2>5 DEF Issue, TypeOK
<1>12. ASSUME NEW d \in Daemons, EndPush(d) PROVE TypeOK'
  <2>1. pc' \in [Daemons -> Points] /\ at' \in [Daemons -> 0..MaxSlot]
    BY <1>0, <1>12 DEF EndPush, TypeOK, Points
  <2>2. power' \in [Daemons -> BOOLEAN] /\ old' \in [Daemons -> [Slots -> Kinds]]
    BY <1>0, <1>12 DEF EndPush, TypeOK
  <2>. QED
    BY <1>0, <1>12, <2>1, <2>2 DEF EndPush, TypeOK
<1>13. ASSUME NEW d \in Daemons, Share(d) PROVE TypeOK'
  <2>. DEFINE f == [s \in Slots |-> IF s \in SlotsOf(d) THEN [bid |-> bid[d][s], set |-> mem[d][s]]
                                    ELSE shown[d][s]]
  <2>1. f \in [Slots -> Rows]
    BY <1>0 DEF TypeOK, Rows
  <2>2. shown' = [shown EXCEPT ![d] = f]
    BY <1>13 DEF Share
  <2>. HIDE DEF f
  <2>3. shown' \in [Daemons -> [Slots -> Rows]]
    BY <1>0, <2>1, <2>2 DEF TypeOK
  <2>4. pc' \in [Daemons -> Points]
    BY <1>0, <1>13 DEF Share, TypeOK, Points
  <2>. QED
    BY <1>0, <1>13, <2>3, <2>4 DEF Share, TypeOK
<1>14. ASSUME NEW s \in Slots, SwapBoard(s) PROVE TypeOK'
  <2>1. board' \in [Slots -> Kinds]
    BY <1>0, <1>14 DEF SwapBoard, TypeOK
  <2>2. changes' \in 0..MaxChanges
    BY <1>0, <1>14 DEF SwapBoard, TypeOK
  <2>. QED
    BY <1>0, <1>14, <2>1, <2>2 DEF SwapBoard, daemonVars, TypeOK
<1>15. ASSUME NEW d \in Daemons, NEW s \in Slots, Ask(d, s) PROVE TypeOK'
  <2>1. shown[d][s].bid \in Kinds /\ shown[d][s].set \in Settings
    BY <1>0 DEF TypeOK, Rows
  <2>2. commands' \in 0..MaxCommands /\ shown[d][s].set \union {commands + 1} \in Settings
    BY <1>0, <1>15, <2>1 DEF Ask, TypeOK, Settings
  <2>3. (Top(d) /\ queue[d] = <<>> /\ ~spoilt[d][s]) \in BOOLEAN
    BY DEF Top
  <2>4. asked' \in [daemon : Daemons, slot : Slots, bid : Kinds, set : Settings, alone : BOOLEAN]
    BY <1>15, <2>1, <2>2, <2>3 DEF Ask
  <2>. QED
    BY <1>0, <1>15, <2>2, <2>4 DEF Ask, daemonVars, TypeOK
<1>16. CASE Send
  <2>. DEFINE d == asked.daemon
              m == [slot |-> asked.slot, bid |-> asked.bid, set |-> asked.set, alone |-> asked.alone]
  <2>1. d \in Daemons /\ m \in Messages
    BY <1>0, <1>16 DEF Send, TypeOK, Messages
  <2>2. queue' = [queue EXCEPT ![d] = Append(@, m)]
    BY <1>16 DEF Send
  <2>3. notified' = [notified EXCEPT ![d] = pc[d] # "off"]
    BY <1>16 DEF Send
  <2>. HIDE DEF d, m
  <2>4. queue' \in [Daemons -> Seq(Messages)]
    BY <1>0, <2>1, <2>2 DEF TypeOK
  <2>5. notified' \in [Daemons -> BOOLEAN]
    BY <1>0, <2>3 DEF TypeOK
  <2>. QED
    BY <1>0, <1>16, <2>4, <2>5 DEF Send, TypeOK
<1>17. CASE UNCHANGED vars
  BY <1>0, <1>17 DEF vars, daemonVars, TypeOK
<1>. QED
  BY <1>1, <1>2, <1>3, <1>4, <1>5, <1>6, <1>7, <1>8, <1>9, <1>10, <1>11, <1>12, <1>13, <1>14,
     <1>15, <1>16, <1>17 DEF Next, Daemon
-----------------------------------------------------------------------------
(* What a step makes of the rows of a daemon in a slot: they stay, its own *)
(* message updates them, they are gone, or the default settings are        *)
(* copied.                                                                 *)

RowsStay(d, s) ==
  /\ OwnRows(d, s)' = OwnRows(d, s)
  /\ \A i \in OwnRows(d, s) : table'[s][i] = table[s][i]
RowsAreStored(d, s) ==
  LET m == Head(queue[d]) IN
    /\ Store(d) /\ m.slot = s
    /\ OwnRows(d, s)' = OwnRows(d, s)
    /\ \A i \in OwnRows(d, s) :
         /\ table'[s][i].bid = table[s][i].bid
         /\ table'[s][i].set = IF table[s][i].bid = m.bid THEN m.set ELSE table[s][i].set
RowsAreGone(d, s) ==
  /\ OwnRows(d, s)' = {}
  /\ \/ spoilt'[d][s]
     \/ bid'[d][s] = NoBoard
     \/ pc'[d] = "copy" /\ at'[d] = s
RowIsCopied(d, s) ==
  /\ Copy(d) /\ at[d] = s
  /\ \E n \in DOMAIN table'[s] :
       /\ OwnRows(d, s)' = {n}
       /\ table'[s][n] = [bid |-> bid[d][s], set |-> Default]

LEMMA SlotStays ==
  ASSUME NEW d \in Daemons, NEW s \in Slots, table'[s] = table[s]
  PROVE  RowsStay(d, s)
BY DEF RowsStay, OwnRows

LEMMA OwnRowsStep ==
  ASSUME IInv, [Next]_vars, NEW d \in Daemons, NEW s \in Slots
  PROVE  RowsStay(d, s) \/ RowsAreStored(d, s) \/ RowsAreGone(d, s) \/ RowIsCopied(d, s)
<1>. DEFINE Goal == RowsStay(d, s) \/ RowsAreStored(d, s) \/ RowsAreGone(d, s) \/ RowIsCopied(d, s)
<1>0. TypeOK /\ OneOwnRow /\ Placed /\ QueueIsSound
  BY DEF IInv
<1>1. table[s] \in Seq(Rows) /\ table \in [Slots -> Seq(Rows)]
  BY <1>0 DEF TypeOK
<1>2. CASE UNCHANGED table
  BY <1>2, SlotStays
<1>3. ASSUME NEW e \in Daemons, Store(e) PROVE Goal
  <2>. DEFINE m == Head(queue[e])
  <2>1. /\ table' = [table EXCEPT ![m.slot] = Updated(@, m.bid, m.set)]
        /\ queue[e] # <<>>
    BY <1>3 DEF Store
  <2>2. m \in Messages /\ m.bid \in Own(e)
    BY <1>0, <2>1, HeadMessage DEF QueueIsSound
  <2>3. m.slot \in Slots /\ m.set \in Settings
    BY <2>2 DEF Messages
  <2>4. CASE m.slot # s
    <3>1. table'[s] = table[s]
      BY <1>1, <2>1, <2>3, <2>4
    <3>. QED
      BY <3>1, SlotStays
  <2>5. CASE m.slot = s
    <3>1. table'[s] = Updated(table[s], m.bid, m.set)
      BY <1>1, <2>1, <2>3, <2>5
    <3>2. /\ DOMAIN table'[s] = DOMAIN table[s]
          /\ table'[s] \in Seq(Rows)
          /\ \A i \in DOMAIN table[s] :
              /\ table'[s][i].bid = table[s][i].bid
              /\ table'[s][i].set = IF table[s][i].bid = m.bid THEN m.set ELSE table[s][i].set
      BY <1>1, <2>3, <3>1, UpdatedRows
    <3>3. OwnRows(d, s)' = OwnRows(d, s)
      BY <3>2 DEF OwnRows
    <3>4. CASE e = d
      BY <1>3, <2>5, <3>2, <3>3, <3>4 DEF RowsAreStored, OwnRows
    <3>5. CASE e # d
      <4>1. ASSUME NEW i \in OwnRows(d, s) PROVE table'[s][i] = table[s][i]
        <5>1. i \in DOMAIN table[s] /\ table[s][i].bid \in Own(d)
          BY DEF OwnRows
        <5>2. table[s][i].bid # m.bid
          BY <2>2, <3>5, <5>1, KindsAreApart
        <5>3. table[s][i] \in Rows /\ table'[s][i] \in Rows
          BY <1>1, <3>2, <5>1
        <5>. QED
          BY <3>2, <5>1, <5>2, <5>3 DEF Rows
      <4>. QED
        BY <3>3, <4>1 DEF RowsStay
    <3>. QED
      BY <3>4, <3>5
  <2>. QED
    BY <2>4, <2>5
<1>4. ASSUME NEW e \in Daemons, Empty(e) PROVE Goal
  <2>1. PICK k \in Slots :
          /\ Pulled(e, k)
          /\ table' = [table EXCEPT ![k] = <<[bid |-> NoBoard, set |-> Default]>>]
          /\ spoilt' = [spoilt EXCEPT ![Other(e)][k] = TRUE]
          /\ bid' = bid
    BY <1>4 DEF Empty, Handles
  <2>2. CASE k # s
    <3>1. table'[s] = table[s]
      BY <1>1, <2>1, <2>2
    <3>. QED
      BY <3>1, SlotStays
  <2>3. CASE k = s
    <3>1. table'[s] = <<[bid |-> NoBoard, set |-> Default]>>
      BY <1>1, <2>1, <2>3
    <3>2. OwnRows(d, s)' = {}
      BY <3>1, KindsAreApart DEF OwnRows
    <3>3. CASE e = d
      BY <2>1, <2>3, <3>2, <3>3 DEF RowsAreGone, Pulled
    <3>4. CASE e # d
      <4>1. Other(e) = d
        BY <3>4 DEF Other, Daemons
      <4>2. spoilt'[d][s]
        BY <1>0, <2>1, <2>3, <4>1 DEF TypeOK
      <4>. QED
        BY <3>2, <4>2 DEF RowsAreGone
    <3>. QED
      BY <3>3, <3>4
  <2>. QED
    BY <2>2, <2>3
<1>5. ASSUME NEW e \in Daemons, Delete(e) PROVE Goal
  <2>1. PICK k \in Slots :
          /\ at' = [at EXCEPT ![e] = k]
          /\ table' = [table EXCEPT ![k] = <<>>]
          /\ spoilt' = [spoilt EXCEPT ![Other(e)][k] = TRUE]
          /\ pc' = [pc EXCEPT ![e] = "copy"]
    BY <1>5 DEF Delete, Handles
  <2>2. CASE k # s
    <3>1. table'[s] = table[s]
      BY <1>1, <2>1, <2>2
    <3>. QED
      BY <3>1, SlotStays
  <2>3. CASE k = s
    <3>1. table'[s] = <<>>
      BY <1>1, <2>1, <2>3
    <3>2. OwnRows(d, s)' = {}
      BY <3>1 DEF OwnRows
    <3>3. CASE e = d
      <4>1. pc'[d] = "copy" /\ at'[d] = s
        BY <1>0, <2>1, <2>3, <3>3 DEF TypeOK
      <4>. QED
        BY <3>2, <4>1 DEF RowsAreGone
    <3>4. CASE e # d
      <4>1. Other(e) = d
        BY <3>4 DEF Other, Daemons
      <4>2. spoilt'[d][s]
        BY <1>0, <2>1, <2>3, <4>1 DEF TypeOK
      <4>. QED
        BY <3>2, <4>2 DEF RowsAreGone
    <3>. QED
      BY <3>3, <3>4
  <2>. QED
    BY <2>2, <2>3
<1>6. ASSUME NEW e \in Daemons, Copy(e) PROVE Goal
  <2>. DEFINE k == at[e]
              row == [bid |-> bid[e][k], set |-> Default]
              n == Len(table[s]) + 1
  <2>1. /\ table' = [table EXCEPT ![k] = Append(@, row)]
        /\ pc[e] = "copy" /\ bid' = bid
    BY <1>6 DEF Copy
  <2>2. k \in Slots /\ bid[e][k] \in Own(e) /\ OwnRows(e, k) = {}
    BY <1>0, <2>1, SlotsAreNumbers DEF Placed, PlacedAt, OneOwnRow
  <2>3. row \in Rows
    BY <2>2, KindsAreApart, SettingsGiven DEF Rows
  <2>4. CASE k # s
    <3>1. table'[s] = table[s]
      BY <1>1, <2>1, <2>2, <2>4
    <3>. QED
      BY <3>1, SlotStays
  <2>5. CASE k = s
    <3>1. table'[s] = Append(table[s], row)
      BY <1>1, <2>1, <2>2, <2>5
    <3>. HIDE DEF row
    <3>2. /\ DOMAIN table[s] = 1..Len(table[s]) /\ Len(table[s]) \in Nat
          /\ DOMAIN table'[s] = 1..n /\ table'[s][n] = row
          /\ \A i \in 1..Len(table[s]) : table'[s][i] = table[s][i]
      BY <1>1, <2>3, <3>1
    <3>3. n \in DOMAIN table'[s] /\ n \notin DOMAIN table[s]
          /\ DOMAIN table'[s] = DOMAIN table[s] \cup {n}
      BY <3>2
    <3>4. \A i \in DOMAIN table[s] : table'[s][i] = table[s][i]
      BY <3>2
    <3>. HIDE DEF n, k
    <3>5. CASE e = d
      <4>1. OwnRows(d, s)' = {n}
        <5>1. row.bid \in Own(d)
          BY <2>2, <3>5 DEF row
        <5>2. \A i \in DOMAIN table[s] : table[s][i].bid \notin Own(d)
          BY <2>2, <2>5, <3>5 DEF OwnRows
        <5>. QED
          BY <3>2, <3>3, <3>4, <5>1, <5>2 DEF OwnRows
      <4>2. table'[s][n] = [bid |-> bid[d][s], set |-> Default]
        BY <2>5, <3>2, <3>5 DEF row
      <4>. QED
        BY <1>6, <2>5, <3>3, <3>5, <4>1, <4>2 DEF RowIsCopied, k
    <3>6. CASE e # d
      <4>1. row.bid \notin Own(d)
        BY <2>2, <3>6, KindsAreApart DEF row
      <4>2. OwnRows(d, s)' = OwnRows(d, s)
        BY <3>2, <3>3, <3>4, <4>1 DEF OwnRows
      <4>. QED
        BY <3>4, <4>2 DEF RowsStay, OwnRows
    <3>. QED
      BY <3>5, <3>6
  <2>. QED
    BY <2>4, <2>5
<1>. QED
  BY <1>2, <1>3, <1>4, <1>5, <1>6
  DEF Next, Daemon, vars, Start, ReadBid, Notify, Drained, Read, ReadFails, Issue, EndPush, Share,
      Dies, SwapBoard, Ask, Send
(* A daemon has memories and registers of its own: what the other does     *)
(* changes the rows, and marks the slot as spoilt.                         *)
Alone(d) ==
  /\ pc'[d] = pc[d] /\ at'[d] = at[d] /\ message'[d] = message[d] /\ power'[d] = power[d]
  /\ old'[d] = old[d] /\ bid'[d] = bid[d] /\ mem'[d] = mem[d] /\ reg'[d] = reg[d]
  /\ shown'[d] = shown[d] /\ queue'[d] = queue[d]
  /\ \A s \in Slots : spoilt[d][s] => spoilt'[d][s]

LEMMA OtherIsLeftAlone ==
  ASSUME TypeOK, Placed, NEW d \in Daemons, NEW e \in Daemons, d # e, Daemon(e) \/ Dies(e)
  PROVE  Alone(d) /\ UNCHANGED <<asked, commands>>
<1>0. /\ pc \in [Daemons -> Points] /\ at \in [Daemons -> 0..MaxSlot]
      /\ message \in [Daemons -> BOOLEAN] /\ power \in [Daemons -> BOOLEAN]
      /\ old \in [Daemons -> [Slots -> Kinds]] /\ bid \in [Daemons -> [Slots -> Kinds]]
      /\ mem \in [Daemons -> [Slots -> Settings]] /\ reg \in [Daemons -> [Slots -> Settings]]
      /\ shown \in [Daemons -> [Slots -> Rows]] /\ queue \in [Daemons -> Seq(Messages)]
      /\ spoilt \in [Daemons -> [Slots -> BOOLEAN]]
  BY DEF TypeOK
<1>1. CASE Start(e)
  BY <1>0, <1>1 DEF Start, Alone
<1>2. CASE ReadBid(e)
  BY <1>0, <1>2 DEF ReadBid, BeginPush, Alone
<1>3. CASE Notify(e)
  BY <1>0, <1>3 DEF Notify, AfterMessages, BeginPush, Alone
<1>4. CASE Drained(e)
  BY <1>0, <1>4 DEF Drained, AfterMessages, BeginPush, Alone
<1>5. CASE Store(e)
  <2>1. shown'[d] = shown[d]
    BY <1>0, <1>5 DEF Store, Shared
  <2>2. spoilt'[d] = spoilt[d] /\ mem'[d] = mem[d]
    BY <1>0, <1>5 DEF Store
  <2>. QED
    BY <1>0, <1>5, <2>1, <2>2 DEF Store, Alone
<1>6. CASE Empty(e)
  <2>1. PICK s \in Slots :
          /\ at' = [at EXCEPT ![e] = s]
          /\ shown' = IF e = "out" THEN Shared(e, s, NoBoard, mem[e][s]) ELSE shown
          /\ spoilt' = [spoilt EXCEPT ![Other(e)][s] = TRUE]
          /\ UNCHANGED <<board, queue, pc, message, power, old, bid, mem, reg, notified, asked,
                         commands, changes, kills>>
    BY <1>6 DEF Empty, Handles
  <2>2. shown'[d] = shown[d]
    BY <1>0, <2>1 DEF Shared
  <2>3. \A k \in Slots : spoilt[d][k] => spoilt'[d][k]
    BY <1>0, <2>1
  <2>. QED
    BY <1>0, <2>1, <2>2, <2>3 DEF Alone
<1>7. CASE Delete(e)
  <2>1. PICK s \in Slots :
          /\ at' = [at EXCEPT ![e] = s]
          /\ spoilt' = [spoilt EXCEPT ![Other(e)][s] = TRUE]
          /\ pc' = [pc EXCEPT ![e] = "copy"]
          /\ UNCHANGED <<board, queue, message, power, old, bid, mem, reg, shown, notified, asked,
                         commands, changes, kills>>
    BY <1>7 DEF Delete, Handles
  <2>2. \A k \in Slots : spoilt[d][k] => spoilt'[d][k]
    BY <1>0, <2>1
  <2>. QED
    BY <1>0, <2>1, <2>2 DEF Alone
<1>8. CASE Copy(e)
  BY <1>0, <1>8 DEF Copy, Alone
<1>9. CASE Read(e)
  <2>1. PICK s \in Slots : \E set \in {RowOf(s, bid[e][s]), {Junk}} :
          /\ at' = [at EXCEPT ![e] = s]
          /\ Loaded(e, s, set)
          /\ UNCHANGED <<board, table, queue, reg, asked, commands, changes>>
    BY <1>9 DEF Read
  <2>. PICK set \in {RowOf(s, bid[e][s]), {Junk}} : Loaded(e, s, set)
    BY <2>1
  <2>2. shown'[d] = shown[d]
    BY <1>0 DEF Loaded, Shared
  <2>3. spoilt'[d] = spoilt[d] /\ mem'[d] = mem[d] /\ pc'[d] = pc[d] /\ at'[d] = at[d]
    BY <1>0, <2>1 DEF Loaded
  <2>. QED
    BY <2>1, <2>2, <2>3 DEF Loaded, Alone
<1>10. CASE ReadFails(e) \/ Dies(e)
  <2>1. Gone(e) /\ UNCHANGED <<queue, reg, shown, asked, commands, spoilt>>
    BY <1>10 DEF ReadFails, Dies
  <2>. QED
    BY <1>0, <2>1 DEF Gone, Alone
<1>11. CASE Issue(e)
  <2>1. shown'[d] = shown[d] /\ reg'[d] = reg[d]
    BY <1>0, <1>11 DEF Issue, Shared
  <2>2. pc'[d] = pc[d] /\ at'[d] = at[d] /\ message'[d] = message[d]
    BY <1>0, <1>11 DEF Issue, BeginPush
  <2>. QED
    BY <1>11, <2>1, <2>2 DEF Issue, Alone
<1>12. CASE EndPush(e)
  BY <1>0, <1>12 DEF EndPush, Alone
<1>13. CASE Share(e)
  BY <1>0, <1>13 DEF Share, Alone
<1>. QED
  BY <1>1, <1>2, <1>3, <1>4, <1>5, <1>6, <1>7, <1>8, <1>9, <1>10, <1>11, <1>12, <1>13 DEF Daemon

(* Nor do the boards and the operator touch a daemon.                      *)
LEMMA WorldLeavesAlone ==
  ASSUME TypeOK, (\E s \in Slots : SwapBoard(s))
                 \/ (\E e \in Daemons, s \in Slots : Ask(e, s)) \/ Send \/ UNCHANGED vars
  PROVE  UNCHANGED <<table, pc, at, message, power, old, bid, mem, reg, shown, spoilt>>
BY DEF SwapBoard, Ask, Send, vars, daemonVars

-----------------------------------------------------------------------------
(* Where a daemon is, and the one row of its kinds.                        *)

LEMMA OneOwnRowStep == IInv /\ [Next]_vars => OneOwnRow'
<1>. SUFFICES ASSUME IInv, [Next]_vars, NEW d \in Daemons
              PROVE  /\ \A s \in Slots : \A i, j \in OwnRows(d, s)' : i = j
                     /\ \A s \in Slots : pc'[d] = "copy" /\ at'[d] = s => OwnRows(d, s)' = {}
  BY DEF OneOwnRow
<1>0. TypeOK /\ OneOwnRow /\ Placed
  BY DEF IInv
<1>1. ASSUME NEW s \in Slots PROVE \A i, j \in OwnRows(d, s)' : i = j
  <2>1. CASE RowsStay(d, s) \/ RowsAreStored(d, s)
    BY <1>0, <2>1 DEF RowsStay, RowsAreStored, OneOwnRow
  <2>2. CASE RowsAreGone(d, s) \/ RowIsCopied(d, s)
    BY <2>2 DEF RowsAreGone, RowIsCopied
  <2>. QED
    BY <2>1, <2>2, OwnRowsStep
<1>2. ASSUME NEW s \in Slots, pc'[d] = "copy", at'[d] = s PROVE OwnRows(d, s)' = {}
  <2>1. CASE Delete(d)
    <3>1. PICK k \in Slots :
            /\ at' = [at EXCEPT ![d] = k]
            /\ table' = [table EXCEPT ![k] = <<>>]
      BY <2>1 DEF Delete, Handles
    <3>2. k = s /\ table'[s] = <<>>
      BY <1>0, <1>2, <3>1 DEF TypeOK
    <3>. QED
      BY <3>2 DEF OwnRows
  <2>2. ASSUME ~Delete(d) PROVE pc[d] = "copy" /\ at'[d] = at[d]
    <3>0. pc \in [Daemons -> Points] /\ at \in [Daemons -> 0..MaxSlot]
      BY <1>0 DEF TypeOK
    <3>1. ASSUME NEW e \in Daemons, e # d, Daemon(e) \/ Dies(e) PROVE pc'[d] = pc[d] /\ at'[d] = at[d]
      BY <1>0, <3>1, OtherIsLeftAlone DEF Alone
    <3>2. ASSUME Daemon(d) \/ Dies(d) PROVE FALSE
      <4>1. CASE Start(d) \/ ReadBid(d) \/ Notify(d) \/ Drained(d)
        BY <1>2, <3>0, <4>1 DEF Start, ReadBid, Notify, Drained, AfterMessages, BeginPush
      <4>2. CASE Store(d) \/ Copy(d) \/ EndPush(d) \/ Share(d)
        BY <1>2, <3>0, <4>2 DEF Store, Copy, EndPush, Share
      <4>3. CASE Empty(d)
        BY <1>2, <3>0, <4>3 DEF Empty, Handles, Turn
      <4>4. CASE Read(d)
        BY <1>2, <3>0, <4>4 DEF Read, Loaded
      <4>5. CASE ReadFails(d) \/ Dies(d)
        BY <1>2, <3>0, <4>5 DEF ReadFails, Dies, Gone
      <4>6. CASE Issue(d)
        BY <1>2, <3>0, <4>6 DEF Issue, BeginPush
      <4>. QED
        BY <2>2, <3>2, <4>1, <4>2, <4>3, <4>4, <4>5, <4>6 DEF Daemon
    <3>3. CASE (\E k \in Slots : SwapBoard(k)) \/ (\E e \in Daemons, k \in Slots : Ask(e, k))
               \/ Send \/ UNCHANGED vars
      <4>1. UNCHANGED <<pc, at>>
        BY <1>0, <3>3, WorldLeavesAlone
      <4>. QED
        BY <1>2, <4>1
    <3>. QED
      BY <1>2, <3>1, <3>2, <3>3 DEF Next
  <2>3. CASE ~Delete(d)
    <3>1. OwnRows(d, s) = {}
      BY <1>0, <1>2, <2>2, <2>3 DEF OneOwnRow
    <3>2. CASE RowIsCopied(d, s)
      <4>1. pc'[d] = "read"
        BY <1>0, <3>2 DEF RowIsCopied, Copy, TypeOK
      <4>. QED
        BY <1>2, <4>1
    <3>3. CASE ~RowIsCopied(d, s)
      BY <3>1, <3>3, OwnRowsStep DEF RowsStay, RowsAreStored, RowsAreGone
    <3>. QED
      BY <3>2, <3>3
  <2>. QED
    BY <2>1, <2>3
<1>. QED
  BY <1>1, <1>2

(* A daemon's step through its loop.                                       *)
LEMMA PlacedOwnStep ==
  ASSUME IInv, NEW d \in Daemons, Daemon(d) \/ Dies(d) PROVE PlacedAt(d)'
<1>. USE DEF PlacedAt, InPush
<1>0. TypeOK /\ PlacedAt(d)
  BY DEF IInv, Placed
<1>a. /\ pc \in [Daemons -> Points] /\ at \in [Daemons -> 0..MaxSlot]
      /\ message \in [Daemons -> BOOLEAN] /\ power \in [Daemons -> BOOLEAN]
      /\ old \in [Daemons -> [Slots -> Kinds]] /\ bid \in [Daemons -> [Slots -> Kinds]]
  BY <1>0 DEF TypeOK
<1>1. CASE Start(d)
  <2>1. /\ pc'[d] = "bid" /\ power'[d] /\ pc[d] = "off"
        /\ at'[d] = at[d] /\ message'[d] = message[d] /\ bid'[d] = bid[d]
    BY <1>a, <1>1 DEF Start
  <2>. QED
    BY <1>0, <2>1
<1>2. CASE ReadBid(d)
  <2>1. /\ pc[d] \in {"first", "bid"} /\ (pc[d] = "first" => ~power[d])
        /\ at'[d] = at[d] /\ message'[d] = message[d] /\ power'[d] = power[d]
    BY <1>0, <1>2 DEF ReadBid
  <2>2. pc'[d] = IF d = "in" /\ ~power[d] THEN "msgs" ELSE "push"
    BY <1>a, <1>2 DEF ReadBid, BeginPush
  <2>3. at[d] = 0 /\ ~message[d]
    BY <1>0, <2>1
  <2>. QED
    BY <2>1, <2>2, <2>3
<1>3. CASE Notify(d) \/ Drained(d)
  <2>1. /\ pc[d] \in {"msgs", "drain"} /\ ~power[d] /\ at[d] = 0 /\ ~message[d]
        /\ at'[d] = at[d] /\ message'[d] = message[d] /\ power'[d] = power[d]
        /\ bid'[d] = bid[d] /\ old'[d] = old[d]
    BY <1>0, <1>3 DEF Notify, Drained
  <2>2. pc'[d] = "drain" \/ (d = "in" /\ pc'[d] = "push") \/ (d = "out" /\ pc'[d] = "bid")
    <3>1. CASE Notify(d)
      BY <1>a, <3>1 DEF Notify, AfterMessages, BeginPush, Daemons
    <3>2. CASE Drained(d)
      BY <1>a, <3>2 DEF Drained, AfterMessages, BeginPush, Daemons
    <3>. QED
      BY <1>3, <3>1, <3>2
  <2>3. d = "out" => \A s \in Slots : old[d][s] = bid[d][s]
    BY <1>0, <2>1
  <2>. QED
    BY <2>1, <2>2, <2>3
<1>4. CASE Store(d)
  <2>1. Head(queue[d]).slot \in Slots
    BY <1>0, <1>4, HeadMessage DEF Store, Messages
  <2>2. /\ pc[d] = "drain" /\ pc'[d] = "issue" /\ at'[d] = Head(queue[d]).slot
        /\ power'[d] = power[d] /\ bid'[d] = bid[d] /\ old'[d] = old[d]
    BY <1>a, <1>4 DEF Store
  <2>3. ~power[d] /\ (d = "out" => \A s \in Slots : old[d][s] = bid[d][s])
    BY <1>0, <2>2
  <2>. QED
    BY <2>1, <2>2, <2>3
<1>5. CASE Empty(d)
  <2>1. /\ pc[d] = "push" /\ pc'[d] = "push" /\ message'[d] = message[d]
        /\ power'[d] = power[d] /\ bid'[d] = bid[d] /\ old'[d] = old[d]
    BY <1>5 DEF Empty, Handles, Turn
  <2>. QED
    BY <1>0, <2>1
<1>6. CASE Delete(d)
  <2>1. PICK s \in Slots : /\ Turn(d, s) /\ Pushed(d, s)
                           /\ at' = [at EXCEPT ![d] = s] /\ pc' = [pc EXCEPT ![d] = "copy"]
    BY <1>6 DEF Delete, Handles
  <2>2. /\ pc[d] = "push" /\ pc'[d] = "copy" /\ at'[d] = s
        /\ message'[d] = message[d] /\ power'[d] = power[d]
        /\ bid'[d] = bid[d] /\ old'[d] = old[d]
    BY <1>a, <1>6, <2>1 DEF Delete, Turn
  <2>3. s \in SlotsOf(d) /\ bid[d][s] \in Own(d) /\ old[d][s] # bid[d][s]
    BY <1>0, <2>1, NextDue DEF Pushed
  <2>. QED
    BY <1>0, <2>2, <2>3
<1>7. CASE Copy(d)
  <2>1. /\ pc[d] = "copy" /\ pc'[d] = "read" /\ at'[d] = at[d]
        /\ message'[d] = message[d] /\ power'[d] = power[d]
        /\ bid'[d] = bid[d] /\ old'[d] = old[d]
    BY <1>a, <1>7 DEF Copy
  <2>. QED
    BY <1>0, <2>1
<1>8. CASE Read(d)
  <2>1. PICK s \in Slots : \E set \in {RowOf(s, bid[d][s]), {Junk}} :
          Reads(d, s) /\ at' = [at EXCEPT ![d] = s] /\ Loaded(d, s, set)
    BY <1>8 DEF Read
  <2>2. /\ pc[d] \in {"read", "push"} /\ pc'[d] = "issue" /\ at'[d] = s
        /\ message'[d] = message[d]
    BY <1>a, <2>1 DEF Loaded, Reads, Turn
  <2>. QED
    BY <1>0, <2>2
<1>9. CASE ReadFails(d) \/ Dies(d)
  <2>1. /\ pc'[d] = "off" /\ at'[d] = 0 /\ ~message'[d]
        /\ \A s \in Slots : bid'[d][s] = NoBoard
    BY <1>a, <1>9 DEF ReadFails, Dies, Gone
  <2>. QED
    BY <2>1
<1>10. CASE Issue(d)
  <2>1. /\ pc[d] = "issue" /\ ~message'[d] /\ power'[d] = power[d]
        /\ bid'[d] = bid[d] /\ old'[d] = old[d]
    BY <1>a, <1>10 DEF Issue
  <2>2. CASE message[d]
    <3>1. pc'[d] = "drain" /\ at'[d] = 0
      BY <1>a, <1>10, <2>2 DEF Issue
    <3>. QED
      BY <1>0, <2>1, <2>2, <3>1
  <2>3. CASE ~message[d]
    <3>1. pc'[d] = "push"
      BY <1>a, <1>10, <2>3 DEF Issue, BeginPush
    <3>. QED
      BY <2>1, <3>1
  <2>. QED
    BY <2>2, <2>3
<1>11. CASE EndPush(d)
  <2>1. /\ pc[d] = "push" /\ ~power'[d] /\ at'[d] = 0 /\ message'[d] = message[d]
        /\ old'[d] = bid[d] /\ bid'[d] = bid[d]
        /\ pc'[d] = IF d = "out" THEN "msgs" ELSE IF power[d] THEN "first" ELSE "share"
    BY <1>a, <1>11 DEF EndPush
  <2>2. d = "out" \/ d = "in"
    BY DEF Daemons
  <2>. QED
    BY <1>0, <2>1, <2>2
<1>12. CASE Share(d)
  <2>1. /\ pc[d] = "share" /\ pc'[d] = "bid" /\ at'[d] = at[d]
        /\ message'[d] = message[d] /\ power'[d] = power[d]
        /\ bid'[d] = bid[d] /\ old'[d] = old[d]
    BY <1>a, <1>12 DEF Share
  <2>. QED
    BY <1>0, <2>1
<1>. QED
  BY <1>1, <1>2, <1>3, <1>4, <1>5, <1>6, <1>7, <1>8, <1>9, <1>10, <1>11, <1>12 DEF Daemon

LEMMA PlacedStep == IInv /\ [Next]_vars => Placed'
<1>. SUFFICES ASSUME IInv, [Next]_vars, NEW d \in Daemons PROVE PlacedAt(d)'
  BY DEF Placed
<1>0. TypeOK /\ Placed /\ PlacedAt(d)
  BY DEF IInv, Placed
<1>1. CASE Daemon(d) \/ Dies(d)
  BY <1>1, PlacedOwnStep
<1>2. ASSUME NEW e \in Daemons, e # d, Daemon(e) \/ Dies(e) PROVE PlacedAt(d)'
  <2>1. Alone(d)
    BY <1>0, <1>2, OtherIsLeftAlone
  <2>. QED
    BY <1>0, <2>1 DEF Alone, PlacedAt, InPush
<1>3. CASE (\E s \in Slots : SwapBoard(s)) \/ (\E e \in Daemons, s \in Slots : Ask(e, s))
           \/ Send \/ UNCHANGED vars
  <2>1. UNCHANGED <<pc, at, message, power, old, bid>>
    BY <1>0, <1>3, WorldLeavesAlone
  <2>. QED
    BY <1>0, <2>1 DEF PlacedAt, InPush
<1>. QED
  BY <1>1, <1>2, <1>3 DEF Next
-----------------------------------------------------------------------------
(* What was served stays served.                                           *)

LEMMA RowIsFoundNext ==
  ASSUME NEW d \in Daemons, NEW s \in Slots, NEW i \in Nat, OwnRows(d, s)' = {i},
         table'[s][i].bid = bid'[d][s], bid'[d][s] \in Own(d)
  PROVE  HasRow(s, bid[d][s])' /\ RowOf(s, bid[d][s])' = table'[s][i].set
<1>1. RowsFor(s, bid[d][s])' = {i}
  BY DEF RowsFor, OwnRows
<1>2. Max({i}) = i
  BY DEF Max
<1>. QED
  BY <1>1, <1>2 DEF HasRow, RowOf

LEMMA RowGoesOnServing ==
  ASSUME IInv, [Next]_vars, NEW d \in Daemons, NEW s \in Slots,
         RowServes(d, s), bid[d][s] \in Own(d), bid'[d][s] = bid[d][s], mem'[d][s] = mem[d][s],
         spoilt[d][s] => spoilt'[d][s],
         ~RowsAreStored(d, s), ~RowIsCopied(d, s), ~(pc'[d] = "copy" /\ at'[d] = s)
  PROVE  RowServes(d, s)'
<1>0. TypeOK /\ OneOwnRow
  BY DEF IInv
<1>1. CASE RowsStay(d, s)
  <2>. SUFFICES ASSUME ~spoilt'[d][s]
                PROVE  HasRow(s, bid[d][s])' /\ RowOf(s, bid[d][s])' = mem'[d][s]
    BY DEF RowServes
  <2>1. HasRow(s, bid[d][s]) /\ RowOf(s, bid[d][s]) = mem[d][s]
    BY DEF RowServes
  <2>2. PICK i \in DOMAIN table[s] : /\ OwnRows(d, s) = {i}
                                     /\ table[s][i].bid = bid[d][s] /\ table[s][i].set = mem[d][s]
    BY <1>0, <2>1, TheOwnRow
  <2>3. i \in Nat
    BY <1>0, RowsAreRecords
  <2>4. OwnRows(d, s)' = {i} /\ table'[s][i] = table[s][i]
    BY <1>1, <2>2 DEF RowsStay
  <2>. QED
    BY <2>2, <2>3, <2>4, RowIsFoundNext
<1>2. CASE RowsAreGone(d, s)
  <2>1. spoilt'[d][s]
    BY <1>2, KindsAreApart DEF RowsAreGone
  <2>. QED
    BY <2>1 DEF RowServes
<1>. QED
  BY <1>1, <1>2, OwnRowsStep

(* The slots in front of the next one due were handled.                    *)
LEMMA HandledBefore ==
  ASSUME IInv, NEW d \in Daemons, pc[d] = "push", NEW s \in SlotsOf(d), bid[d][s] \in Own(d),
         s > at[d] => ~Pushed(d, s) /\ ~PoweredUp(d, s)
  PROVE  Handled(d, s)
<1>0. TypeOK
  BY DEF IInv
<1>1. at[d] \in Nat /\ s \in Nat /\ s \in Slots
  BY <1>0, PlaceIsNumber, SlotIsNumber
<1>2. CASE s > at[d]
  <2>1. ~Pushed(d, s) /\ ~PoweredUp(d, s)
    BY <1>2
  <2>. QED
    BY <2>1 DEF Pushed, PoweredUp, Handled
<1>3. CASE s <= at[d]
  BY <1>1, <1>3 DEF Handled, InPush
<1>. QED
  BY <1>1, <1>2, <1>3

LEMMA HandledBeforeTurn ==
  ASSUME IInv, NEW d \in Daemons, NEW k, Turn(d, k), NEW s \in SlotsOf(d), bid[d][s] \in Own(d),
         s < k
  PROVE  Handled(d, s)
<1>0. TypeOK
  BY DEF IInv
<1>1. /\ pc[d] = "push"
      /\ \A j \in SlotsOf(d) : at[d] < j /\ j < k => ~Pushed(d, j) /\ ~PoweredUp(d, j)
  BY <1>0, NextDue
<1>2. at[d] \in Nat /\ s \in Nat
  BY <1>0, PlaceIsNumber, SlotIsNumber
<1>3. s > at[d] => at[d] < s
  BY <1>2
<1>. QED
  BY <1>1, <1>3, HandledBefore

LEMMA ServedByOwnStep ==
  ASSUME IInv, [Next]_vars, NEW d \in Daemons, Daemon(d) \/ Dies(d),
         NEW s \in SlotsOf(d), bid'[d][s] \in Own(d), Handled(d, s)'
  PROVE  Served(d, s)'
<1>0. TypeOK /\ OneOwnRow /\ PlacedAt(d)
  BY DEF IInv, Placed
<1>a. /\ pc \in [Daemons -> Points] /\ at \in [Daemons -> 0..MaxSlot]
      /\ message \in [Daemons -> BOOLEAN] /\ power \in [Daemons -> BOOLEAN]
      /\ old \in [Daemons -> [Slots -> Kinds]] /\ bid \in [Daemons -> [Slots -> Kinds]]
      /\ mem \in [Daemons -> [Slots -> Settings]] /\ reg \in [Daemons -> [Slots -> Settings]]
      /\ shown \in [Daemons -> [Slots -> Rows]] /\ table \in [Slots -> Seq(Rows)]
      /\ spoilt \in [Daemons -> [Slots -> BOOLEAN]]
  BY <1>0 DEF TypeOK
<1>b. s \in Slots /\ s \in Nat /\ s # 0 /\ at[d] \in Nat
  BY <1>0, PlaceIsNumber, SlotIsNumber
<1>c. bid[d][s] \in Own(d) /\ Handled(d, s) => Served(d, s) /\ RowServes(d, s)
  BY DEF IInv, HandledAreServed, Served, RowServes
<1>d. NoBoard \notin Own(d)
  BY KindsAreApart
<1>e. ASSUME RowServes(d, s)',
             ~(pc'[d] = "issue" /\ at'[d] = s) => mem'[d][s] = reg'[d][s],
             d = "out" => shown'[d][s] = [bid |-> bid'[d][s], set |-> mem'[d][s]]
      PROVE  Served(d, s)'
  BY <1>e DEF Served, RowServes
(* Nothing the property looks at changes, and the slot was handled.        *)
<1>f. ASSUME bid'[d][s] = bid[d][s], mem'[d][s] = mem[d][s], reg'[d][s] = reg[d][s],
             shown'[d][s] = shown[d][s] \/ d # "out", spoilt'[d][s] = spoilt[d][s],
             Handled(d, s), ~(pc[d] = "issue" /\ at[d] = s),
             ~RowsAreStored(d, s), ~RowIsCopied(d, s), ~(pc'[d] = "copy" /\ at'[d] = s)
      PROVE  Served(d, s)'
  <2>1. Served(d, s) /\ RowServes(d, s) /\ bid[d][s] \in Own(d)
    BY <1>c, <1>f
  <2>2. RowServes(d, s)'
    BY <1>b, <1>f, <2>1, RowGoesOnServing
  <2>. QED
    BY <1>e, <1>f, <2>1, <2>2 DEF Served
<1>1. CASE Start(d)
  <2>1. pc'[d] = "bid" /\ power'[d]
    BY <1>a, <1>1 DEF Start
  <2>. QED
    BY <2>1 DEF Handled, InPush
<1>2. CASE ReadBid(d)
  <2>1. /\ pc[d] \in {"first", "bid"} /\ pc'[d] \in {"msgs", "push"}
        /\ at'[d] = at[d] /\ at[d] = 0 /\ message'[d] = message[d] /\ power'[d] = power[d]
        /\ old' = old /\ UNCHANGED <<mem, reg, shown, table, spoilt>>
    <3>1. pc'[d] \in {"msgs", "push"}
      BY <1>a, <1>2 DEF ReadBid, BeginPush
    <3>. QED
      BY <1>0, <1>2, <3>1 DEF ReadBid, PlacedAt, InPush
  <2>2. old[d][s] = bid'[d][s] /\ ~power[d]
    BY <1>b, <2>1 DEF Handled, InPush
  <2>3. old[d][s] = bid[d][s]
    BY <1>0, <1>b, <2>1, <2>2 DEF PlacedAt
  <2>4. Handled(d, s)
    BY <2>2, <2>3 DEF Handled
  <2>5. ~RowsAreStored(d, s) /\ ~RowIsCopied(d, s)
    BY <2>1 DEF RowsAreStored, RowIsCopied, Store, Copy
  <2>. QED
    BY <1>f, <2>1, <2>2, <2>3, <2>4, <2>5
<1>3. CASE Notify(d) \/ Drained(d)
  <2>1. /\ pc[d] \in {"msgs", "drain"} /\ at[d] = 0
        /\ UNCHANGED <<at, message, power, old, bid, mem, reg, shown, table, spoilt>>
    BY <1>0, <1>3 DEF Notify, Drained, PlacedAt, InPush
  <2>2. pc'[d] \in {"drain", "push", "bid"}
    <3>1. CASE Notify(d)
      BY <1>a, <3>1 DEF Notify, AfterMessages, BeginPush, Daemons
    <3>2. CASE Drained(d)
      BY <1>a, <3>2 DEF Drained, AfterMessages, BeginPush, Daemons
    <3>. QED
      BY <1>3, <3>1, <3>2
  <2>3. Handled(d, s)
    BY <1>b, <2>1, <2>2 DEF Handled, InPush
  <2>4. ~RowsAreStored(d, s) /\ ~RowIsCopied(d, s)
    BY <1>a, <2>1, <2>2 DEF RowsAreStored, RowIsCopied, Store, Copy
  <2>. QED
    BY <1>f, <2>1, <2>2, <2>3, <2>4
<1>4. CASE Store(d)
  <2>. DEFINE m == Head(queue[d])
  <2>1. m.slot \in Slots /\ m.set \in Settings
    BY <1>0, <1>4, HeadMessage DEF Store, Messages
  <2>2. /\ mem' = [mem EXCEPT ![d][m.slot] = m.set]
        /\ shown' = IF d = "out" THEN Shared(d, m.slot, bid[d][m.slot], m.set) ELSE shown
        /\ spoilt' = [spoilt EXCEPT ![d][m.slot] = @ \/ m.bid # bid[d][m.slot]]
        /\ UNCHANGED <<power, old, bid, reg>>
        /\ pc[d] = "drain"
    BY <1>4 DEF Store
  <2>3. pc'[d] = "issue" /\ message'[d] /\ at'[d] = m.slot
    BY <1>a, <1>4 DEF Store
  <2>4. Handled(d, s)
    BY <2>2, <2>3 DEF Handled, InPush
  <2>5. CASE m.slot # s
    <3>1. /\ mem'[d][s] = mem[d][s] /\ spoilt'[d][s] = spoilt[d][s]
          /\ shown'[d][s] = shown[d][s]
      BY <1>a, <1>b, <2>1, <2>2, <2>5 DEF Shared
    <3>2. ~RowsAreStored(d, s) /\ ~RowIsCopied(d, s)
      BY <2>2, <2>5 DEF RowsAreStored, RowIsCopied, Copy
    <3>. QED
      BY <1>f, <2>2, <2>3, <2>4, <3>1, <3>2
  <2>6. CASE m.slot = s
    <3>1. mem'[d][s] = m.set /\ spoilt'[d][s] = (spoilt[d][s] \/ m.bid # bid[d][s])
      BY <1>a, <1>b, <2>1, <2>2, <2>6
    <3>2. d = "out" => shown'[d][s] = [bid |-> bid'[d][s], set |-> mem'[d][s]]
      BY <1>a, <1>b, <2>1, <2>2, <2>6, <3>1 DEF Shared
    <3>3. RowServes(d, s)'
      <4>. SUFFICES ASSUME ~spoilt'[d][s]
                    PROVE  HasRow(s, bid[d][s])' /\ RowOf(s, bid[d][s])' = mem'[d][s]
        BY DEF RowServes
      <4>1. ~spoilt[d][s] /\ m.bid = bid[d][s] /\ bid[d][s] \in Own(d)
        BY <2>2, <3>1
      <4>2. HasRow(s, bid[d][s])
        BY <1>c, <2>4, <4>1 DEF RowServes
      <4>3. PICK i \in DOMAIN table[s] : OwnRows(d, s) = {i} /\ table[s][i].bid = bid[d][s]
        BY <1>0, <1>b, <4>1, <4>2, TheOwnRow
      <4>4. i \in Nat
        BY <1>0, <1>b, RowsAreRecords
      <4>5. table'[s] = Updated(table[s], m.bid, m.set)
        BY <1>4, <1>a, <1>b, <2>6 DEF Store
      <4>6. /\ DOMAIN table'[s] = DOMAIN table[s]
            /\ \A j \in DOMAIN table[s] :
                 /\ table'[s][j].bid = table[s][j].bid
                 /\ table'[s][j].set = IF table[s][j].bid = m.bid THEN m.set ELSE table[s][j].set
        BY <1>a, <1>b, <2>1, <4>5, UpdatedRows
      <4>7. OwnRows(d, s)' = {i}
        BY <4>3, <4>6 DEF OwnRows
      <4>8. table'[s][i].bid = bid'[d][s] /\ table'[s][i].set = mem'[d][s]
        BY <2>2, <3>1, <4>1, <4>3, <4>6
      <4>. QED
        BY <1>b, <4>4, <4>7, <4>8, RowIsFoundNext
    <3>. QED
      BY <1>e, <2>3, <2>6, <3>2, <3>3
  <2>. QED
    BY <2>5, <2>6
<1>5. CASE Empty(d)
  <2>1. PICK k \in Slots :
          /\ Turn(d, k) /\ Pulled(d, k) /\ at' = [at EXCEPT ![d] = k]
          /\ shown' = IF d = "out" THEN Shared(d, k, NoBoard, mem[d][k]) ELSE shown
          /\ spoilt' = [spoilt EXCEPT ![Other(d)][k] = TRUE]
          /\ UNCHANGED <<pc, message, power, old, bid, mem, reg>>
    BY <1>5 DEF Empty, Handles
  <2>2. at'[d] = k /\ pc[d] = "push" /\ k \in Nat
    BY <1>a, <2>1, SlotsAreNumbers DEF Turn
  <2>3. s # k
    BY <1>d, <2>1 DEF Pulled
  <2>4. Handled(d, s)
    <3>1. CASE old[d][s] = bid[d][s] /\ ~power[d]
      BY <3>1 DEF Handled
    <3>2. CASE s < k
      BY <2>1, <3>2, HandledBeforeTurn
    <3>. QED
      BY <1>b, <2>1, <2>2, <2>3, <3>1, <3>2 DEF Handled
  <2>5. shown'[d][s] = shown[d][s] /\ spoilt'[d][s] = spoilt[d][s]
    BY <1>a, <1>b, <2>1, <2>3 DEF Shared, Other, Daemons
  <2>6. ~RowsAreStored(d, s) /\ ~RowIsCopied(d, s)
    BY <2>2 DEF RowsAreStored, RowIsCopied, Store, Copy
  <2>. QED
    BY <1>f, <2>1, <2>2, <2>4, <2>5, <2>6
<1>6. CASE Delete(d)
  <2>1. PICK k \in Slots :
          /\ Turn(d, k) /\ Pushed(d, k) /\ at' = [at EXCEPT ![d] = k]
          /\ pc' = [pc EXCEPT ![d] = "copy"]
          /\ spoilt' = [spoilt EXCEPT ![Other(d)][k] = TRUE]
          /\ UNCHANGED <<message, power, old, bid, mem, reg, shown>>
    BY <1>6 DEF Delete, Handles
  <2>2. at'[d] = k /\ pc[d] = "push" /\ pc'[d] = "copy" /\ k \in Nat
    BY <1>a, <2>1, SlotsAreNumbers DEF Turn
  <2>3. s # k
    BY <1>b, <2>1, <2>2 DEF Pushed, Handled
  <2>4. Handled(d, s)
    <3>1. CASE old[d][s] = bid[d][s] /\ ~power[d]
      BY <3>1 DEF Handled
    <3>2. CASE s < k
      BY <2>1, <3>2, HandledBeforeTurn
    <3>. QED
      BY <1>b, <2>1, <2>2, <2>3, <3>1, <3>2 DEF Handled
  <2>5. spoilt'[d][s] = spoilt[d][s]
    BY <1>a, <1>b, <2>1, <2>3 DEF Other, Daemons
  <2>6. ~RowsAreStored(d, s) /\ ~RowIsCopied(d, s)
    BY <2>2 DEF RowsAreStored, RowIsCopied, Store, Copy
  <2>. QED
    BY <1>f, <2>1, <2>2, <2>3, <2>4, <2>5, <2>6
<1>7. CASE Copy(d)
  <2>1. /\ pc[d] = "copy" /\ pc'[d] = "read"
        /\ UNCHANGED <<at, message, power, old, bid, mem, reg, shown, spoilt>>
    BY <1>a, <1>7 DEF Copy
  <2>2. s # at[d] /\ Handled(d, s)
    BY <1>0, <1>b, <2>1 DEF Handled, InPush, PlacedAt
  <2>3. ~RowsAreStored(d, s) /\ ~RowIsCopied(d, s)
    BY <2>1, <2>2 DEF RowsAreStored, RowIsCopied, Store
  <2>. QED
    BY <1>f, <2>1, <2>2, <2>3
<1>8. CASE Read(d)
  <2>1. PICK k \in Slots :
          /\ Reads(d, k) /\ at' = [at EXCEPT ![d] = k]
          /\ IF HasRow(k, bid[d][k]) THEN Loaded(d, k, RowOf(k, bid[d][k]))
                                     ELSE d = "out" /\ Loaded(d, k, {Junk})
          /\ UNCHANGED <<table, reg>>
    BY <1>8 DEF Read
  <2>2. PICK set \in {RowOf(k, bid[d][k]), {Junk}} :
          /\ Loaded(d, k, set)
          /\ HasRow(k, bid[d][k]) => set = RowOf(k, bid[d][k])
    BY <2>1
  <2>3. /\ at'[d] = k /\ pc'[d] = "issue" /\ k \in Nat
        /\ UNCHANGED <<message, power, old, bid>>
    BY <1>a, <2>1, <2>2, SlotsAreNumbers DEF Loaded
  <2>4. mem' = [mem EXCEPT ![d][k] = set]
    BY <2>2 DEF Loaded
  <2>5. shown' = IF d = "out" THEN Shared(d, k, bid[d][k], set) ELSE shown
    BY <2>2 DEF Loaded
  <2>6. spoilt' = [spoilt EXCEPT ![d][k] = ~HasRow(k, bid[d][k])]
    BY <2>2 DEF Loaded
  <2>7. CASE s = k
    <3>1. mem'[d][s] = set /\ spoilt'[d][s] = ~HasRow(s, bid[d][s])
      BY <1>a, <1>b, <2>4, <2>6, <2>7
    <3>2. d = "out" => shown'[d][s] = [bid |-> bid'[d][s], set |-> mem'[d][s]]
      BY <1>a, <1>b, <2>3, <2>5, <2>7, <3>1 DEF Shared
    <3>3. RowServes(d, s)'
      <4>1. HasRow(s, bid[d][s])' = HasRow(s, bid[d][s])
        BY <2>1, <2>3 DEF HasRow, RowsFor
      <4>2. RowOf(s, bid[d][s])' = RowOf(s, bid[d][s])
        BY <2>1, <2>3 DEF RowOf, RowsFor
      <4>. QED
        BY <2>2, <2>7, <3>1, <4>1, <4>2 DEF RowServes
    <3>. QED
      BY <1>e, <2>3, <2>7, <3>2, <3>3
  <2>8. CASE s # k
    <3>1. /\ mem'[d][s] = mem[d][s] /\ spoilt'[d][s] = spoilt[d][s]
          /\ shown'[d][s] = shown[d][s]
      BY <1>a, <1>b, <2>1, <2>4, <2>5, <2>6, <2>8 DEF Shared
    <3>2. pc[d] \in {"read", "push"} /\ (pc[d] = "read" => k = at[d])
      BY <2>1 DEF Reads, Turn
    <3>3. Handled(d, s)
      <4>1. CASE old[d][s] = bid[d][s] /\ ~power[d]
        BY <4>1 DEF Handled
      <4>2. CASE s < k
        <5>1. CASE pc[d] = "read"
          BY <3>2, <4>2, <5>1 DEF Handled, InPush
        <5>2. CASE pc[d] = "push"
          <6>1. Turn(d, k)
            BY <2>1, <5>2 DEF Reads
          <6>. QED
            BY <2>3, <4>2, <6>1, HandledBeforeTurn
        <5>. QED
          BY <3>2, <5>1, <5>2
      <4>. QED
        BY <1>b, <2>3, <2>8, <4>1, <4>2 DEF Handled
    <3>4. ~RowsAreStored(d, s) /\ ~RowIsCopied(d, s)
      BY <3>2 DEF RowsAreStored, RowIsCopied, Store, Copy
    <3>. QED
      BY <1>f, <2>1, <2>3, <3>1, <3>2, <3>3, <3>4
  <2>. QED
    BY <2>7, <2>8
<1>9. CASE ReadFails(d) \/ Dies(d)
  <2>1. bid'[d][s] = NoBoard
    BY <1>a, <1>b, <1>9 DEF ReadFails, Dies, Gone
  <2>. QED
    BY <1>d, <2>1
<1>10. CASE Issue(d)
  <2>1. /\ pc[d] = "issue" /\ at[d] \in Slots
        /\ reg' = [reg EXCEPT ![d][at[d]] = mem[d][at[d]]]
        /\ shown' = IF d = "out" THEN Shared(d, at[d], bid[d][at[d]], mem[d][at[d]]) ELSE shown
        /\ UNCHANGED <<power, old, bid, mem, table, spoilt>>
    BY <1>0, <1>10 DEF Issue, PlacedAt
  <2>2. Handled(d, s) /\ pc'[d] # "issue"
    <3>1. CASE message[d]
      <4>1. pc'[d] = "drain"
        BY <1>a, <1>10, <3>1 DEF Issue
      <4>. QED
        BY <2>1, <4>1 DEF Handled, InPush
    <3>2. CASE ~message[d]
      <4>1. pc'[d] = "push" /\ at'[d] = at[d]
        BY <1>a, <1>10, <3>2 DEF Issue, BeginPush
      <4>. QED
        BY <2>1, <3>2, <4>1 DEF Handled, InPush
    <3>. QED
      BY <3>1, <3>2
  <2>3. Served(d, s)
    BY <1>c, <2>1, <2>2
  <2>4. RowServes(d, s)'
    <3>1. HasRow(s, bid[d][s])' = HasRow(s, bid[d][s])
      BY <2>1 DEF HasRow, RowsFor
    <3>2. RowOf(s, bid[d][s])' = RowOf(s, bid[d][s])
      BY <2>1 DEF RowOf, RowsFor
    <3>. QED
      BY <2>1, <2>3, <3>1, <3>2 DEF RowServes, Served
  <2>5. CASE s = at[d]
    <3>1. reg'[d][s] = mem[d][s]
      BY <1>a, <1>b, <2>1, <2>5
    <3>2. d = "out" => shown'[d][s] = [bid |-> bid[d][s], set |-> mem[d][s]]
      BY <1>a, <1>b, <2>1, <2>5 DEF Shared
    <3>. QED
      BY <1>e, <2>1, <2>4, <3>1, <3>2
  <2>6. CASE s # at[d]
    <3>1. reg'[d][s] = reg[d][s] /\ shown'[d][s] = shown[d][s]
      BY <1>a, <1>b, <2>1, <2>6 DEF Shared
    <3>. QED
      BY <1>e, <2>1, <2>3, <2>4, <2>6, <3>1 DEF Served
  <2>. QED
    BY <2>5, <2>6
<1>11. CASE EndPush(d)
  <2>1. /\ pc[d] = "push" /\ Due(d) = {}
        /\ UNCHANGED <<message, bid, mem, reg, shown, table, spoilt>>
        /\ pc'[d] \in {"msgs", "first", "share"}
    BY <1>a, <1>11 DEF EndPush
  <2>2. s > at[d] => ~Pushed(d, s) /\ ~PoweredUp(d, s)
    BY <2>1 DEF Due
  <2>3. Handled(d, s)
    BY <2>1, <2>2, HandledBefore
  <2>4. ~RowsAreStored(d, s) /\ ~RowIsCopied(d, s)
    BY <2>1 DEF RowsAreStored, RowIsCopied, Store, Copy
  <2>. QED
    BY <1>f, <2>1, <2>3, <2>4
<1>12. CASE Share(d)
  <2>1. /\ pc[d] = "share" /\ pc'[d] = "bid"
        /\ UNCHANGED <<at, message, power, old, bid, mem, reg, table, spoilt>>
    BY <1>a, <1>12 DEF Share
  <2>2. d # "out"
    BY <1>0, <2>1 DEF PlacedAt
  <2>3. Handled(d, s)
    BY <2>1 DEF Handled, InPush
  <2>4. ~RowsAreStored(d, s) /\ ~RowIsCopied(d, s)
    BY <2>1 DEF RowsAreStored, RowIsCopied, Store, Copy
  <2>. QED
    BY <1>f, <2>1, <2>2, <2>3, <2>4
<1>. QED
  BY <1>1, <1>2, <1>3, <1>4, <1>5, <1>6, <1>7, <1>8, <1>9, <1>10, <1>11, <1>12 DEF Daemon

LEMMA HandledAreServedStep == IInv /\ [Next]_vars => HandledAreServed'
<1>. SUFFICES ASSUME IInv, [Next]_vars, NEW d \in Daemons, NEW s \in SlotsOf(d),
                     bid'[d][s] \in Own(d), Handled(d, s)'
              PROVE  Served(d, s)'
  BY DEF HandledAreServed
<1>0. TypeOK /\ Placed /\ PlacedAt(d) /\ s \in Slots
  BY SlotsAreNumbers DEF IInv, Placed
<1>1. CASE Daemon(d) \/ Dies(d)
  BY <1>1, ServedByOwnStep
<1>2. ASSUME NEW e \in Daemons, e # d, Daemon(e) \/ Dies(e) PROVE Served(d, s)'
  <2>1. Alone(d)
    BY <1>0, <1>2, OtherIsLeftAlone
  <2>2. Handled(d, s) /\ bid[d][s] \in Own(d)
    BY <2>1 DEF Alone, Handled, InPush
  <2>3. Served(d, s) /\ RowServes(d, s)
    BY <2>2 DEF IInv, HandledAreServed, Served, RowServes
  <2>4. ~RowsAreStored(d, s)
    BY <1>0, <2>1 DEF Alone, RowsAreStored, Store, TypeOK
  <2>5. ~RowIsCopied(d, s)
    BY <1>0, <2>1 DEF Alone, RowIsCopied, Copy, TypeOK
  <2>6. ~(pc'[d] = "copy" /\ at'[d] = s)
    BY <1>0, <2>1, <2>2, SlotsAreNumbers DEF Alone, Handled, InPush, PlacedAt
  <2>7. RowServes(d, s)'
    BY <1>0, <2>1, <2>2, <2>3, <2>4, <2>5, <2>6, RowGoesOnServing DEF Alone
  <2>. QED
    BY <2>1, <2>3, <2>7 DEF Alone, Served, RowServes
<1>3. CASE (\E k \in Slots : SwapBoard(k)) \/ (\E e \in Daemons, k \in Slots : Ask(e, k))
           \/ Send \/ UNCHANGED vars
  <2>1. UNCHANGED <<table, pc, at, message, power, old, bid, mem, reg, shown, spoilt>>
    BY <1>0, <1>3, WorldLeavesAlone
  <2>2. Handled(d, s) /\ bid[d][s] \in Own(d)
    BY <2>1 DEF Handled, InPush
  <2>3. Served(d, s)
    BY <2>2 DEF IInv, HandledAreServed
  <2>4. HasRow(s, bid[d][s])' = HasRow(s, bid[d][s])
    BY <2>1 DEF HasRow, RowsFor
  <2>5. RowOf(s, bid[d][s])' = RowOf(s, bid[d][s])
    BY <2>1 DEF RowOf, RowsFor
  <2>. QED
    BY <2>1, <2>3, <2>4, <2>5 DEF Served, RowServes
<1>. QED
  BY <1>1, <1>2, <1>3 DEF Next
-----------------------------------------------------------------------------
(* What is shown.                                                          *)

(* The shared memory of d-input changes at the end of a round only.        *)
LEMMA OnlyShareShowsIn ==
  ASSUME IInv, [Next]_vars PROVE shown'["in"] = shown["in"] \/ Share("in")
<1>0. TypeOK /\ Placed /\ "in" \in Daemons /\ shown \in [Daemons -> [Slots -> Rows]]
  BY DEF IInv, TypeOK, Daemons
<1>1. CASE Daemon("in") \/ Dies("in")
  BY <1>1 DEF Daemon, Start, ReadBid, Notify, Drained, Store, Empty, Delete, Copy, Read, Loaded,
              ReadFails, Issue, EndPush, Dies
<1>2. ASSUME NEW e \in Daemons, e # "in", Daemon(e) \/ Dies(e) PROVE shown'["in"] = shown["in"]
  BY <1>0, <1>2, OtherIsLeftAlone DEF Alone
<1>3. CASE (\E k \in Slots : SwapBoard(k)) \/ (\E e \in Daemons, k \in Slots : Ask(e, k))
           \/ Send \/ UNCHANGED vars
  BY <1>0, <1>3, WorldLeavesAlone
<1>. QED
  BY <1>1, <1>2, <1>3 DEF Next

LEMMA ShownInStep == IInv /\ [Next]_vars => ShownIn'
<1>. SUFFICES ASSUME IInv, [Next]_vars PROVE ShownIn'
  OBVIOUS
<1>0. TypeOK /\ Placed /\ ShownIn /\ "in" \in Daemons
  BY DEF IInv, Daemons
<1>a. /\ pc \in [Daemons -> Points] /\ power \in [Daemons -> BOOLEAN]
      /\ shown \in [Daemons -> [Slots -> Rows]]
  BY <1>0 DEF TypeOK
<1>1. CASE Share("in")
  <2>1. /\ UNCHANGED <<bid, mem>>
        /\ shown'["in"] = [s \in Slots |-> IF s \in SlotsOf("in")
                             THEN [bid |-> bid["in"][s], set |-> mem["in"][s]]
                             ELSE shown["in"][s]]
    BY <1>0, <1>a, <1>1 DEF Share
  <2>2. SlotsOf("in") \subseteq Slots
    BY <1>0, SlotsAreNumbers
  <2>. QED
    BY <1>0, <2>1, <2>2 DEF ShownIn
<1>2. CASE shown'["in"] = shown["in"] /\ ~Share("in")
  <2>1. CASE Daemon("in") \/ Dies("in")
    <3>1. pc'["in"] # "bid" \/ power'["in"]
      BY <1>0, <1>a, <1>2, <2>1
         DEF Daemon, Start, ReadBid, Notify, Drained, Store, Empty, Delete, Copy, Read, Loaded,
             ReadFails, Issue, EndPush, Dies, Gone, AfterMessages, BeginPush, Handles, Turn
    <3>. QED
      BY <1>0, <1>2, <3>1 DEF ShownIn
  <2>2. CASE UNCHANGED <<pc, power, bid, mem>>
    BY <1>0, <1>2, <2>2 DEF ShownIn
  <2>3. ASSUME NEW e \in Daemons, e # "in", Daemon(e) \/ Dies(e) PROVE ShownIn'
    <3>1. Alone("in")
      BY <1>0, <2>3, OtherIsLeftAlone
    <3>. QED
      BY <1>0, <1>2, <3>1 DEF ShownIn, Alone
  <2>4. CASE (\E k \in Slots : SwapBoard(k)) \/ (\E e \in Daemons, k \in Slots : Ask(e, k))
             \/ Send \/ UNCHANGED vars
    BY <1>0, <2>2, <2>4, WorldLeavesAlone
  <2>. QED
    BY <2>1, <2>3, <2>4 DEF Next
<1>. QED
  BY <1>1, <1>2, OnlyShareShowsIn

(* The row a board is served by is the only one there is of the daemon's   *)
(* kinds, so every such row has the settings in the memory.                *)
LEMMA ServedRows ==
  ASSUME IInv, NEW d \in Daemons, NEW s \in SlotsOf(d), bid[d][s] \in Own(d), Handled(d, s),
         ~spoilt[d][s]
  PROVE  \A i \in OwnRows(d, s) : table[s][i].bid = bid[d][s] /\ table[s][i].set = mem[d][s]
<1>0. TypeOK /\ OneOwnRow /\ s \in Slots
  BY SlotsAreNumbers DEF IInv
<1>1. HasRow(s, bid[d][s]) /\ RowOf(s, bid[d][s]) = mem[d][s]
  BY DEF IInv, HandledAreServed, Served, RowServes
<1>2. PICK i \in DOMAIN table[s] : /\ OwnRows(d, s) = {i}
                                   /\ table[s][i].bid = bid[d][s] /\ table[s][i].set = mem[d][s]
  BY <1>0, <1>1, TheOwnRow
<1>. QED
  BY <1>2

(* What is shown of a slot of d-output covers its rows as long as what is  *)
(* shown stays and no message is stored.                                   *)
LEMMA StaysCovered ==
  ASSUME IInv, [Next]_vars, NEW s \in Slots, shown'["out"][s] = shown["out"][s],
         spoilt["out"][s] => spoilt'["out"][s], ~RowsAreStored("out", s)
  PROVE  Covered(s)'
<1>0. "out" \in Daemons /\ Covered(s)
  BY DEF IInv, ShownOut, Daemons
<1>1. SUFFICES ASSUME shown["out"][s].bid \in Own("out"), ~spoilt["out"][s],
                      NEW i \in OwnRows("out", s)'
               PROVE  table'[s][i].set \subseteq shown["out"][s].set
  BY DEF Covered
<1>2. CASE RowsStay("out", s)
  BY <1>0, <1>1, <1>2 DEF RowsStay, Covered
<1>3. CASE RowsAreGone("out", s)
  BY <1>1, <1>3 DEF RowsAreGone
<1>4. CASE RowIsCopied("out", s)
  <2>1. table'[s][i].set = Default
    BY <1>1, <1>4 DEF RowIsCopied
  <2>. QED
    BY <2>1 DEF Default
<1>. QED
  BY <1>0, <1>2, <1>3, <1>4, OwnRowsStep

LEMMA ShownOutOwnStep ==
  ASSUME IInv, [Next]_vars, Daemon("out") \/ Dies("out"), NEW s \in Slots
  PROVE  WithinShown(s)' /\ Covered(s)'
<1>. DEFINE d == "out"
<1>0. TypeOK /\ OneOwnRow /\ PlacedAt(d) /\ d \in Daemons /\ s \in SlotsOf(d)
  BY SlotsAreNumbers DEF IInv, Placed, Daemons
<1>a. /\ pc \in [Daemons -> Points] /\ at \in [Daemons -> 0..MaxSlot]
      /\ bid \in [Daemons -> [Slots -> Kinds]] /\ mem \in [Daemons -> [Slots -> Settings]]
      /\ shown \in [Daemons -> [Slots -> Rows]] /\ table \in [Slots -> Seq(Rows)]
      /\ spoilt \in [Daemons -> [Slots -> BOOLEAN]]
  BY <1>0 DEF TypeOK
<1>b. mem[d][s] \in {Default, shown[d][s].set}
  BY DEF IInv, ShownOut, WithinShown
<1>c. NoBoard \notin Own(d)
  BY <1>0, KindsAreApart
(* A slot of which neither the memory nor what is shown changes.           *)
<1>d. ASSUME mem'[d][s] = mem[d][s], shown'[d][s] = shown[d][s],
             spoilt[d][s] => spoilt'[d][s], ~RowsAreStored(d, s)
      PROVE  WithinShown(s)' /\ Covered(s)'
  BY <1>b, <1>d, StaysCovered DEF WithinShown
<1>1. CASE Start(d) \/ ReadBid(d) \/ Notify(d) \/ Drained(d) \/ EndPush(d)
  <2>1. UNCHANGED <<mem, shown, spoilt, queue>> /\ ~Store(d)
    <3>1. UNCHANGED <<mem, shown, spoilt, queue>>
      BY <1>1 DEF Start, ReadBid, Notify, Drained, EndPush
    <3>2. ASSUME Store(d) PROVE FALSE
      <4>1. queue'[d] = Tail(queue[d]) /\ queue[d] # <<>>
        BY <1>0, <3>2 DEF Store, TypeOK
      <4>2. Len(queue'[d]) = Len(queue[d]) - 1 /\ Len(queue[d]) \in Nat
        BY <1>0, <4>1, HeadMessage
      <4>. QED
        BY <3>1, <4>2
    <3>. QED
      BY <3>1, <3>2
  <2>. QED
    BY <1>d, <2>1 DEF RowsAreStored
<1>2. CASE Store(d)
  <2>. DEFINE m == Head(queue[d])
  <2>1. m.slot \in Slots /\ m.set \in Settings
    BY <1>0, <1>2, HeadMessage DEF Store, Messages
  <2>2. /\ mem' = [mem EXCEPT ![d][m.slot] = m.set]
        /\ shown' = Shared(d, m.slot, bid[d][m.slot], m.set)
        /\ spoilt' = [spoilt EXCEPT ![d][m.slot] = @ \/ m.bid # bid[d][m.slot]]
        /\ pc[d] = "drain"
    BY <1>2 DEF Store
  <2>3. CASE m.slot # s
    <3>1. /\ mem'[d][s] = mem[d][s] /\ spoilt'[d][s] = spoilt[d][s]
          /\ shown'[d][s] = shown[d][s]
      BY <1>0, <1>a, <2>1, <2>2, <2>3 DEF Shared
    <3>. QED
      BY <1>d, <2>3, <3>1 DEF RowsAreStored
  <2>4. CASE m.slot = s
    <3>1. mem'[d][s] = m.set /\ spoilt'[d][s] = (spoilt[d][s] \/ m.bid # bid[d][s])
      BY <1>0, <1>a, <2>1, <2>2, <2>4
    <3>2. shown'[d][s] = [bid |-> bid[d][s], set |-> m.set]
      BY <1>0, <1>a, <2>1, <2>2, <2>4 DEF Shared
    <3>3. ASSUME bid[d][s] \in Own(d), ~spoilt[d][s], m.bid = bid[d][s],
                 NEW i \in OwnRows(d, s)'
          PROVE  table'[s][i].set \subseteq m.set
      <4>1. Handled(d, s)
        BY <1>0, <2>2 DEF PlacedAt, Handled
      <4>2. table'[s] = Updated(table[s], m.bid, m.set)
        BY <1>2, <1>a, <2>4 DEF Store
      <4>3. /\ DOMAIN table'[s] = DOMAIN table[s]
            /\ \A j \in DOMAIN table[s] :
                 /\ table'[s][j].bid = table[s][j].bid
                 /\ table'[s][j].set = IF table[s][j].bid = m.bid THEN m.set ELSE table[s][j].set
        BY <1>a, <2>1, <4>2, UpdatedRows
      <4>4. i \in OwnRows(d, s) /\ i \in DOMAIN table[s]
        BY <3>3, <4>3 DEF OwnRows
      <4>5. table[s][i].bid = m.bid
        BY <1>0, <3>3, <4>1, <4>4, ServedRows
      <4>. QED
        BY <4>3, <4>4, <4>5
    <3>4. ~spoilt'[d][s] => ~spoilt[d][s] /\ m.bid = bid[d][s]
      BY <3>1, Zenon
    <3>5. WithinShown(s)'
      BY <3>1, <3>2 DEF WithinShown
    <3>6. Covered(s)'
      BY <3>2, <3>3, <3>4 DEF Covered
    <3>. QED
      BY <3>5, <3>6
  <2>. QED
    BY <2>3, <2>4
<1>3. CASE Empty(d)
  <2>1. PICK k \in Slots :
          /\ Turn(d, k) /\ shown' = Shared(d, k, NoBoard, mem[d][k])
          /\ spoilt' = [spoilt EXCEPT ![Other(d)][k] = TRUE]
          /\ UNCHANGED mem
    BY <1>3 DEF Empty, Handles
  <2>2. spoilt'[d][s] = spoilt[d][s]
    BY <1>0, <1>a, <2>1 DEF Other, Daemons
  <2>3. ~RowsAreStored(d, s)
    BY <2>1 DEF RowsAreStored, Store, Turn
  <2>4. CASE s # k
    <3>1. shown'[d][s] = shown[d][s]
      BY <1>0, <1>a, <2>1, <2>4 DEF Shared
    <3>. QED
      BY <1>d, <2>1, <2>2, <2>3, <3>1
  <2>5. CASE s = k
    <3>1. shown'[d][s] = [bid |-> NoBoard, set |-> mem[d][s]]
      BY <1>0, <1>a, <2>1, <2>5 DEF Shared
    <3>. QED
      BY <1>c, <2>1, <3>1 DEF Covered, WithinShown
  <2>. QED
    BY <2>4, <2>5
<1>4. CASE Delete(d)
  <2>1. PICK k \in Slots :
          /\ Turn(d, k) /\ spoilt' = [spoilt EXCEPT ![Other(d)][k] = TRUE]
          /\ UNCHANGED <<mem, shown>>
    BY <1>4 DEF Delete, Handles
  <2>2. spoilt'[d][s] = spoilt[d][s]
    BY <1>0, <1>a, <2>1 DEF Other, Daemons
  <2>3. ~RowsAreStored(d, s)
    BY <2>1 DEF RowsAreStored, Store, Turn
  <2>. QED
    BY <1>d, <2>1, <2>2, <2>3
<1>5. CASE Copy(d) \/ Share(d)
  <2>1. Copy(d)
    BY <1>0, <1>5 DEF Share, PlacedAt
  <2>2. pc[d] = "copy" /\ UNCHANGED <<mem, shown, spoilt>>
    BY <2>1 DEF Copy
  <2>3. ~RowsAreStored(d, s)
    BY <2>2 DEF RowsAreStored, Store
  <2>. QED
    BY <1>d, <2>2, <2>3
<1>6. CASE Read(d)
  <2>1. PICK k \in Slots :
          /\ Reads(d, k)
          /\ IF HasRow(k, bid[d][k]) THEN Loaded(d, k, RowOf(k, bid[d][k]))
                                     ELSE d = "out" /\ Loaded(d, k, {Junk})
          /\ UNCHANGED table
    BY <1>6 DEF Read
  <2>2. PICK set \in {RowOf(k, bid[d][k]), {Junk}} :
          /\ Loaded(d, k, set)
          /\ HasRow(k, bid[d][k]) => set = RowOf(k, bid[d][k])
    BY <2>1
  <2>3. mem' = [mem EXCEPT ![d][k] = set]
    BY <2>2 DEF Loaded
  <2>4. shown' = Shared(d, k, bid[d][k], set)
    BY <2>2 DEF Loaded
  <2>5. spoilt' = [spoilt EXCEPT ![d][k] = ~HasRow(k, bid[d][k])]
    BY <2>2 DEF Loaded
  <2>6. ~RowsAreStored(d, s)
    BY <2>1 DEF RowsAreStored, Store, Reads, Turn
  <2>7. CASE s # k
    <3>1. /\ mem'[d][s] = mem[d][s] /\ spoilt'[d][s] = spoilt[d][s]
          /\ shown'[d][s] = shown[d][s]
      BY <1>0, <1>a, <2>3, <2>4, <2>5, <2>7 DEF Shared
    <3>. QED
      BY <1>d, <2>6, <3>1
  <2>8. CASE s = k
    <3>1. mem'[d][s] = set /\ spoilt'[d][s] = ~HasRow(s, bid[d][s])
      BY <1>0, <1>a, <2>3, <2>5, <2>8
    <3>2. shown'[d][s] = [bid |-> bid[d][s], set |-> set]
      BY <1>0, <1>a, <2>4, <2>8 DEF Shared
    <3>3. ASSUME bid[d][s] \in Own(d), HasRow(s, bid[d][s]), NEW i \in OwnRows(d, s)'
          PROVE  table'[s][i].set \subseteq set
      <4>1. OwnRows(d, s)' = OwnRows(d, s)
        BY <2>1 DEF OwnRows
      <4>2. table[s][i].set = RowOf(s, bid[d][s])
        BY <1>0, <3>3, <4>1, TheOwnRow
      <4>. QED
        BY <2>1, <2>2, <2>8, <3>3, <4>2
    <3>4. ~spoilt'[d][s] => HasRow(s, bid[d][s])
      BY <3>1, Zenon
    <3>5. WithinShown(s)'
      BY <3>1, <3>2 DEF WithinShown
    <3>6. Covered(s)'
      BY <3>2, <3>3, <3>4 DEF Covered
    <3>. QED
      BY <3>5, <3>6
  <2>. QED
    BY <2>7, <2>8
<1>7. CASE ReadFails(d) \/ Dies(d)
  <2>1. /\ mem' = [mem EXCEPT ![d] = [k \in Slots |-> Default]]
        /\ UNCHANGED <<shown, spoilt, queue>>
        /\ pc'[d] = "off"
    BY <1>0, <1>7, <1>a DEF ReadFails, Dies, Gone
  <2>2. ~RowsAreStored(d, s)
    BY <1>0, <1>a, <2>1 DEF RowsAreStored, Store
  <2>3. mem'[d][s] = Default
    BY <1>0, <1>a, <2>1
  <2>. QED
    BY <2>1, <2>2, <2>3, StaysCovered DEF WithinShown
<1>8. CASE Issue(d)
  <2>1. /\ pc[d] = "issue" /\ at[d] \in Slots /\ UNCHANGED <<bid, mem, table, spoilt>>
        /\ shown' = Shared(d, at[d], bid[d][at[d]], mem[d][at[d]])
    BY <1>0, <1>8 DEF Issue, PlacedAt
  <2>2. ~RowsAreStored(d, s)
    BY <2>1 DEF RowsAreStored, Store
  <2>3. CASE s # at[d]
    <3>1. shown'[d][s] = shown[d][s]
      BY <1>0, <1>a, <2>1, <2>3 DEF Shared
    <3>. QED
      BY <1>d, <2>1, <2>2, <3>1
  <2>4. CASE s = at[d]
    <3>1. shown'[d][s] = [bid |-> bid[d][s], set |-> mem[d][s]]
      BY <1>0, <1>a, <2>1, <2>4 DEF Shared
    <3>2. Handled(d, s)
      BY <1>0, <2>1, <2>4 DEF PlacedAt, Handled, InPush
    <3>3. ASSUME bid[d][s] \in Own(d), ~spoilt[d][s], NEW i \in OwnRows(d, s)'
          PROVE  table'[s][i].set \subseteq mem[d][s]
      <4>1. OwnRows(d, s)' = OwnRows(d, s)
        BY <2>1 DEF OwnRows
      <4>. QED
        BY <1>0, <2>1, <3>2, <3>3, <4>1, ServedRows
    <3>. QED
      BY <2>1, <3>1, <3>3 DEF Covered, WithinShown
  <2>. QED
    BY <2>3, <2>4
<1>. QED
  BY <1>1, <1>2, <1>3, <1>4, <1>5, <1>6, <1>7, <1>8 DEF Daemon

LEMMA ShownOutStep == IInv /\ [Next]_vars => ShownOut'
<1>. SUFFICES ASSUME IInv, [Next]_vars, NEW s \in Slots
              PROVE  WithinShown(s)' /\ Covered(s)'
  BY DEF ShownOut
<1>0. TypeOK /\ Placed /\ "out" \in Daemons
  BY DEF IInv, Daemons
<1>b. mem["out"][s] \in {Default, shown["out"][s].set}
  BY DEF IInv, ShownOut, WithinShown
<1>1. CASE Daemon("out") \/ Dies("out")
  BY <1>1, ShownOutOwnStep
<1>2. ASSUME NEW e \in Daemons, e # "out", Daemon(e) \/ Dies(e)
      PROVE  WithinShown(s)' /\ Covered(s)'
  <2>1. Alone("out")
    BY <1>0, <1>2, OtherIsLeftAlone
  <2>2. ~RowsAreStored("out", s)
    BY <1>0, <2>1 DEF Alone, RowsAreStored, Store, TypeOK
  <2>. QED
    BY <1>b, <2>1, <2>2, StaysCovered DEF WithinShown, Alone
<1>3. CASE (\E k \in Slots : SwapBoard(k)) \/ (\E e \in Daemons, k \in Slots : Ask(e, k))
           \/ Send \/ UNCHANGED vars
  <2>1. UNCHANGED <<table, pc, mem, shown, spoilt>>
    BY <1>0, <1>3, WorldLeavesAlone
  <2>2. ~RowsAreStored("out", s)
    BY <1>0, <2>1 DEF RowsAreStored, Store, TypeOK
  <2>. QED
    BY <1>b, <2>1, <2>2, StaysCovered DEF WithinShown
<1>. QED
  BY <1>1, <1>2, <1>3 DEF Next
-----------------------------------------------------------------------------
(* What the messages contain.                                              *)

(* But for a message, the memory of a slot gets what a row of the daemon   *)
(* holds, or is new.                                                       *)
LEMMA MemoryStep ==
  ASSUME IInv, [Next]_vars, NEW d \in Daemons, NEW s \in Slots, ~Store(d)
  PROVE  \/ mem'[d][s] = mem[d][s] \/ mem'[d][s] \in {Default, {Junk}}
         \/ \E i \in OwnRows(d, s) : mem'[d][s] = table[s][i].set
<1>0. TypeOK /\ OneOwnRow /\ Placed /\ mem \in [Daemons -> [Slots -> Settings]]
  BY DEF IInv, TypeOK
<1>1. CASE UNCHANGED mem
  BY <1>1
<1>2. CASE Start(d) \/ ReadBid(d) \/ Notify(d) \/ Drained(d) \/ Empty(d) \/ Delete(d) \/ Copy(d)
           \/ Issue(d) \/ EndPush(d) \/ Share(d)
  BY <1>1, <1>2 DEF Start, ReadBid, Notify, Drained, Empty, Delete, Copy, Issue, EndPush, Share
<1>3. CASE ReadFails(d) \/ Dies(d)
  BY <1>0, <1>3 DEF ReadFails, Dies, Gone
<1>4. CASE Read(d)
  <2>1. PICK k \in Slots :
          /\ Reads(d, k)
          /\ IF HasRow(k, bid[d][k]) THEN Loaded(d, k, RowOf(k, bid[d][k]))
                                     ELSE d = "out" /\ Loaded(d, k, {Junk})
    BY <1>4 DEF Read
  <2>2. bid[d][k] \in Own(d)
    BY <1>0, <2>1, ReadsOwn
  <2>3. CASE HasRow(k, bid[d][k])
    <3>1. mem' = [mem EXCEPT ![d][k] = RowOf(k, bid[d][k])]
      BY <2>1, <2>3 DEF Loaded
    <3>2. \E i \in OwnRows(d, k) : RowOf(k, bid[d][k]) = table[k][i].set
      BY <1>0, <2>2, <2>3, TheOwnRow
    <3>. QED
      BY <1>0, <3>1, <3>2
  <2>4. CASE ~HasRow(k, bid[d][k])
    <3>1. mem' = [mem EXCEPT ![d][k] = {Junk}]
      BY <2>1, <2>4 DEF Loaded
    <3>. QED
      BY <1>0, <3>1
  <2>. QED
    BY <2>3, <2>4
<1>5. ASSUME NEW e \in Daemons, e # d, Daemon(e) \/ Dies(e) PROVE mem'[d][s] = mem[d][s]
  BY <1>0, <1>5, OtherIsLeftAlone DEF Alone
<1>6. CASE (\E k \in Slots : SwapBoard(k)) \/ (\E e \in Daemons, k \in Slots : Ask(e, k))
           \/ Send \/ UNCHANGED vars
  BY <1>0, <1>1, <1>6, WorldLeavesAlone
<1>. QED
  BY <1>2, <1>3, <1>4, <1>5, <1>6 DEF Next, Daemon

(* A message that contains what there is goes on doing so until one is     *)
(* stored.                                                                 *)
LEMMA GoesOnContaining ==
  ASSUME IInv, [Next]_vars, NEW d \in Daemons, NEW m, m.slot \in Slots, Contains(d, m), ~Store(d)
  PROVE  Contains(d, m)'
<1>. DEFINE s == m.slot
<1>1. mem'[d][s] \ {Junk} \subseteq m.set
  <2>1. CASE mem'[d][s] = mem[d][s]
    BY <2>1 DEF Contains
  <2>2. CASE mem'[d][s] \in {Default, {Junk}}
    BY <2>2 DEF Default
  <2>3. CASE \E i \in OwnRows(d, s) : mem'[d][s] = table[s][i].set
    BY <2>3 DEF Contains
  <2>. QED
    BY <2>1, <2>2, <2>3, MemoryStep
<1>2. ASSUME NEW i \in OwnRows(d, s)' PROVE table'[s][i].set \subseteq m.set
  <2>1. CASE RowsStay(d, s)
    BY <1>2, <2>1 DEF RowsStay, Contains
  <2>2. CASE RowsAreGone(d, s)
    BY <1>2, <2>2 DEF RowsAreGone
  <2>3. CASE RowIsCopied(d, s)
    <3>1. table'[s][i].set = Default
      BY <1>2, <2>3 DEF RowIsCopied
    <3>. QED
      BY <3>1 DEF Default
  <2>. QED
    BY <2>1, <2>2, <2>3, OwnRowsStep DEF RowsAreStored
<1>. QED
  BY <1>1, <1>2 DEF Contains

(* What a command reads while the copies agree contains what there is.     *)
LEMMA AskedContains ==
  ASSUME IInv, NEW d \in Daemons, NEW s \in Slots, shown[d][s].bid \in Own(d), Top(d),
         ~spoilt[d][s]
  PROVE  /\ mem[d][s] \subseteq shown[d][s].set
         /\ \A i \in OwnRows(d, s) : table[s][i].set \subseteq shown[d][s].set
<1>0. TypeOK /\ PlacedAt(d)
  BY DEF IInv, Placed
<1>1. CASE d = "in"
  <2>1. pc[d] = "bid" /\ ~power[d]
    BY <1>1 DEF Top
  <2>2. s \in SlotsOf(d)
    BY <1>1, KindsAreApart DEF IInv, ShownIn
  <2>3. shown[d][s] = [bid |-> bid[d][s], set |-> mem[d][s]]
    BY <1>1, <2>1, <2>2 DEF IInv, ShownIn
  <2>4. bid[d][s] \in Own(d) /\ Handled(d, s)
    BY <1>0, <2>1, <2>3 DEF PlacedAt, Handled
  <2>. QED
    BY <2>2, <2>3, <2>4, ServedRows
<1>2. CASE d = "out"
  <2>1. mem[d][s] \in {Default, shown[d][s].set}
    BY <1>2 DEF IInv, ShownOut, WithinShown
  <2>2. \A i \in OwnRows(d, s) : table[s][i].set \subseteq shown[d][s].set
    BY <1>2 DEF IInv, ShownOut, Covered
  <2>. QED
    BY <2>1, <2>2 DEF Default
<1>. QED
  BY <1>1, <1>2 DEF Daemons

LEMMA AskedStep == IInv /\ [Next]_vars => AskedIsSound'
<1>. SUFFICES ASSUME IInv, [Next]_vars, asked' # Nobody
              PROVE  /\ asked'.bid \in Own(asked'.daemon)
                     /\ asked'.alone => queue'[asked'.daemon] = <<>> /\ Contains(asked.daemon, asked)'
  BY DEF AskedIsSound
<1>0. TypeOK /\ AskedIsSound /\ queue \in [Daemons -> Seq(Messages)]
  BY DEF IInv, TypeOK
<1>1. ASSUME NEW d \in Daemons, NEW s \in Slots, Ask(d, s)
      PROVE  /\ asked'.bid \in Own(asked'.daemon)
             /\ asked'.alone => queue'[asked'.daemon] = <<>> /\ Contains(asked.daemon, asked)'
  <2>1. /\ asked'.daemon = d /\ asked'.slot = s /\ asked'.bid = shown[d][s].bid
        /\ asked'.set = shown[d][s].set \union {commands + 1}
        /\ asked'.alone = (Top(d) /\ queue[d] = <<>> /\ ~spoilt[d][s])
        /\ shown[d][s].bid \in Own(d) /\ UNCHANGED <<table, queue, mem>>
    BY <1>1 DEF Ask, daemonVars
  <2>2. ASSUME asked'.alone PROVE Top(d) /\ queue[d] = <<>> /\ ~spoilt[d][s]
    BY <2>1, <2>2, Zenon
  <2>3. ASSUME asked'.alone PROVE Contains(asked.daemon, asked)'
    <3>1. /\ mem[d][s] \subseteq shown[d][s].set
          /\ \A i \in OwnRows(d, s) : table[s][i].set \subseteq shown[d][s].set
      BY <2>1, <2>2, <2>3, AskedContains
    <3>. QED
      BY <2>1, <3>1 DEF Contains, OwnRows
  <2>. QED
    BY <2>1, <2>2, <2>3
<1>2. CASE Send
  BY <1>2 DEF Send
(* With no message waiting none is stored.                                 *)
<1>3. CASE asked' = asked /\ \A d \in Daemons : queue[d] = <<>> => queue'[d] = <<>>
  <2>1. PICK m \in {asked} : m = asked'
    BY <1>3
  <2>2. m.daemon \in Daemons /\ m.slot \in Slots /\ m.bid \in Own(m.daemon)
    BY <1>0, <1>3, <2>1 DEF TypeOK, AskedIsSound
  <2>3. ASSUME m.alone PROVE queue[m.daemon] = <<>> /\ Contains(m.daemon, m)
    BY <1>0, <1>3, <2>1, <2>3 DEF AskedIsSound
  <2>4. ASSUME m.alone PROVE Contains(m.daemon, m)'
    <3>1. ~Store(m.daemon)
      BY <2>3, <2>4 DEF Store
    <3>. QED
      BY <2>2, <2>3, <2>4, <3>1, GoesOnContaining
  <2>. QED
    BY <1>3, <2>1, <2>2, <2>3, <2>4
<1>4. ASSUME NEW e \in Daemons, Daemon(e) \/ Dies(e)
      PROVE  asked' = asked /\ \A d \in Daemons : queue[d] = <<>> => queue'[d] = <<>>
  <2>1. CASE Store(e)
    BY <1>0, <2>1 DEF Store
  <2>2. CASE UNCHANGED <<asked, queue>>
    BY <2>2
  <2>. QED
    BY <1>4, <2>1, <2>2 DEF Daemon, Start, ReadBid, Notify, Drained, Empty, Delete, Copy, Read, ReadFails,
                            Issue, EndPush, Share, Dies
<1>5. CASE (\E s \in Slots : SwapBoard(s)) \/ UNCHANGED vars
  <2>1. UNCHANGED <<asked, queue>>
    BY <1>5 DEF SwapBoard, vars
  <2>. QED
    BY <1>3, <2>1
<1>. QED
  BY <1>1, <1>2, <1>3, <1>4, <1>5 DEF Next

LEMMA QueueStep == IInv /\ [Next]_vars => QueueIsSound'
<1>. SUFFICES ASSUME IInv, [Next]_vars, NEW d \in Daemons, NEW i \in 1..Len(queue'[d])
              PROVE  /\ queue'[d][i].bid \in Own(d)
                     /\ queue'[d][i].alone => i = 1 /\ Contains(d, queue[d][i])'
  BY DEF QueueIsSound
<1>0. TypeOK /\ Placed /\ AskedIsSound /\ QueueIsSound /\ queue \in [Daemons -> Seq(Messages)]
  BY DEF IInv, TypeOK
<1>a. \A j \in 1..Len(queue[d]) : /\ queue[d][j] \in Messages /\ queue[d][j].bid \in Own(d)
                                  /\ queue[d][j].alone => j = 1 /\ Contains(d, queue[d][j])
  BY <1>0 DEF QueueIsSound
(* A message that stays where it is.                                       *)
<1>b. ASSUME i \in 1..Len(queue[d]), queue'[d][i] = queue[d][i], ~Store(d)
      PROVE  /\ queue'[d][i].bid \in Own(d)
             /\ queue'[d][i].alone => i = 1 /\ Contains(d, queue[d][i])'
  <2>1. PICK m \in {queue[d][i]} : m = queue'[d][i]
    BY <1>b
  <2>2. m.slot \in Slots /\ m.bid \in Own(d) /\ (m.alone => i = 1 /\ Contains(d, m))
    BY <1>a, <1>b, <2>1 DEF Messages
  <2>3. m.alone => Contains(d, m)'
    BY <1>b, <2>2, GoesOnContaining
  <2>. QED
    BY <2>1, <2>2, <2>3
<1>1. CASE Store(d)
  <2>1. queue[d] # <<>> /\ queue'[d] = Tail(queue[d])
    BY <1>0, <1>1 DEF Store
  <2>2. i \in Nat /\ i >= 1 /\ i + 1 \in 1..Len(queue[d]) /\ queue'[d][i] = queue[d][i + 1]
    BY <1>0, <2>1, HeadMessage
  <2>3. i + 1 # 1
    BY <2>2
  <2>. QED
    BY <1>a, <2>2, <2>3
<1>2. CASE Send
  <2>1. asked # Nobody /\ UNCHANGED <<table, pc, at, message, power, old, bid, mem, reg, shown, spoilt>>
    BY <1>2 DEF Send
  <2>2. asked.daemon \in Daemons /\ asked.slot \in Slots /\ asked.bid \in Own(asked.daemon)
    BY <1>0, <2>1 DEF TypeOK, AskedIsSound
  <2>3. CASE asked.daemon # d
    <3>1. queue'[d] = queue[d]
      BY <1>0, <1>2, <2>3 DEF Send
    <3>2. ~Store(d)
      BY <1>0, <2>1 DEF Store, TypeOK, Points
    <3>. QED
      BY <1>b, <3>1, <3>2
  <2>4. CASE asked.daemon = d
    <3>. DEFINE new == [slot |-> asked.slot, bid |-> asked.bid, set |-> asked.set, alone |-> asked.alone]
    <3>1. queue'[d] = Append(queue[d], new)
      BY <1>0, <1>2, <2>4 DEF Send
    <3>2. queue[d] \in Seq(Messages) /\ Len(queue'[d]) = Len(queue[d]) + 1
      BY <1>0, <3>1
    <3>3. CASE i \in 1..Len(queue[d])
      <4>1. queue'[d][i] = queue[d][i]
        BY <3>1, <3>2, <3>3
      <4>2. ~Store(d)
        BY <1>0, <2>1 DEF Store, TypeOK, Points
      <4>. QED
        BY <1>b, <3>3, <4>1, <4>2
    <3>4. CASE i = Len(queue[d]) + 1
      <4>1. queue'[d][i] = new
        BY <3>1, <3>2, <3>4
      <4>2. ASSUME asked.alone PROVE i = 1 /\ Contains(d, asked)
        BY <1>0, <2>1, <2>4, <3>4, <4>2 DEF AskedIsSound
      <4>3. ASSUME asked.alone PROVE Contains(d, queue[d][i])'
        BY <2>1, <4>1, <4>2, <4>3 DEF Contains, OwnRows
      <4>. QED
        BY <2>2, <2>4, <4>1, <4>2, <4>3
    <3>. QED
      BY <3>2, <3>3, <3>4
  <2>. QED
    BY <2>3, <2>4
<1>3. CASE queue'[d] = queue[d] /\ ~Store(d)
  BY <1>b, <1>3
<1>4. CASE (\E e \in Daemons : Daemon(e) \/ Dies(e)) /\ ~Store(d)
  <2>1. PICK e \in Daemons : Daemon(e) \/ Dies(e)
    BY <1>4
  <2>2. CASE e # d
    BY <1>0, <1>3, <1>4, <2>1, <2>2, OtherIsLeftAlone DEF Alone
  <2>3. CASE e = d
    BY <1>3, <1>4, <2>1, <2>3
       DEF Daemon, Start, ReadBid, Notify, Drained, Empty, Delete, Copy, Read, ReadFails,
           Issue, EndPush, Share, Dies
  <2>. QED
    BY <2>2, <2>3
<1>5. CASE (\E s \in Slots : SwapBoard(s)) \/ (\E e \in Daemons, s \in Slots : Ask(e, s)) \/ UNCHANGED vars
  <2>1. queue' = queue
    BY <1>5 DEF SwapBoard, Ask, vars
  <2>. QED
    BY <1>1, <1>3, <2>1
<1>. QED
  BY <1>1, <1>2, <1>4, <1>5 DEF Next
-----------------------------------------------------------------------------
(* The invariant holds from the start.                                     *)

LEMMA InitIInv == Init => IInv
<1>. SUFFICES ASSUME Init PROVE IInv
  OBVIOUS
<1>1. TypeOK
  BY InitTypes
<1>2. /\ \A d \in Daemons : pc[d] = "off" /\ at[d] = 0 /\ ~message[d] /\ ~power[d] /\ queue[d] = <<>>
      /\ \A d \in Daemons, s \in Slots : bid[d][s] = NoBoard /\ mem[d][s] = Default
                                         /\ shown[d][s] = [bid |-> NoBoard, set |-> Default]
      /\ \A s \in Slots : table[s] = <<[bid |-> NoBoard, set |-> Default]>>
      /\ asked = Nobody
  BY DEF Init
<1>3. OneOwnRow /\ \A d \in Daemons, s \in Slots : OwnRows(d, s) = {}
  BY <1>2, KindsAreApart DEF OneOwnRow, OwnRows
<1>4. Placed
  BY <1>2 DEF Placed, PlacedAt, InPush
<1>5. HandledAreServed
  BY <1>2, KindsAreApart, SlotsAreNumbers DEF HandledAreServed
<1>6. ShownIn /\ ShownOut
  <2>1. "in" \in Daemons /\ "out" \in Daemons
    BY DEF Daemons
  <2>. QED
    BY <1>2, <2>1, KindsAreApart DEF ShownIn, ShownOut, WithinShown, Covered
<1>7. AskedIsSound /\ QueueIsSound
  <2>1. \A d \in Daemons : Len(queue[d]) = 0
    BY <1>2
  <2>2. 1..0 = {}
    OBVIOUS
  <2>. QED
    BY <1>2, <2>1, <2>2 DEF AskedIsSound, QueueIsSound
<1>. QED
  BY <1>1, <1>3, <1>4, <1>5, <1>6, <1>7 DEF IInv

LEMMA IInvHolds == Spec => []IInv
<1>1. Init => IInv
  BY InitIInv
<1>2. IInv /\ [Next]_vars => IInv'
  BY TypeStep, OneOwnRowStep, PlacedStep, HandledAreServedStep, ShownInStep, ShownOutStep,
     AskedStep, QueueStep DEF IInv
<1>. QED
  BY <1>1, <1>2, PTL DEF Spec

-----------------------------------------------------------------------------
(* The theorems.                                                           *)

(* The types, of any number of slots, boards, commands and restarts.       *)
THEOREM TypeCorrect == Spec => []TypeOK
<1>1. IInv => TypeOK
  BY DEF IInv
<1>. QED
  BY <1>1, IInvHolds, PTL

(* At the top of the loop of a daemon its memory, the FPGA, the shared     *)
(* memory and the table agree on every board it serves, whatever commands, *)
(* exchanges, restarts and rows of the other daemon came in between        *)
(* (BoardPushPull, sysInput, sysOutput).                                   *)
THEOREM FourCopiesAgreeHolds == Spec => []FourCopiesAgree
<1>1. ASSUME IInv, NEW d \in Daemons, Top(d), NEW s \in SlotsOf(d), bid[d][s] \in Own(d)
      PROVE  /\ mem[d][s] = reg[d][s]
             /\ shown[d][s] = [bid |-> bid[d][s], set |-> mem[d][s]]
             /\ ~spoilt[d][s] => HasRow(s, bid[d][s]) /\ RowOf(s, bid[d][s]) = mem[d][s]
  <2>1. /\ pc[d] \in {"bid", "msgs"} /\ ~power[d]
        /\ d = "in" => pc[d] = "bid"
        /\ d = "out" => pc[d] = "msgs"
    BY <1>1 DEF Top
  <2>2. d \in {"in", "out"} /\ s \in Slots
    BY SlotsAreNumbers DEF Daemons
  <2>3. Handled(d, s)
    BY <1>1, <2>1, <2>2 DEF IInv, Placed, PlacedAt, Handled
  <2>4. Served(d, s)
    BY <1>1, <2>3 DEF IInv, HandledAreServed
  <2>5. shown[d][s] = [bid |-> bid[d][s], set |-> mem[d][s]]
    BY <1>1, <2>1, <2>2, <2>4 DEF Served, IInv, ShownIn
  <2>. QED
    BY <2>1, <2>4, <2>5 DEF Served, RowServes
<1>2. IInv => FourCopiesAgree
  BY <1>1 DEF FourCopiesAgree
<1>. QED
  BY <1>2, IInvHolds, PTL

(* A command that read while the copies agreed and nothing was on its way  *)
(* to the daemon contains what the memory has of the slot when it is       *)
(* handled: it undoes no command before it (the comment of sysOutput).     *)
THEOREM OthersAreKeptHolds == Spec => []OthersAreKept
<1>1. ASSUME IInv, NEW d \in Daemons, queue[d] # <<>>, Head(queue[d]).alone
      PROVE  mem[d][Head(queue[d]).slot] \ {Junk} \subseteq Head(queue[d]).set
  <2>1. Head(queue[d]) = queue[d][1] /\ 1 \in 1..Len(queue[d])
    BY <1>1, HeadMessage DEF IInv
  <2>. QED
    BY <1>1, <2>1 DEF IInv, QueueIsSound, Contains
<1>2. IInv => OthersAreKept
  BY <1>1 DEF OthersAreKept
<1>. QED
  BY <1>2, IInvHolds, PTL
=============================================================================
