-------------------------- MODULE SourceSelectProofs --------------------------
(***************************************************************************)
(* Proofs about SourceSelect for every number of slots, every set of       *)
(* boards and every table of priorities: the register, the daemon and the  *)
(* judgement stay together, the free schema takes the best source, and no  *)
(* source is judged by a moment.  The invariant says what the two static   *)
(* counters of Time_Refresh_Strategy are worth: they never run ahead of    *)
(* the rounds that were really seen, and a counter that has passed the     *)
(* threshold belongs to a source that was declared.                        *)
(***************************************************************************)
EXTENDS SourceSelect, SequenceTheorems, WellFoundedInduction, TLAPS

(* The counters count rounds that were seen: a quiet one for alm, one with *)
(* an alarm for unalm.                                                     *)
CountsAreSeen ==
  /\ count.alm <= streak.good \/ streak.good > ValidAfter
  /\ count.unalm <= streak.lost \/ streak.lost > LostAfter

(* Who has been quiet past the threshold is valid.                         *)
QuietIsValid == count.alm > ValidAfter => cs.valid = "valid"

(* Only the operator's commands wait in the queue.                         *)
QueueIsCommanded == Len(queue) <= commands

Reason == {"judged", "event"}

(* The inductive invariant.                                                *)
IInv ==
  /\ TypeOK /\ QueueIsCommanded
  /\ FpgaFollows /\ FreeTakesTheBest
  /\ CountsAreSeen /\ QuietIsValid

-----------------------------------------------------------------------------
(* The tables.                                                             *)

LEMMA Thresholds ==
  /\ MaxSlot \in Nat \ {0}
  /\ ValidAfter \in Nat /\ FreshAfter \in Nat /\ LostAfter \in Nat
  /\ MaxSwaps \in Nat /\ MaxCommands \in Nat /\ MaxStarts \in Nat
  /\ ValidAfter < FreshAfter
BY SelectAssumption DEF SelectAssumption

LEMMA SourcesAreNumbers ==
  /\ NoSource \in Nat /\ NoSource \notin Sources
  /\ Sources \subseteq Nat
  /\ 1 \in Sources
BY Thresholds DEF NoSource, Sources, Types

LEMMA SlotOfSource ==
  ASSUME NEW s \in Sources PROVE SlotOf(s) \in Slots
<1>1. s \in Nat /\ 1 <= s /\ s <= 3 * MaxSlot
  BY Thresholds DEF Sources, NoSource, Types
<1>2. SlotOf(s) = ((s - 1) \div 3) + 1
  BY SourcesAreNumbers DEF SlotOf, Types
<1>3. ((s - 1) \div 3) \in 0..(MaxSlot - 1)
  BY <1>1, Thresholds
<1>. QED
  BY <1>2, <1>3, Thresholds DEF Slots

LEMMA BoardIsKnown ==
  ASSUME NEW b \in [Slots -> Boards], NEW s \in Sources \cup {NoSource}
  PROVE  (IF s = NoSource THEN "none" ELSE b[SlotOf(s)]) \in Boards
BY SlotOfSource DEF Boards

LEMMA TopCounts ==
  ASSUME NEW max \in Nat, NEW n \in 0..max
  PROVE  Top(n, max) \in 0..max /\ (Top(n, max) = n + 1 \/ Top(n, max) = max)
BY DEF Top

(* A set of natural numbers has a least element.                           *)
LEMMA LeastNat ==
  ASSUME NEW S, S \subseteq Nat, S # {}
  PROVE  \E m \in S : \A j \in S : m <= j
<1>1. PICK m \in S : \A j \in S : ~(<<j, m>> \in OpToRel(<, Nat))
  BY NatLessThanWellFounded, WFMin
<1>2. ASSUME NEW j \in S PROVE m <= j
  <2>1. m \in Nat /\ j \in Nat
    OBVIOUS
  <2>2. ~(j < m)
    BY <1>1, <2>1 DEF OpToRel
  <2>. QED
    BY <2>1, <2>2
<1>. QED
  BY <1>2

(* bis_free finds a source if one can be used, and none has a better       *)
(* priority: the comparison by priority and place has a least element.     *)
LEMMA BisFreeIsBest ==
  ASSUME NEW b, NEW al
  PROVE  LET ok == {s \in Sources : Usable(s, b, al)}
         IN  /\ (BisFree(b, al) = NoSource) <=> (ok = {})
             /\ BisFree(b, al) # NoSource =>
                  /\ BisFree(b, al) \in ok
                  /\ \A s \in ok : Prio[BisFree(b, al)] <= Prio[s]
<1>. DEFINE ok == {s \in Sources : Usable(s, b, al)}
            Best(s) == \A t \in ok : Prio[s] < Prio[t] \/ (Prio[s] = Prio[t] /\ s <= t)
<1>1. ok \subseteq Nat /\ NoSource \notin ok
  BY SourcesAreNumbers
<1>2. \A s \in ok : Prio[s] \in Nat
  BY SelectAssumption DEF SelectAssumption, NoPrio
<1>3. CASE ok = {}
  BY <1>3 DEF BisFree
<1>4. CASE ok # {}
  <2>. DEFINE prios == {Prio[s] : s \in ok}
  <2>1. prios \subseteq Nat /\ prios # {}
    BY <1>2, <1>4
  <2>2. PICK p \in prios : \A q \in prios : p <= q
    BY <2>1, LeastNat
  <2>. DEFINE its == {s \in ok : Prio[s] = p}
  <2>3. its \subseteq Nat /\ its # {}
    BY <1>1, <2>2
  <2>4. PICK f \in its : \A t \in its : f <= t
    BY <2>3, LeastNat
  <2>5. Best(f)
    <3>. SUFFICES ASSUME NEW t \in ok
                  PROVE  Prio[f] < Prio[t] \/ (Prio[f] = Prio[t] /\ f <= t)
      OBVIOUS
    <3>1. Prio[f] = p /\ p <= Prio[t] /\ Prio[t] \in Nat /\ p \in Nat
      BY <1>2, <2>1, <2>2, <2>4
    <3>2. Prio[t] = p => f <= t
      BY <2>4
    <3>. QED
      BY <3>1, <3>2
  <2>6. BisFree(b, al) \in ok /\ Best(BisFree(b, al))
    BY <1>4, <2>4, <2>5 DEF BisFree
  <2>7. \A t \in ok : Prio[BisFree(b, al)] <= Prio[t]
    <3>. SUFFICES ASSUME NEW t \in ok PROVE Prio[BisFree(b, al)] <= Prio[t]
      OBVIOUS
    <3>1. Prio[BisFree(b, al)] < Prio[t] \/ Prio[BisFree(b, al)] = Prio[t]
      BY <2>6
    <3>2. Prio[BisFree(b, al)] \in Nat /\ Prio[t] \in Nat
      BY <1>2, <2>6
    <3>. HIDE DEF ok
    <3>. QED
      BY <3>1, <3>2
  <2>. QED
    BY <1>1, <1>4, <2>6, <2>7
<1>. QED
  BY <1>3, <1>4

LEMMA BisFreeType ==
  ASSUME NEW b, NEW al PROVE BisFree(b, al) \in Sources \cup {NoSource}
BY BisFreeIsBest

(* The other commands that may be in the queue name a source as well.      *)
LEMMA HeadOfQueue ==
  ASSUME TypeOK, queue # <<>>
  PROVE  /\ Head(queue) \in Schema /\ Tail(queue) \in Seq(Schema)
         /\ Len(Tail(queue)) = Len(queue) - 1
BY HeadTailProperties DEF TypeOK

-----------------------------------------------------------------------------
(* The start of the manager's life.                                        *)

LEMMA InitIInv == Init => IInv
<1>. SUFFICES ASSUME Init PROVE IInv
  OBVIOUS
<1>1. TypeOK
  <2>1. cs \in [schema : {0, 1}, src : Sources \cup {NoSource}, bid : Boards,
                valid : {"init", "valid", "invalid"}]
    BY SourcesAreNumbers DEF Init, Boards
  <2>2. bid \in [Slots -> Boards] /\ shown \in [Slots -> Boards]
    BY DEF Init, Boards
  <2>3. queue \in Seq(Schema) /\ Len(queue) <= MaxCommands
    BY Thresholds, EmptySeq DEF Init
  <2>4. saved \in Schema
    BY DEF Init, Schema
  <2>5. fast \in BOOLEAN
    BY DEF Init
  <2>6. reg \in [select : Sources \cup {NoSource}, lost : BOOLEAN, fresh : SUBSET Reason]
    BY DEF Init
  <2>. QED
    BY <2>1, <2>2, <2>3, <2>4, <2>5, <2>6, Thresholds DEF Init, TypeOK, Reason
<1>2. QueueIsCommanded
  BY DEF Init, QueueIsCommanded
<1>3. FpgaFollows /\ FreeTakesTheBest
  BY DEF Init, FpgaFollows, RegisterFollows, JudgementIsShared, FreeTakesTheBest
<1>4. CountsAreSeen /\ QuietIsValid
  BY Thresholds DEF Init, CountsAreSeen, QuietIsValid
<1>. QED
  BY <1>1, <1>2, <1>3, <1>4 DEF IInv

-----------------------------------------------------------------------------
(* Types.                                                                  *)

LEMMA SelectedType ==
  ASSUME TypeOK, NEW al
  PROVE  Selected(al) \in [schema : {0, 1}, src : Sources \cup {NoSource},
                           bid : Boards, valid : {"init", "valid", "invalid"}]
<1>1. BisFree(bid, al) \in Sources \cup {NoSource}
  BY BisFreeType
<1>2. BoardOf(BisFree(bid, al)) \in Boards
  BY <1>1, BoardIsKnown DEF BoardOf, TypeOK
<1>. QED
  BY <1>1, <1>2 DEF Selected, TypeOK

LEMMA CountedType ==
  ASSUME TypeOK, NEW c, c.schema \in {0, 1}, NEW al
  PROVE  Counted(c, al) \in [alm : 0..(FreshAfter + 1), unalm : 0..(LostAfter + 1),
                             schema : {0, 1}]
<1>. DEFINE cnt == IF c.schema # count.schema
                   THEN [alm |-> 0, unalm |-> 0, schema |-> c.schema] ELSE count
<1>1. cnt \in [alm : 0..(FreshAfter + 1), unalm : 0..(LostAfter + 1), schema : {0, 1}]
  BY Thresholds DEF TypeOK
<1>2. Top(cnt.alm, FreshAfter + 1) \in 0..(FreshAfter + 1)
  BY <1>1, Thresholds DEF Top
<1>3. Top(cnt.unalm, LostAfter + 1) \in 0..(LostAfter + 1)
  BY <1>1, Thresholds DEF Top
<1>4. 0 \in 0..(FreshAfter + 1) /\ 0 \in 0..(LostAfter + 1)
  BY Thresholds
<1>5. Counted(c, al) = IF PortAlarm(c, al)
        THEN [cnt EXCEPT !.alm = 0, !.unalm = Top(cnt.unalm, LostAfter + 1)]
        ELSE [cnt EXCEPT !.alm = Top(cnt.alm, FreshAfter + 1), !.unalm = 0]
  BY DEF Counted
<1>. HIDE DEF cnt
<1>. QED
  BY <1>1, <1>2, <1>3, <1>4, <1>5

LEMMA TypeStep == IInv /\ [Next]_vars => TypeOK'
<1>. SUFFICES ASSUME IInv, [Next]_vars PROVE TypeOK'
  OBVIOUS
<1>. USE Thresholds
<1>0. TypeOK /\ QueueIsCommanded
  BY DEF IInv
<1>1. CASE ReadBid
  <2>1. bid' \in [Slots -> Boards]
    BY <1>1 DEF ReadBid, Inserted
  <2>2. reg' \in [select : Sources \cup {NoSource}, lost : BOOLEAN, fresh : SUBSET Reason]
    BY <1>0, <1>1 DEF ReadBid, TypeOK, Reason
  <2>3. swaps' \in 0..MaxSwaps
    <3>1. bid' = bid \/ swaps < MaxSwaps
      BY <1>1 DEF ReadBid
    <3>. QED
      BY <1>0, <1>1, <3>1, SMTT(30) DEF ReadBid, TypeOK, Reason
  <2>. QED
    BY <1>0, <1>1, <2>1, <2>2, <2>3 DEF ReadBid, TypeOK, fixed
<1>2. CASE SysSchema
  <2>. DEFINE m == Head(queue)
              src == IF m.schema = 1 THEN m.src ELSE BisFree(bid, alarm)
  <2>1. m \in Schema /\ Tail(queue) \in Seq(Schema) /\ Len(Tail(queue)) = Len(queue) - 1
    BY <1>0, <1>2, HeadOfQueue DEF SysSchema
  <2>2. src \in Sources \cup {NoSource} /\ m.schema \in {0, 1}
    BY <2>1, BisFreeType DEF Schema
  <2>3. BoardOf(src) \in Boards
    BY <1>0, <2>2, BoardIsKnown DEF BoardOf, TypeOK
  <2>4. queue' = Tail(queue) /\ (reg' = BisForce(src) \/ reg' = reg)
    BY <1>2 DEF SysSchema
  <2>5. cs' = [cs EXCEPT !.schema = m.schema, !.src = src, !.bid = BoardOf(src)]
    BY <1>2 DEF SysSchema
  <2>6. (saved' = [schema |-> m.schema, src |-> src] \/ saved' = saved)
        /\ phase' \in {phase, "down"}
    BY <1>2 DEF SysSchema
  <2>7. UNCHANGED <<bid, alarm, count, fast, shown, streak, swaps, commands, starts>>
    BY <1>2 DEF SysSchema
  <2>. HIDE DEF m, src
  <2>8. queue' \in Seq(Schema) /\ Len(queue') <= MaxCommands
    BY <1>0, <2>1, <2>4 DEF TypeOK
  <2>9. reg' \in [select : Sources \cup {NoSource}, lost : BOOLEAN, fresh : SUBSET Reason]
    BY <1>0, <2>2, <2>4 DEF TypeOK, BisForce, Reason
  <2>10. cs' \in [schema : {0, 1}, src : Sources \cup {NoSource}, bid : Boards,
                  valid : {"init", "valid", "invalid"}]
    BY <1>0, <2>2, <2>3, <2>5 DEF TypeOK
  <2>11. saved' \in Schema
    BY <1>0, <2>2, <2>6 DEF TypeOK, Schema
  <2>. QED
    <3>1. fast' \in BOOLEAN
      BY <1>0, <2>7 DEF TypeOK
    <3>2. UNCHANGED <<bid, alarm, count, shown, streak, swaps, commands, starts>>
      BY <2>7
    <3>. QED
      BY <1>0, <2>6, <2>8, <2>9, <2>10, <2>11, <3>1, <3>2 DEF TypeOK, Reason
<1>3. ASSUME NEW al \in Found, NEW e \in Events, Round(al, e) PROVE TypeOK'
  <2>. DEFINE c == Selected(al)
  <2>1. c \in [schema : {0, 1}, src : Sources \cup {NoSource}, bid : Boards,
               valid : {"init", "valid", "invalid"}]
    BY <1>0, SelectedType
  <2>2. al \subseteq Slots \X Kinds
    BY <1>0, SelectAssumption DEF Found, Refreshed, TypeOK, SelectAssumption
  <2>3. Judge(c, al, e) /\ alarm' = al /\ shown' = bid /\ phase' = "top"
        /\ UNCHANGED <<bid, saved, queue, swaps, commands, starts>>
    BY <1>3 DEF Round
  <2>4. Judged(c, al) \in {"init", "valid", "invalid"}
    BY <2>1 DEF Judged
  <2>5. Counted(c, al) \in [alm : 0..(FreshAfter + 1), unalm : 0..(LostAfter + 1),
                            schema : {0, 1}]
    BY <1>0, <2>1, CountedType
  <2>. HIDE DEF c
  <2>6. cs' \in [schema : {0, 1}, src : Sources \cup {NoSource}, bid : Boards,
                 valid : {"init", "valid", "invalid"}]
    BY <2>1, <2>3, <2>4 DEF Judge
  <2>7. count' = Counted(c, al)
    BY <2>3 DEF Judge
  <2>8. reg' \in [select : Sources \cup {NoSource}, lost : BOOLEAN, fresh : SUBSET Reason]
    <3>. DEFINE r == IF cs.src # c.src THEN BisForce(c.src) ELSE reg
    <3>1. r \in [select : Sources \cup {NoSource}, lost : BOOLEAN, fresh : SUBSET Reason]
      BY <1>0, <2>1 DEF BisForce, TypeOK, Reason
    <3>2. reg' = Issued(c, al, e, r)
      BY <2>3 DEF Judge
    <3>3. Reasons(c, al, e) \in SUBSET Reason
      BY DEF Reasons, Reason
    <3>. HIDE DEF r
    <3>. QED
      BY <3>1, <3>2, <3>3 DEF Issued
  <2>9. streak' \in [good : 0..(ValidAfter + 1), lost : 0..(LostAfter + 1),
                     same : 0..(ValidAfter + 1)]
    <3>. DEFINE ok == ~PortAlarm(c, al)
    <3>1. streak' =
            [good |-> IF ok THEN Top(streak.good, ValidAfter + 1) ELSE 0,
             lost |-> IF ok THEN 0 ELSE Top(streak.lost, LostAfter + 1),
             same |-> IF ~ok THEN 0
                      ELSE IF c.src = cs.src
                      THEN Top(streak.same, ValidAfter + 1) ELSE 1]
      BY <2>3 DEF Judge
    <3>2. /\ streak.good \in 0..(ValidAfter + 1) /\ streak.lost \in 0..(LostAfter + 1)
          /\ streak.same \in 0..(ValidAfter + 1)
      BY <1>0 DEF TypeOK
    <3>3. /\ Top(streak.good, ValidAfter + 1) \in 0..(ValidAfter + 1)
          /\ Top(streak.lost, LostAfter + 1) \in 0..(LostAfter + 1)
          /\ Top(streak.same, ValidAfter + 1) \in 0..(ValidAfter + 1)
      BY <3>2, TopCounts
    <3>4. /\ 0 \in 0..(ValidAfter + 1) /\ 0 \in 0..(LostAfter + 1)
          /\ 1 \in 0..(ValidAfter + 1)
      OBVIOUS
    <3>. HIDE DEF ok
    <3>. QED
      BY <3>1, <3>3, <3>4
  <2>10. fast' \in BOOLEAN
    BY <2>3 DEF Judge
  <2>. QED
    BY <1>0, <2>2, <2>3, <2>5, <2>6, <2>7, <2>8, <2>9, <2>10 DEF TypeOK, Reason
<1>4. ASSUME NEW m \in Messages, SchemaSet(m) PROVE TypeOK'
  <2>1. m \in Schema
    BY DEF Messages, Schema
  <2>2. queue' \in Seq(Schema) /\ Len(queue') = Len(queue) + 1
    BY <1>0, <1>4, <2>1, AppendProperties DEF SchemaSet, TypeOK
  <2>3. commands' \in 0..MaxCommands /\ Len(queue') <= MaxCommands
    BY <1>0, <1>4, <2>2 DEF SchemaSet, TypeOK, QueueIsCommanded
  <2>. QED
    BY <1>0, <1>4, <2>2, <2>3 DEF SchemaSet, TypeOK
<1>5. CASE Start
  <2>. DEFINE src == IF saved.schema = 1 THEN saved.src ELSE BisFree(bid', {})
              b == IF src = NoSource THEN "none" ELSE bid'[SlotOf(src)]
  <2>1. bid' \in [Slots -> Boards]
    BY <1>5 DEF Start, Inserted
  <2>2. src \in Sources \cup {NoSource}
    BY <1>0, BisFreeType DEF TypeOK, Schema
  <2>3. b \in Boards
    BY <2>1, <2>2, BoardIsKnown
  <2>4. /\ cs' = [schema |-> saved.schema, src |-> src, bid |-> b, valid |-> "init"]
        /\ reg' = BisForce(src) /\ phase' \in {"top", "down"}
    BY <1>5 DEF Start
  <2>. HIDE DEF src, b
  <2>5. cs' \in [schema : {0, 1}, src : Sources \cup {NoSource}, bid : Boards,
                 valid : {"init", "valid", "invalid"}]
    BY <1>0, <2>2, <2>3, <2>4 DEF TypeOK, Schema
  <2>6. reg' \in [select : Sources \cup {NoSource}, lost : BOOLEAN, fresh : SUBSET Reason]
    BY <1>0, <2>2, <2>4 DEF TypeOK, BisForce, Reason
  <2>7. count' \in [alm : 0..(FreshAfter + 1), unalm : 0..(LostAfter + 1), schema : {0, 1}]
        /\ streak' \in [good : 0..(ValidAfter + 1), lost : 0..(LostAfter + 1),
                        same : 0..(ValidAfter + 1)]
    BY <1>5 DEF Start
  <2>8. alarm' = {} /\ starts' \in 0..MaxStarts
        /\ UNCHANGED <<shown, saved, queue, swaps, commands>>
    BY <1>0, <1>5 DEF Start, TypeOK
  <2>9. fast' \in BOOLEAN
    BY <1>5 DEF Start
  <2>. QED
    BY <1>0, <2>1, <2>4, <2>5, <2>6, <2>7, <2>8, <2>9 DEF TypeOK, Reason
<1>6. CASE Stop \/ UNCHANGED vars
  BY <1>0, <1>6 DEF Stop, vars, fixed, TypeOK
<1>. QED
  BY <1>1, <1>2, <1>3, <1>4, <1>5, <1>6 DEF Next, Daemon
-----------------------------------------------------------------------------
(* The register, the queue and the choice.                                 *)

LEMMA QueueStep == IInv /\ [Next]_vars => QueueIsCommanded'
<1>. SUFFICES ASSUME IInv, [Next]_vars PROVE QueueIsCommanded'
  OBVIOUS
<1>0. TypeOK /\ Len(queue) <= commands
  BY DEF IInv, QueueIsCommanded
<1>1. queue \in Seq(Schema) /\ Len(queue) \in Nat /\ commands \in Nat
  BY <1>0, Thresholds, LenProperties DEF TypeOK
<1>2. CASE SysSchema
  <2>1. Len(Tail(queue)) = Len(queue) - 1
    BY <1>0, <1>2, HeadOfQueue DEF SysSchema
  <2>. QED
    BY <1>0, <1>1, <1>2, <2>1 DEF SysSchema, QueueIsCommanded
<1>3. ASSUME NEW m \in Messages, SchemaSet(m) PROVE QueueIsCommanded'
  <2>1. m \in Schema
    BY DEF Messages, Schema
  <2>2. Len(Append(queue, m)) = Len(queue) + 1
    BY <1>1, <2>1, AppendProperties
  <2>. QED
    BY <1>0, <1>1, <1>3, <2>2 DEF SchemaSet, QueueIsCommanded
<1>4. CASE ReadBid \/ Start \/ Stop \/ UNCHANGED vars
  BY <1>0, <1>4 DEF ReadBid, Start, Stop, vars, fixed, QueueIsCommanded
<1>5. ASSUME NEW al \in Found, NEW e \in Events, Round(al, e) PROVE QueueIsCommanded'
  BY <1>0, <1>5 DEF Round, QueueIsCommanded
<1>. QED
  BY <1>2, <1>3, <1>4, <1>5 DEF Next, Daemon

(* What one round makes of the register, the daemon's state and the        *)
(* counters, with the source the round selects.                            *)
LEMMA RoundEffect ==
  ASSUME TypeOK, NEW al, NEW e, Round(al, e)
  PROVE  /\ phase = "msgs" /\ phase' = "top" /\ alarm' = al /\ bid' = bid
         /\ cs'.src = Selected(al).src /\ cs'.schema = cs.schema
         /\ reg'.select = IF cs.src # Selected(al).src THEN Selected(al).src
                          ELSE reg.select
         /\ cs'.valid = Judged(Selected(al), al)
         /\ reg'.lost =
              CASE ~PortAlarm(Selected(al), al) /\ Before(Selected(al)).alm = ValidAfter -> FALSE
                [] PortAlarm(Selected(al), al) /\ Before(Selected(al)).unalm = LostAfter -> TRUE
                [] OTHER -> reg.lost
         /\ "judged" \in reg'.fresh => count'.alm > FreshAfter
         /\ Selected(al).valid = cs.valid
         /\ Selected(al).schema = cs.schema
<1>. DEFINE c == Selected(al)
            r == IF cs.src # c.src THEN BisForce(c.src) ELSE reg
<1>1. Judge(c, al, e) /\ phase = "msgs" /\ phase' = "top" /\ alarm' = al /\ bid' = bid
  BY DEF Round
<1>2. c.schema = cs.schema /\ c.valid = cs.valid
  BY DEF Selected, TypeOK
<1>3. c \in [schema : {0, 1}, src : Sources \cup {NoSource}, bid : Boards,
             valid : {"init", "valid", "invalid"}]
  BY SelectedType
<1>. HIDE DEF c
<1>4. cs'.src = c.src /\ cs'.schema = c.schema /\ cs'.valid = Judged(c, al)
  BY <1>1, <1>3 DEF Judge
<1>5. /\ r \in [select : Sources \cup {NoSource}, lost : BOOLEAN, fresh : SUBSET Reason]
      /\ r.select = (IF cs.src # c.src THEN c.src ELSE reg.select)
      /\ r.lost = reg.lost
  BY <1>3 DEF BisForce, TypeOK, Reason
<1>6. reg' = Issued(c, al, e, r)
  BY <1>1 DEF Judge
<1>. HIDE DEF r
<1>7. /\ reg'.select = r.select
      /\ reg'.fresh = Reasons(c, al, e)
  BY <1>5, <1>6 DEF Issued
<1>9. "judged" \in reg'.fresh => count'.alm > FreshAfter
  BY <1>1, <1>7 DEF Judge, Reasons
<1>8. reg'.lost = CASE ~PortAlarm(c, al) /\ Before(c).alm = ValidAfter -> FALSE
                    [] PortAlarm(c, al) /\ Before(c).unalm = LostAfter -> TRUE
                    [] OTHER -> r.lost
  BY <1>5, <1>6 DEF Issued
<1>. QED
  BY <1>1, <1>2, <1>4, <1>5, <1>7, <1>8, <1>9 DEF c

LEMMA FollowsStep == IInv /\ [Next]_vars => FpgaFollows'
<1>. SUFFICES ASSUME IInv, [Next]_vars PROVE FpgaFollows'
  OBVIOUS
<1>0. TypeOK /\ RegisterFollows /\ JudgementIsShared
  BY DEF IInv, FpgaFollows
<1>. USE DEF FpgaFollows, RegisterFollows, JudgementIsShared
<1>1. CASE ReadBid
  BY <1>0, <1>1 DEF ReadBid, TypeOK, Reason
<1>2. CASE SysSchema
  <2>. DEFINE m == Head(queue)
              src == IF m.schema = 1 THEN m.src ELSE BisFree(bid, alarm)
  <2>1. /\ phase = "msgs"
        /\ reg' = IF cs.src # src THEN BisForce(src) ELSE reg
        /\ cs' = [cs EXCEPT !.schema = m.schema, !.src = src, !.bid = BoardOf(src)]
    BY <1>2 DEF SysSchema
  <2>. HIDE DEF m, src
  <2>2. cs'.src = src /\ cs'.valid = cs.valid
    BY <1>0, <2>1 DEF TypeOK
  <2>3. reg'.lost = reg.lost /\ reg'.select = IF cs.src # src THEN src ELSE reg.select
    BY <1>0, <2>1 DEF TypeOK, BisForce, Reason
  <2>. QED
    BY <1>0, <2>1, <2>2, <2>3
<1>3. ASSUME NEW al \in Found, NEW e \in Events, Round(al, e) PROVE FpgaFollows'
  <2>. DEFINE c == Selected(al)
  <2>1. RegisterFollows'
    BY <1>0, <1>3, RoundEffect
  <2>2. JudgementIsShared'
    <3>1. /\ cs'.valid = Judged(c, al)
          /\ c.valid = cs.valid
          /\ reg'.lost = CASE ~PortAlarm(c, al) /\ Before(c).alm = ValidAfter -> FALSE
                           [] PortAlarm(c, al) /\ Before(c).unalm = LostAfter -> TRUE
                           [] OTHER -> reg.lost
      BY <1>0, <1>3, RoundEffect
    <3>. HIDE DEF c
    <3>2. CASE ~PortAlarm(c, al) /\ Before(c).alm = ValidAfter
      BY <3>1, <3>2 DEF Judged
    <3>3. CASE PortAlarm(c, al) /\ Before(c).unalm = LostAfter
      BY <3>1, <3>3 DEF Judged
    <3>4. CASE /\ ~(~PortAlarm(c, al) /\ Before(c).alm = ValidAfter)
               /\ ~(PortAlarm(c, al) /\ Before(c).unalm = LostAfter)
      BY <1>0, <3>1, <3>4 DEF Judged
    <3>. QED
      BY <3>2, <3>3, <3>4
  <2>. QED
    BY <2>1, <2>2
<1>4. CASE Start
  <2>. DEFINE src == IF saved.schema = 1 THEN saved.src ELSE BisFree(bid', {})
  <2>1. cs'.src = src /\ cs'.valid = "init" /\ reg' = BisForce(src)
    BY <1>4 DEF Start
  <2>. HIDE DEF src
  <2>2. reg'.select = src
    BY <1>0, <2>1 DEF BisForce, TypeOK, Reason
  <2>. QED
    BY <2>1, <2>2
<1>5. ASSUME NEW m \in Messages, SchemaSet(m) PROVE FpgaFollows'
  BY <1>0, <1>5 DEF SchemaSet
<1>6. CASE Stop \/ UNCHANGED vars
  BY <1>0, <1>6 DEF Stop, vars
<1>. QED
  BY <1>1, <1>2, <1>3, <1>4, <1>5, <1>6 DEF Next, Daemon

LEMMA BestStep == IInv /\ [Next]_vars => FreeTakesTheBest'
<1>. SUFFICES ASSUME IInv, [Next]_vars PROVE FreeTakesTheBest'
  OBVIOUS
<1>0. TypeOK /\ FreeTakesTheBest
  BY DEF IInv
<1>1. CASE ReadBid
  BY <1>1 DEF ReadBid, FreeTakesTheBest
<1>2. CASE SysSchema
  BY <1>2 DEF SysSchema, FreeTakesTheBest
<1>3. ASSUME NEW al \in Found, NEW e \in Events, Round(al, e) PROVE FreeTakesTheBest'
  <2>1. alarm' = al /\ bid' = bid /\ cs'.src = Selected(al).src /\ cs'.schema = cs.schema
    BY <1>0, <1>3, RoundEffect
  <2>2. cs.schema = 0 => cs'.src = BisFree(bid, al)
    <3>1. CASE cs.schema = 0 /\ cs.src # BisFree(bid, al)
      BY <1>0, <2>1, <3>1 DEF Selected, TypeOK
    <3>2. CASE ~(cs.schema = 0 /\ cs.src # BisFree(bid, al))
      BY <2>1, <3>2 DEF Selected
    <3>. QED
      BY <3>1, <3>2
  <2>. QED
    BY <2>1, <2>2, BisFreeIsBest DEF FreeTakesTheBest
<1>4. CASE Start
  BY <1>4 DEF Start, FreeTakesTheBest
<1>5. ASSUME NEW m \in Messages, SchemaSet(m) PROVE FreeTakesTheBest'
  BY <1>0, <1>5 DEF SchemaSet, FreeTakesTheBest
<1>6. CASE Stop
  BY <1>6 DEF Stop, FreeTakesTheBest
<1>7. CASE UNCHANGED vars
  BY <1>0, <1>7 DEF vars, FreeTakesTheBest
<1>. QED
  BY <1>1, <1>2, <1>3, <1>4, <1>5, <1>6, <1>7 DEF Next, Daemon

-----------------------------------------------------------------------------
(* The judgement.                                                          *)

(* The counters and the history after a round, with the counters as the    *)
(* round finds them: started again if the schema was changed.              *)
LEMMA RoundCounts ==
  ASSUME IInv, NEW al, NEW e, Round(al, e)
  PROVE  LET c   == Selected(al)
             alm == Before(c).alm
             unalm == Before(c).unalm
         IN  /\ alm \in 0..(FreshAfter + 1) /\ unalm \in 0..(LostAfter + 1)
             /\ alm <= streak.good \/ streak.good > ValidAfter
             /\ unalm <= streak.lost \/ streak.lost > LostAfter
             /\ alm > ValidAfter => cs.valid = "valid"
             /\ ~PortAlarm(c, al) => /\ count'.alm = Top(alm, FreshAfter + 1)
                                     /\ count'.unalm = 0
                                     /\ streak'.good = Top(streak.good, ValidAfter + 1)
                                     /\ streak'.lost = 0
             /\ PortAlarm(c, al) => /\ count'.alm = 0
                                    /\ count'.unalm = Top(unalm, LostAfter + 1)
                                    /\ streak'.good = 0
                                    /\ streak'.lost = Top(streak.lost, LostAfter + 1)
<1>. DEFINE c == Selected(al)
            cnt == IF c.schema # count.schema
                   THEN [alm |-> 0, unalm |-> 0, schema |-> c.schema] ELSE count
<1>0. TypeOK /\ CountsAreSeen /\ QuietIsValid
  BY DEF IInv
<1>1. Judge(c, al, e) /\ c.schema \in {0, 1}
  BY <1>0, SelectedType DEF Round
<1>. HIDE DEF c
<1>2. cnt \in [alm : 0..(FreshAfter + 1), unalm : 0..(LostAfter + 1), schema : {0, 1}]
  BY <1>0, <1>1, Thresholds DEF TypeOK
<1>3. Before(c).alm = cnt.alm /\ Before(c).unalm = cnt.unalm
  BY DEF Before
<1>4. /\ cnt.alm \in {0, count.alm} /\ cnt.unalm \in {0, count.unalm}
  OBVIOUS
<1>5. /\ streak.good \in Nat /\ streak.lost \in Nat
      /\ count.alm \in Nat /\ count.unalm \in Nat
  BY <1>0, Thresholds DEF TypeOK
<1>6. count' = IF PortAlarm(c, al)
               THEN [cnt EXCEPT !.alm = 0, !.unalm = Top(cnt.unalm, LostAfter + 1)]
               ELSE [cnt EXCEPT !.alm = Top(cnt.alm, FreshAfter + 1), !.unalm = 0]
  BY <1>1 DEF Judge, Counted
<1>. HIDE DEF cnt
<1>7. /\ cnt.alm <= streak.good \/ streak.good > ValidAfter
      /\ cnt.unalm <= streak.lost \/ streak.lost > LostAfter
  BY <1>0, <1>4, <1>5, Thresholds DEF CountsAreSeen
<1>8. cnt.alm > ValidAfter => cs.valid = "valid"
  BY <1>0, <1>4, <1>5, Thresholds DEF QuietIsValid
<1>9. ~PortAlarm(c, al) => count'.alm = Top(cnt.alm, FreshAfter + 1) /\ count'.unalm = 0
  BY <1>2, <1>6
<1>10. PortAlarm(c, al) => count'.alm = 0 /\ count'.unalm = Top(cnt.unalm, LostAfter + 1)
  BY <1>2, <1>6
<1>11. /\ streak'.good = IF ~PortAlarm(c, al) THEN Top(streak.good, ValidAfter + 1) ELSE 0
       /\ streak'.lost = IF ~PortAlarm(c, al) THEN 0 ELSE Top(streak.lost, LostAfter + 1)
  BY <1>1 DEF Judge
<1>. QED
  BY <1>2, <1>3, <1>7, <1>8, <1>9, <1>10, <1>11 DEF c

LEMMA CountsStep == IInv /\ [Next]_vars => CountsAreSeen'
<1>. SUFFICES ASSUME IInv, [Next]_vars PROVE CountsAreSeen'
  OBVIOUS
<1>0. TypeOK /\ CountsAreSeen
  BY DEF IInv
<1>1. ASSUME NEW al \in Found, NEW e \in Events, Round(al, e) PROVE CountsAreSeen'
  <2>. DEFINE c == Selected(al)
              alm == Before(c).alm
              unalm == Before(c).unalm
  <2>1. streak.good \in 0..(ValidAfter + 1) /\ streak.lost \in 0..(LostAfter + 1)
    BY <1>0 DEF TypeOK
  <2>2. /\ alm \in 0..(FreshAfter + 1) /\ unalm \in 0..(LostAfter + 1)
        /\ alm <= streak.good \/ streak.good > ValidAfter
        /\ unalm <= streak.lost \/ streak.lost > LostAfter
    BY <1>1, RoundCounts
  <2>3. CASE ~PortAlarm(c, al)
    <3>1. /\ count'.alm = Top(alm, FreshAfter + 1) /\ count'.unalm = 0
          /\ streak'.good = Top(streak.good, ValidAfter + 1) /\ streak'.lost = 0
      BY <1>1, <2>3, RoundCounts
    <3>. HIDE DEF alm, unalm, c
    <3>. QED
      BY <2>1, <2>2, <3>1, Thresholds DEF CountsAreSeen, Top
  <2>4. CASE PortAlarm(c, al)
    <3>1. /\ count'.alm = 0 /\ count'.unalm = Top(unalm, LostAfter + 1)
          /\ streak'.good = 0 /\ streak'.lost = Top(streak.lost, LostAfter + 1)
      BY <1>1, <2>4, RoundCounts
    <3>. HIDE DEF alm, unalm, c
    <3>. QED
      BY <2>1, <2>2, <3>1, Thresholds DEF CountsAreSeen, Top
  <2>. QED
    BY <2>3, <2>4
<1>2. CASE Start
  BY <1>2 DEF Start, CountsAreSeen
<1>3. ASSUME NEW m \in Messages, SchemaSet(m) PROVE CountsAreSeen'
  BY <1>0, <1>3 DEF SchemaSet, CountsAreSeen
<1>4. CASE ReadBid \/ SysSchema \/ Stop \/ UNCHANGED vars
  <2>1. UNCHANGED <<count, streak>>
    BY <1>4 DEF ReadBid, SysSchema, Stop, vars
  <2>. QED
    BY <1>0, <2>1 DEF CountsAreSeen
<1>. QED
  BY <1>1, <1>2, <1>3, <1>4 DEF Next, Daemon

LEMMA QuietStep == IInv /\ [Next]_vars => QuietIsValid'
<1>. SUFFICES ASSUME IInv, [Next]_vars PROVE QuietIsValid'
  OBVIOUS
<1>0. TypeOK /\ QuietIsValid
  BY DEF IInv
<1>1. ASSUME NEW al \in Found, NEW e \in Events, Round(al, e) PROVE QuietIsValid'
  <2>. DEFINE c == Selected(al)
              alm == Before(c).alm
  <2>1. alm \in 0..(FreshAfter + 1) /\ (alm > ValidAfter => cs.valid = "valid")
    BY <1>1, RoundCounts
  <2>2. cs'.valid = Judged(c, al) /\ c.valid = cs.valid
    BY <1>0, <1>1, RoundEffect
  <2>3. CASE PortAlarm(c, al)
    <3>1. count'.alm = 0
      BY <1>1, <2>3, RoundCounts
    <3>. QED
      BY <3>1, Thresholds DEF QuietIsValid
  <2>4. CASE ~PortAlarm(c, al)
    <3>1. count'.alm = Top(alm, FreshAfter + 1)
      BY <1>1, <2>4, RoundCounts
    <3>2. cs'.valid = IF alm = ValidAfter THEN "valid" ELSE cs.valid
      BY <2>2, <2>4 DEF Judged
    <3>. HIDE DEF alm, c
    <3>3. count'.alm > ValidAfter => alm >= ValidAfter
      BY <2>1, <3>1, Thresholds DEF Top
    <3>4. count'.alm > ValidAfter => alm = ValidAfter \/ alm > ValidAfter
      BY <2>1, <3>3, Thresholds
    <3>. QED
      BY <2>1, <3>2, <3>4 DEF QuietIsValid
  <2>. QED
    BY <2>3, <2>4
<1>2. CASE Start
  BY <1>2, Thresholds DEF Start, QuietIsValid
<1>3. ASSUME NEW m \in Messages, SchemaSet(m) PROVE QuietIsValid'
  BY <1>0, <1>3 DEF SchemaSet, QuietIsValid
<1>4. CASE ReadBid \/ SysSchema \/ Stop \/ UNCHANGED vars
  <2>1. count' = count /\ cs'.valid = cs.valid
    BY <1>0, <1>4 DEF ReadBid, SysSchema, Stop, vars, TypeOK
  <2>. QED
    BY <1>0, <2>1 DEF QuietIsValid
<1>. QED
  BY <1>1, <1>2, <1>3, <1>4 DEF Next, Daemon

LEMMA IInvStep == IInv /\ [Next]_vars => IInv'
BY TypeStep, QueueStep, FollowsStep, BestStep, CountsStep, QuietStep DEF IInv

LEMMA IInvHolds == Spec => []IInv
BY InitIInv, IInvStep, PTL DEF Spec

(* What one step may do to the judgement.                                  *)
JudgedStep ==
  /\ cs'.valid = "valid" /\ cs.valid # "valid" => streak'.good > ValidAfter
  /\ cs'.valid = "invalid" /\ cs.valid # "invalid" => streak'.lost > LostAfter
  /\ "judged" \in reg'.fresh \ reg.fresh =>
       cs'.valid = "valid" /\ ~reg'.lost /\ streak'.good > ValidAfter

LEMMA StepIsJudged == IInv /\ IInv' /\ [Next]_vars => JudgedStep
<1>. SUFFICES ASSUME IInv, IInv', [Next]_vars PROVE JudgedStep
  OBVIOUS
<1>0. TypeOK /\ TypeOK' /\ JudgementIsShared' /\ CountsAreSeen' /\ QuietIsValid'
  BY DEF IInv, FpgaFollows
<1>1. ASSUME NEW al \in Found, NEW e \in Events, Round(al, e) PROVE JudgedStep
  <2>. DEFINE c == Selected(al)
              alm == Before(c).alm
              unalm == Before(c).unalm
  <2>1. streak.good \in 0..(ValidAfter + 1) /\ streak.lost \in 0..(LostAfter + 1)
    BY <1>0 DEF TypeOK
  <2>2. /\ alm \in 0..(FreshAfter + 1) /\ unalm \in 0..(LostAfter + 1)
        /\ alm <= streak.good \/ streak.good > ValidAfter
        /\ unalm <= streak.lost \/ streak.lost > LostAfter
        /\ alm > ValidAfter => cs.valid = "valid"
    BY <1>1, RoundCounts
  <2>3. cs'.valid = Judged(c, al) /\ c.valid = cs.valid
    BY <1>0, <1>1, RoundEffect
  <2>4. "judged" \in reg'.fresh =>
          cs'.valid = "valid" /\ ~reg'.lost /\ streak'.good > ValidAfter
    <3>1. "judged" \in reg'.fresh => count'.alm > FreshAfter
      BY <1>0, <1>1, RoundEffect
    <3>2. count'.alm \in Nat /\ streak'.good \in Nat
      BY <1>0 DEF TypeOK
    <3>3. count'.alm > FreshAfter => count'.alm > ValidAfter
      BY <3>2, Thresholds
    <3>4. count'.alm > ValidAfter => streak'.good > ValidAfter
      BY <1>0, <3>2, Thresholds DEF CountsAreSeen
    <3>. QED
      BY <1>0, <3>1, <3>3, <3>4 DEF QuietIsValid, JudgementIsShared
  <2>5. CASE ~PortAlarm(c, al)
    <3>1. streak'.good = Top(streak.good, ValidAfter + 1)
      BY <1>1, <2>5, RoundCounts
    <3>2. cs'.valid = IF alm = ValidAfter THEN "valid" ELSE cs.valid
      BY <2>3, <2>5 DEF Judged
    <3>. HIDE DEF alm, unalm, c
    <3>3. alm >= ValidAfter => streak'.good > ValidAfter
      BY <2>1, <2>2, <3>1, Thresholds DEF Top
    <3>4. alm = ValidAfter => alm >= ValidAfter
      BY Thresholds
    <3>. QED
      BY <2>4, <3>2, <3>3, <3>4 DEF JudgedStep
  <2>6. CASE PortAlarm(c, al)
    <3>1. streak'.lost = Top(streak.lost, LostAfter + 1)
      BY <1>1, <2>6, RoundCounts
    <3>2. cs'.valid = IF unalm = LostAfter THEN "invalid" ELSE cs.valid
      BY <2>3, <2>6 DEF Judged
    <3>. HIDE DEF alm, unalm, c
    <3>3. unalm = LostAfter => streak'.lost > LostAfter
      BY <2>1, <2>2, <3>1, Thresholds DEF Top
    <3>. QED
      BY <2>4, <3>2, <3>3 DEF JudgedStep
  <2>. QED
    BY <2>5, <2>6
<1>2. CASE Start
  <2>1. cs'.valid = "init" /\ reg'.fresh = reg.fresh
    BY <1>0, <1>2 DEF Start, BisForce, TypeOK
  <2>. QED
    BY <2>1 DEF JudgedStep
<1>3. CASE SysSchema
  <2>1. cs'.valid = cs.valid
    BY <1>0, <1>3 DEF SysSchema, TypeOK
  <2>2. reg'.fresh = reg.fresh
    BY <1>0, <1>3 DEF SysSchema, BisForce, TypeOK
  <2>. QED
    BY <2>1, <2>2 DEF JudgedStep
<1>4. ASSUME NEW m \in Messages, SchemaSet(m) PROVE JudgedStep
  BY <1>4 DEF SchemaSet, JudgedStep
<1>5. CASE ReadBid
  <2>1. cs' = cs /\ reg'.fresh = {}
    BY <1>0, <1>5 DEF ReadBid, TypeOK, Reason
  <2>. QED
    BY <2>1 DEF JudgedStep
<1>6. CASE Stop \/ UNCHANGED vars
  BY <1>6 DEF Stop, vars, JudgedStep
<1>. QED
  BY <1>1, <1>2, <1>3, <1>4, <1>5, <1>6 DEF Next, Daemon

-----------------------------------------------------------------------------
(* The theorems.                                                           *)

(* Type correctness of the daemon, the register and the history; the queue *)
(* never holds more than the operator's commands.                          *)
THEOREM TypeCorrect == Spec => []TypeOK
<1>1. IInv => TypeOK
  BY DEF IInv
<1>. QED
  BY <1>1, IInvHolds, PTL

(* The FPGA has the source the daemon believes selected and is told the    *)
(* judgement the other daemons are told (din_source.c, din_ctrl.c), for    *)
(* every number of slots and every table of boards and priorities.         *)
THEOREM FpgaFollowsHolds == Spec => []FpgaFollows
<1>1. IInv => FpgaFollows
  BY DEF IInv
<1>. QED
  BY <1>1, IInvHolds, PTL

(* A round of the free schema ends with a usable source of the best        *)
(* priority, or with none when none can be used (bis_free).                *)
THEOREM FreeTakesTheBestHolds == Spec => []FreeTakesTheBest
<1>1. IInv => FreeTakesTheBest
  BY DEF IInv
<1>. QED
  BY <1>1, IInvHolds, PTL

(* No source becomes valid or invalid, and no time is taken over on the    *)
(* daemon's judgement or with a new leap second, before the thresholds     *)
(* have passed in rounds that were really seen (Time_Refresh_Strategy),    *)
(* for every value of the thresholds.                                      *)
THEOREM JudgedByRoundsHolds == Spec => JudgedByRounds
<1>1. IInv /\ IInv' /\ [Next]_vars =>
        [/\ cs'.valid = "valid" /\ cs.valid # "valid" => streak'.good > ValidAfter
         /\ cs'.valid = "invalid" /\ cs.valid # "invalid" => streak'.lost > LostAfter
         /\ "judged" \in reg'.fresh \ reg.fresh =>
              cs'.valid = "valid" /\ ~reg'.lost /\ streak'.good > ValidAfter]_vars
  BY StepIsJudged DEF JudgedStep
<1>. QED
  BY <1>1, IInvHolds, PTL DEF Spec, JudgedByRounds
=============================================================================
