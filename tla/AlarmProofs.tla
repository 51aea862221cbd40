----------------------------- MODULE AlarmProofs -----------------------------
(***************************************************************************)
(* Proofs about the two modules of alarms and events.                      *)
(*                                                                         *)
(* EventStore, for every number of writing daemons, every size of the two  *)
(* tables, every end of the ids and every number of events, power failures *)
(* and statement lists that fail in the middle.                            *)
(*                                                                         *)
(* AlarmTables, for every number of alarms and every size of the tables.   *)
(* Each of the three tables has a part of the invariant of its own: that   *)
(* of the current alarms follows the comparison alarm by alarm, that of    *)
(* the upload knows the ids in it, and that of the ended alarms compares   *)
(* it with the history place by place.                                     *)
(***************************************************************************)
EXTENDS AlarmTables, EventStore, SequenceTheorems, FiniteSetTheorems, FunctionTheorems,
        WellFoundedInduction, TLAPS

(* EventStore.                                                             *)

USE StoreAssumption DEF StoreAssumption

(* The writers with an event in hand, and those behind their test of the   *)
(* history: each of them may still move a row into it.                     *)
Active == {w \in Writers : writer[w] # "idle"}
Behind == {w \in Writers : writer[w] \in {"first", "second"}}

(* What h and c hold, h first, are the events up to the n-th.              *)
Gapless(h, c, n) ==
  /\ \A i \in 1..Len(h) : h[i] = n - (Len(h) + Len(c)) + i
  /\ \A i \in 1..Len(c) : c[i].event = n - Len(c) + i

(* The ids of the rows of c grow, up to s.                                 *)
IdsGrow(c, s) ==
  /\ \A i, j \in 1..Len(c) : i < j => c[i].id < c[j].id
  /\ \A i \in 1..Len(c) : c[i].id <= s

NoGaps == torn = 0 => Gapless(history, current, logged)

(* The sequence is never ahead of the number of events, and every event in *)
(* a writer's hand has its place below the bound.                          *)
InRange ==
  /\ seq <= logged
  /\ logged + Cardinality(Active) <= MaxEvents

(* The rows of the list that fails in the middle are paid for in advance.  *)
Slack(t) == (MaxTorn - t) * MaxCurrent

(* The later half of the limit, or all there was, is in the two tables.    *)
Held == Len(history) + Len(current)
KeepsHalf == Held >= logged \/ Held >= MaxHist \div 2

(* The rows of both tables, one for each writer behind its test, and those *)
(* that lists failing in the middle may double: no step but a test that    *)
(* finds room can make it more.                                            *)
RowsAreBounded ==
  Held + Cardinality(Behind) + Slack(torn)
    <= (MaxHist - 1) + MaxCurrent + Cardinality(Writers) + Slack(0)

(* The inductive invariant.                                                *)
StoreIInv ==
  /\ StoreTypeOK /\ InRange
  /\ IdsGrow(current, seq)
  /\ NoGaps
  /\ KeepsHalf
  /\ RowsAreBounded

-----------------------------------------------------------------------------
(* The tables.                                                             *)

LEMMA EventsOf ==
  ASSUME NEW c \in Seq(Row)
  PROVE  /\ Events(c) \in Seq(1..MaxEvents)
         /\ Len(Events(c)) = Len(c)
         /\ \A i \in 1..Len(c) : Events(c)[i] = c[i].event
<1>1. Len(c) \in Nat /\ \A i \in 1..Len(c) : c[i] \in Row
  BY LenProperties, ElementOfSeq
<1>2. Events(c) \in [1..Len(c) -> 1..MaxEvents]
  BY <1>1 DEF Events, Row
<1>3. Events(c) \in Seq(1..MaxEvents)
  BY <1>1, <1>2, SeqDef
<1>4. DOMAIN Events(c) = 1..Len(c) /\ DOMAIN Events(c) = 1..Len(Events(c))
  BY <1>2, <1>3, LenProperties
<1>5. Len(Events(c)) = Len(c)
  BY <1>1, <1>3, <1>4, LenProperties
<1>6. QED
  BY <1>3, <1>5 DEF Events

(* Both tables one behind the other.                                       *)
LEMMA ContentsLen ==
  ASSUME StoreTypeOK
  PROVE  /\ Len(Contents) = Len(history) + Len(current)
         /\ \A i \in 1..Len(Contents) :
              Contents[i] = IF i <= Len(history) THEN history[i]
                            ELSE current[i - Len(history)].event
<1>1. /\ Events(current) \in Seq(1..MaxEvents)
      /\ Len(Events(current)) = Len(current)
      /\ \A i \in 1..Len(current) : Events(current)[i] = current[i].event
  BY EventsOf DEF StoreTypeOK
<1>2. /\ Len(Contents) = Len(history) + Len(current)
      /\ \A i \in 1..(Len(history) + Len(current)) :
           Contents[i] = IF i <= Len(history) THEN history[i]
                         ELSE Events(current)[i - Len(history)]
  <2>1. history \in Seq(1..MaxEvents) /\ Contents = history \o Events(current)
    BY DEF Contents, StoreTypeOK
  <2>2. QED
    BY <1>1, <2>1, ConcatProperties, ZenonT(60)
<1>3. \A i \in 1..(Len(history) + Len(current)) :
        i <= Len(history) \/ i - Len(history) \in 1..Len(current)
  BY LenProperties DEF StoreTypeOK
<1>4. QED
  BY <1>1, <1>2, <1>3

(* The purge keeps the later half of a full history.                       *)
LEMMA PurgedIsSuffix ==
  ASSUME StoreTypeOK
  PROVE  /\ Purged \in Seq(1..MaxEvents)
         /\ Len(Purged) <= Len(history)
         /\ \A i \in 1..Len(Purged) : Purged[i] = history[i + (Len(history) - Len(Purged))]
         /\ Len(Purged) < Len(history) \/ Len(history) < MaxHist
         /\ Len(Purged) = Len(history) \/ Len(Purged) >= MaxHist \div 2
<1> DEFINE n == Len(history)
           m == (n - 1) \div 2 + 2
<1>1. n \in Nat /\ \A i \in 1..n : history[i] \in 1..MaxEvents
  BY LenProperties, ElementOfSeq DEF StoreTypeOK
<1>2. CASE n >= MaxHist
  <2>1. n \in Nat /\ n >= 1
    BY <1>1, <1>2
  <2>2. m \in Int /\ m >= 2 /\ m <= n + 1 /\ n - m + 1 >= MaxHist \div 2
    BY <1>2, <2>1
  <2>3. \A i \in m..n : history[i] \in 1..MaxEvents
    BY <1>1, <2>2
  <2>4. Purged = SubSeq(history, m, n)
    BY <1>2 DEF Purged
  <2>5. /\ Purged \in Seq(1..MaxEvents)
        /\ Len(Purged) = IF m <= n THEN n - m + 1 ELSE 0
        /\ \A i \in 1..(n - m + 1) : Purged[i] = history[m + i - 1]
    BY <2>1, <2>2, <2>3, <2>4, SubSeqProperties
  <2> HIDE DEF m, n
  <2>6. Len(Purged) = n - m + 1
    BY <2>1, <2>2, <2>5
  <2>7. \A i \in 1..Len(Purged) : m + i - 1 = i + (n - Len(Purged))
    BY <2>1, <2>2, <2>6
  <2>8. \A i \in 1..Len(Purged) : Purged[i] = history[i + (n - Len(Purged))]
    BY <2>5, <2>6, <2>7
  <2>9. Len(Purged) < n /\ Len(Purged) >= MaxHist \div 2 /\ Purged \in Seq(1..MaxEvents)
    BY <2>1, <2>2, <2>5, <2>6
  <2>10. QED
    BY <2>1, <2>8, <2>9 DEF n
<1>3. CASE ~(n >= MaxHist)
  BY <1>1, <1>3 DEF Purged, StoreTypeOK
<1>4. QED
  BY <1>2, <1>3

(* With growing ids the row with the smallest one is the first.            *)
LEMMA OldestIsFirst ==
  ASSUME StoreTypeOK, IdsGrow(current, seq), current # <<>>
  PROVE  /\ Len(current) \in Nat \ {0}
         /\ Oldest = 1
         /\ RemoveAt(current, Oldest) = Tail(current)
<1>1. Len(current) \in Nat \ {0}
  BY EmptySeq DEF StoreTypeOK
<1>2. \A i \in 1..Len(current) : current[i].id \in Nat
  <2>1. \A i \in 1..Len(current) : current[i] \in Row
    BY ElementOfSeq DEF StoreTypeOK
  <2>2. \A r \in Row : r.id \in Nat
    BY DEF Row
  <2>3. QED
    BY <2>1, <2>2
<1>3. Oldest = 1
  <2>1. \A j \in 1..Len(current) : current[1].id <= current[j].id
    BY <1>1, <1>2 DEF IdsGrow
  <2>2. /\ Oldest \in 1..Len(current)
        /\ \A j \in 1..Len(current) : current[Oldest].id <= current[j].id
    BY <1>1, <2>1, SMTT(30) DEF Oldest
  <2>3. 1 < Oldest => current[1].id < current[Oldest].id
    BY <1>1, <2>2 DEF IdsGrow
  <2>4. current[Oldest].id <= current[1].id /\ 1 \in 1..Len(current)
    BY <1>1, <2>2
  <2>5. QED
    BY <1>1, <1>2, <2>2, <2>3, <2>4
<1>4. RemoveAt(current, 1) = SubSeq(current, 1, 0) \o SubSeq(current, 2, Len(current))
  BY DEF RemoveAt
<1>5. SubSeq(current, 1, 0) = <<>> /\ SubSeq(current, 2, Len(current)) = Tail(current)
  BY SubSeqEmpty, TailIsSubSeq DEF StoreTypeOK
<1>6. Tail(current) \in Seq(Row)
  BY HeadTailProperties DEF StoreTypeOK
<1>7. QED
  BY <1>1, <1>3, <1>4, <1>5, <1>6, ConcatEmptySeq
-----------------------------------------------------------------------------
(* What the parts of a transaction do to the run of events: the purge, the *)
(* move of all rows, the move of the oldest row, and the insert.           *)

LEMMA GaplessPurge ==
  ASSUME StoreTypeOK, Gapless(history, current, logged)
  PROVE  Gapless(Purged, current, logged)
<1>1. /\ Len(history) \in Nat /\ Len(current) \in Nat /\ logged \in Nat
      /\ Len(Purged) \in Nat /\ Len(Purged) <= Len(history)
      /\ \A i \in 1..Len(Purged) : Purged[i] = history[i + (Len(history) - Len(Purged))]
  BY PurgedIsSuffix, LenProperties DEF StoreTypeOK
<1>2. \A i \in 1..Len(Purged) :
        /\ i + (Len(history) - Len(Purged)) \in 1..Len(history)
        /\ logged - (Len(history) + Len(current)) + (i + (Len(history) - Len(Purged)))
             = logged - (Len(Purged) + Len(current)) + i
  BY <1>1
<1>3. QED
  BY <1>1, <1>2 DEF Gapless

LEMMA MoveAll ==
  ASSUME StoreTypeOK
  PROVE  /\ history \o Events(current) \in Seq(1..MaxEvents)
         /\ Len(history \o Events(current)) = Len(history) + Len(current)
         /\ Gapless(history, current, logged)
              => Gapless(history \o Events(current), <<>>, logged)
<1> DEFINE h == history \o Events(current)
<1>1. /\ Len(h) = Len(history) + Len(current)
      /\ \A i \in 1..Len(h) : h[i] = IF i <= Len(history) THEN history[i]
                                     ELSE current[i - Len(history)].event
  BY ContentsLen DEF Contents
<1>2. h \in Seq(1..MaxEvents)
  BY EventsOf, ConcatProperties DEF StoreTypeOK
<1>3. Len(history) \in Nat /\ Len(current) \in Nat /\ logged \in Nat
  BY LenProperties DEF StoreTypeOK
<1>4. ASSUME Gapless(history, current, logged) PROVE Gapless(h, <<>>, logged)
  <2> HIDE DEF h
  <2>1. ASSUME NEW i \in 1..Len(h) PROVE h[i] = logged - Len(h) + i
    <3>1. CASE i <= Len(history)
      BY <1>1, <1>3, <1>4, <3>1 DEF Gapless
    <3>2. CASE ~(i <= Len(history))
      <4>1. i - Len(history) \in 1..Len(current)
        BY <1>1, <1>3, <3>2
      <4>2. h[i] = logged - Len(current) + (i - Len(history))
        BY <1>1, <1>4, <3>2, <4>1 DEF Gapless
      <4>3. QED
        BY <1>1, <1>3, <4>2
    <3>3. QED
      BY <3>1, <3>2
  <2>2. Len(<<>>) = 0 /\ Len(h) \in Nat
    BY <1>1, <1>3, EmptySeq
  <2>3. Len(h) + Len(<<>>) = Len(h) /\ 1..Len(<<>>) = {}
    BY <2>2
  <2>4. QED
    BY <2>1, <2>3 DEF Gapless
<1>5. QED
  BY <1>1, <1>2, <1>4

LEMMA MoveOldest ==
  ASSUME StoreTypeOK, current # <<>>
  PROVE  /\ Append(history, current[1].event) \in Seq(1..MaxEvents)
         /\ Len(Append(history, current[1].event)) = Len(history) + 1
         /\ Tail(current) \in Seq(Row) /\ Len(Tail(current)) = Len(current) - 1
         /\ Gapless(history, current, logged)
              => Gapless(Append(history, current[1].event), Tail(current), logged)
         /\ IdsGrow(current, seq) => IdsGrow(Tail(current), seq)
<1> DEFINE h == Append(history, current[1].event)
           c == Tail(current)
<1>1. Len(history) \in Nat /\ Len(current) \in Nat \ {0} /\ logged \in Nat
  BY LenProperties, EmptySeq DEF StoreTypeOK
<1>2. current[1] \in Row
  BY <1>1, ElementOfSeq DEF StoreTypeOK
<1>3. current[1].event \in 1..MaxEvents
  BY <1>2 DEF Row
<1>4. /\ h \in Seq(1..MaxEvents) /\ Len(h) = Len(history) + 1
      /\ \A i \in 1..Len(history) : h[i] = history[i]
      /\ h[Len(history) + 1] = current[1].event
  BY <1>3, AppendProperties DEF StoreTypeOK
<1>5. /\ c \in Seq(Row) /\ Len(c) = Len(current) - 1
      /\ \A i \in 1..Len(c) : c[i] = current[i + 1]
  BY HeadTailProperties DEF StoreTypeOK
<1> HIDE DEF h, c
<1>6. \A i \in 1..Len(c) : i + 1 \in 1..Len(current)
  BY <1>1, <1>5
<1>7. ASSUME Gapless(history, current, logged) PROVE Gapless(h, c, logged)
  <2>1. ASSUME NEW i \in 1..Len(h) PROVE h[i] = logged - (Len(h) + Len(c)) + i
    <3>1. CASE i \in 1..Len(history)
      BY <1>1, <1>4, <1>5, <1>7, <3>1 DEF Gapless
    <3>2. CASE i = Len(history) + 1
      BY <1>1, <1>4, <1>5, <1>7, <3>2 DEF Gapless
    <3>3. QED
      BY <1>1, <1>4, <3>1, <3>2
  <2>2. ASSUME NEW i \in 1..Len(c) PROVE c[i].event = logged - Len(c) + i
    <3>1. c[i].event = logged - Len(current) + (i + 1)
      BY <1>5, <1>6, <1>7 DEF Gapless
    <3>2. QED
      BY <1>1, <1>5, <3>1
  <2>3. QED
    BY <2>1, <2>2 DEF Gapless
<1>8. ASSUME IdsGrow(current, seq) PROVE IdsGrow(c, seq)
  <2>1. ASSUME NEW i \in 1..Len(c), NEW j \in 1..Len(c), i < j PROVE c[i].id < c[j].id
    <3>1. i + 1 < j + 1
      BY <2>1
    <3>2. QED
      BY <1>5, <1>6, <1>8, <3>1 DEF IdsGrow
  <2>2. ASSUME NEW i \in 1..Len(c) PROVE c[i].id <= seq
    BY <1>5, <1>6, <1>8 DEF IdsGrow
  <2>3. QED
    BY <2>1, <2>2 DEF IdsGrow
<1>9. QED
  BY <1>4, <1>5, <1>7, <1>8 DEF h, c

LEMMA Insert ==
  ASSUME StoreTypeOK, logged < MaxEvents, seq <= logged,
         NEW h, Len(h) \in Nat, NEW c \in Seq(Row)
  PROVE  /\ Inserted(c, seq) \in Seq(Row) /\ Len(Inserted(c, seq)) = Len(c) + 1
         /\ Gapless(h, c, logged) => Gapless(h, Inserted(c, seq), logged + 1)
         /\ IdsGrow(c, seq) => IdsGrow(Inserted(c, seq), seq + 1)
<1> DEFINE r == [event |-> logged + 1, id |-> seq + 1]
           d == Inserted(c, seq)
<1>1. logged \in Nat /\ seq \in Nat /\ Len(c) \in Nat
  BY LenProperties DEF StoreTypeOK
<1>2. r \in Row
  BY <1>1 DEF Row
<1>3. /\ d \in Seq(Row) /\ Len(d) = Len(c) + 1
      /\ \A i \in 1..Len(c) : d[i] = c[i]
      /\ d[Len(c) + 1] = r
  BY <1>2, AppendProperties DEF Inserted
<1>4. r.event = logged + 1 /\ r.id = seq + 1
  OBVIOUS
<1> HIDE DEF d, r
<1>5. \A i \in 1..Len(d) : i \in 1..Len(c) \/ i = Len(c) + 1
  BY <1>1, <1>3
<1>6. ASSUME Gapless(h, c, logged) PROVE Gapless(h, d, logged + 1)
  <2>1. ASSUME NEW i \in 1..Len(h) PROVE h[i] = (logged + 1) - (Len(h) + Len(d)) + i
    BY <1>1, <1>3, <1>6 DEF Gapless
  <2>2. ASSUME NEW i \in 1..Len(d) PROVE d[i].event = (logged + 1) - Len(d) + i
    <3>1. CASE i \in 1..Len(c)
      BY <1>1, <1>3, <1>6, <3>1 DEF Gapless
    <3>2. CASE i = Len(c) + 1
      BY <1>1, <1>3, <1>4, <3>2
    <3>3. QED
      BY <1>5, <3>1, <3>2
  <2>3. QED
    BY <2>1, <2>2 DEF Gapless
<1>7. ASSUME IdsGrow(c, seq) PROVE IdsGrow(d, seq + 1)
  <2>1. \A i \in 1..Len(c) : d[i].id = c[i].id /\ c[i].id <= seq
    BY <1>3, <1>7 DEF IdsGrow
  <2>2. \A i \in 1..Len(c) : c[i] \in Row
    BY ElementOfSeq
  <2>3. \A i \in 1..Len(c) : c[i].id \in Nat
    BY <2>2 DEF Row
  <2>4. ASSUME NEW i \in 1..Len(d), NEW j \in 1..Len(d), i < j PROVE d[i].id < d[j].id
    <3>1. i \in 1..Len(c)
      BY <1>1, <1>3, <2>4
    <3>2. CASE j \in 1..Len(c)
      BY <1>3, <1>7, <2>4, <3>1, <3>2 DEF IdsGrow
    <3>3. CASE j = Len(c) + 1
      BY <1>1, <1>3, <1>4, <2>1, <2>3, <3>1, <3>3
    <3>4. QED
      BY <1>5, <3>2, <3>3
  <2>5. ASSUME NEW i \in 1..Len(d) PROVE d[i].id <= seq + 1
    BY <1>1, <1>3, <1>4, <1>5, <2>1, <2>3
  <2>6. QED
    BY <2>4, <2>5 DEF IdsGrow
<1>8. QED
  BY <1>3, <1>6, <1>7 DEF d
-----------------------------------------------------------------------------
(* The writers.                                                            *)

LEMMA WritersCount ==
  /\ IsFiniteSet(Active) /\ Cardinality(Active) \in Nat
  /\ IsFiniteSet(Behind) /\ Cardinality(Behind) \in Nat
  /\ Cardinality(Behind) <= Cardinality(Writers)
  /\ Cardinality(Writers) \in Nat
<1>1. Active \in SUBSET Writers /\ Behind \in SUBSET Writers
  BY DEF Active, Behind
<1>2. QED
  BY <1>1, FS_Subset, FS_CardinalityType

(* A writer that begins, that has tested, and that has done or given up.   *)
LEMMA WriterBegins ==
  ASSUME StoreTypeOK, NEW w \in Writers, writer[w] = "idle", writer' = [writer EXCEPT ![w] = "check"]
  PROVE  Cardinality(Active') = Cardinality(Active) + 1 /\ Behind' = Behind
<1>1. Active' = Active \cup {w} /\ w \notin Active /\ Behind' = Behind
  BY DEF Active, Behind, StoreTypeOK
<1>2. QED
  BY <1>1, WritersCount, FS_AddElement

LEMMA WriterTests ==
  ASSUME StoreTypeOK, NEW w \in Writers, writer[w] = "check", writer' = [writer EXCEPT ![w] = "first"]
  PROVE  Active' = Active /\ Cardinality(Behind') = Cardinality(Behind) + 1
<1>1. Behind' = Behind \cup {w} /\ w \notin Behind /\ Active' = Active
  BY DEF Active, Behind, StoreTypeOK
<1>2. QED
  BY <1>1, WritersCount, FS_AddElement

LEMMA WriterGoesOn ==
  ASSUME StoreTypeOK, NEW w \in Writers, writer[w] = "first", writer' = [writer EXCEPT ![w] = "second"]
  PROVE  Active' = Active /\ Behind' = Behind
BY DEF Active, Behind, StoreTypeOK

LEMMA WriterEnds ==
  ASSUME StoreTypeOK, NEW w \in Writers, writer[w] # "idle", writer' = [writer EXCEPT ![w] = "idle"]
  PROVE  /\ Cardinality(Active') = Cardinality(Active) - 1
         /\ Cardinality(Behind') = IF w \in Behind THEN Cardinality(Behind) - 1
                                                   ELSE Cardinality(Behind)
<1>1. Active' = Active \ {w} /\ w \in Active /\ Behind' = Behind \ {w}
  BY DEF Active, Behind, StoreTypeOK
<1>2. QED
  BY <1>1, WritersCount, FS_RemoveElement

LEMMA AllEnd ==
  ASSUME writer' = [v \in Writers |-> "idle"]
  PROVE  Cardinality(Active') = 0 /\ Cardinality(Behind') = 0
<1>1. Active' = {} /\ Behind' = {}
  BY DEF Active, Behind
<1>2. QED
  BY <1>1, FS_EmptySet

(* What a transaction that fails in the middle uses up.                    *)
LEMMA SlackOf ==
  ASSUME NEW t \in 0..MaxTorn
  PROVE  /\ Slack(t) \in Nat /\ Slack(0) \in Nat /\ Slack(t) <= Slack(0)
         /\ Slack(0) = MaxTorn * MaxCurrent
         /\ t < MaxTorn => Slack(t + 1) = Slack(t) - MaxCurrent
<1>1. Slack(0) = MaxTorn * MaxCurrent /\ Slack(0) \in Nat
  BY DEF Slack
<1>2. MaxTorn - t \in Nat /\ Slack(t) \in Nat
  BY DEF Slack
<1>3. Slack(t) = MaxTorn * MaxCurrent - t * MaxCurrent /\ t * MaxCurrent \in Nat
  BY DEF Slack
<1>4. Slack(t + 1) = (MaxTorn - t) * MaxCurrent - MaxCurrent
  BY DEF Slack
<1>5. QED
  BY <1>1, <1>2, <1>3, <1>4 DEF Slack

-----------------------------------------------------------------------------
LEMMA StoreInitIInv == StoreInit => StoreIInv
<1> SUFFICES ASSUME StoreInit PROVE StoreIInv
  OBVIOUS
<1>1. Len(history) = 0 /\ Len(current) = 0
  BY EmptySeq DEF StoreInit
<1>2. StoreTypeOK
  <2>1. /\ current \in Seq(Row) /\ history \in Seq(1..MaxEvents)
        /\ writer \in [Writers -> {"idle", "check", "first", "second"}]
    BY EmptySeq DEF StoreInit
  <2>2. /\ seq \in 0..(MaxSeq + MaxEvents) /\ logged \in 0..MaxEvents
        /\ cycles \in 0..MaxCycles /\ torn \in 0..MaxTorn
    BY DEF StoreInit
  <2>3. QED
    BY <1>1, <2>1, <2>2 DEF StoreInit, StoreTypeOK
<1>3. Active = {} /\ Behind = {}
  BY DEF StoreInit, Active, Behind
<1>4. Cardinality(Active) = 0 /\ Cardinality(Behind) = 0
  BY <1>3, FS_EmptySet
<1>5. InRange /\ KeepsHalf
  BY <1>1, <1>4 DEF StoreInit, InRange, KeepsHalf, Held
<1>6. IdsGrow(current, seq) /\ NoGaps
  BY <1>1 DEF IdsGrow, NoGaps, Gapless
<1>7. RowsAreBounded
  <2>1. Cardinality(Writers) \in Nat /\ Slack(torn) = Slack(0) /\ Slack(0) \in Nat
    BY WritersCount, SlackOf DEF StoreInit
  <2>2. QED
    BY <1>1, <1>4, <2>1 DEF RowsAreBounded, Held
<1>8. QED
  BY <1>2, <1>5, <1>6, <1>7 DEF StoreIInv
-----------------------------------------------------------------------------
(* What each transaction does to the tables, and to how much they hold.    *)
TablesKept ==
  /\ current' \in Seq(Row) /\ Len(current') <= MaxCurrent
  /\ history' \in Seq(1..MaxEvents)
  /\ IdsGrow(current', seq')
  /\ torn' = 0 => Gapless(history', current', logged')

LEMMA SameTables ==
  ASSUME StoreIInv, UNCHANGED tables, torn' = 0 => torn = 0
  PROVE  TablesKept /\ Held' = Held
BY DEF StoreIInv, StoreTypeOK, NoGaps, TablesKept, tables, Held

LEMMA PurgeEffect ==
  ASSUME StoreIInv, history' = Purged, UNCHANGED <<current, seq, logged, torn>>
  PROVE  /\ TablesKept /\ Held' <= Held
         /\ Held' = Held \/ Held' >= MaxHist \div 2
         /\ Held' < Held \/ Len(history) < MaxHist
<1>1. /\ history' \in Seq(1..MaxEvents) /\ Len(history') <= Len(history)
      /\ Len(history') < Len(history) \/ Len(history) < MaxHist
      /\ Len(history') = Len(history) \/ Len(history') >= MaxHist \div 2
  BY PurgedIsSuffix DEF StoreIInv
<1>2. torn' = 0 => Gapless(history', current', logged')
  BY GaplessPurge DEF StoreIInv, NoGaps
<1>3. TablesKept
  BY <1>1, <1>2 DEF TablesKept, StoreIInv, StoreTypeOK
<1>4. Len(history) \in Nat /\ Len(history') \in Nat /\ Len(current) \in Nat
  BY <1>1, LenProperties DEF StoreIInv, StoreTypeOK
<1>5. MaxHist \div 2 \in Nat
  OBVIOUS
<1>6. QED
  BY <1>1, <1>3, <1>4, <1>5 DEF Held

LEMMA MoveAllEffect ==
  ASSUME StoreIInv, history' = history \o Events(current), current' = AfterMoveAll,
         UNCHANGED <<logged, torn>>
  PROVE  TablesKept /\ Held' = Held
<1>1. current' = <<>> /\ Len(current') = 0 /\ current' \in Seq(Row)
  BY EmptySeq DEF AfterMoveAll
<1>2. IdsGrow(current', seq')
  BY <1>1 DEF IdsGrow
<1>3. /\ history' \in Seq(1..MaxEvents)
      /\ Len(history') = Len(history) + Len(current)
      /\ torn' = 0 => Gapless(history', current', logged')
  BY <1>1, MoveAll DEF StoreIInv, NoGaps
<1>4. TablesKept
  BY <1>1, <1>2, <1>3 DEF TablesKept
<1>5. Held' = Held
  BY <1>1, <1>3, LenProperties DEF Held, StoreIInv, StoreTypeOK
<1>6. QED
  BY <1>4, <1>5

(* A full table gives its first row away.                                  *)
LEMMA OldestMoves ==
  ASSUME StoreIInv, IsFull
  PROVE  /\ current # <<>> /\ Len(current) = MaxCurrent
         /\ current[Oldest] = current[1] /\ RemoveAt(current, Oldest) = Tail(current)
<1>1. Len(current) \in Nat /\ Len(current) = MaxCurrent
  BY LenProperties DEF StoreIInv, StoreTypeOK, IsFull
<1>2. current # <<>>
  BY <1>1, EmptySeq
<1>3. QED
  BY <1>1, <1>2, OldestIsFirst DEF StoreIInv

LEMMA LostEffect ==
  ASSUME StoreIInv, NEW w \in Writers, WriteLost(w)
  PROVE  TablesKept /\ Held' = Held
<1>1. /\ history' = Append(history, current[1].event) /\ current' = Tail(current)
      /\ current # <<>> /\ UNCHANGED <<seq, logged, torn>>
  BY OldestMoves DEF WriteLost
<1>2. /\ history' \in Seq(1..MaxEvents) /\ Len(history') = Len(history) + 1
      /\ current' \in Seq(Row) /\ Len(current') = Len(current) - 1
      /\ IdsGrow(current', seq')
      /\ torn' = 0 => Gapless(history', current', logged')
  BY <1>1, MoveOldest DEF StoreIInv, NoGaps
<1>3. Len(current) \in Nat /\ Len(history) \in Nat /\ Len(current) <= MaxCurrent
  BY LenProperties DEF StoreIInv, StoreTypeOK
<1>4. QED
  BY <1>2, <1>3 DEF TablesKept, Held

LEMMA InsertHasRoom ==
  ASSUME StoreIInv, NEW w \in Writers, writer[w] # "idle"
  PROVE  logged < MaxEvents /\ seq <= logged
<1>1. w \in Active
  BY DEF Active
<1>2. Cardinality(Active) # 0
  BY <1>1, WritersCount, FS_EmptySet
<1>3. QED
  BY <1>2, WritersCount DEF StoreIInv, InRange, StoreTypeOK

LEMMA ToEmptyEffect ==
  ASSUME StoreIInv, NEW w \in Writers, WriteToEmpty(w)
  PROVE  /\ TablesKept /\ Held' = Held + 1 /\ logged < MaxEvents
<1>1. logged < MaxEvents /\ seq <= logged
  BY InsertHasRoom DEF WriteToEmpty
<1>2. /\ history' = history /\ current' = Inserted(current, seq)
      /\ seq' = seq + 1 /\ logged' = logged + 1 /\ torn' = torn
  BY DEF WriteToEmpty
<1>3. /\ Len(current) = 0 /\ current \in Seq(Row)
      /\ Len(history) \in Nat /\ history \in Seq(1..MaxEvents)
  BY EmptySeq, LenProperties DEF WriteToEmpty, StoreIInv, StoreTypeOK
<1>4. /\ current' \in Seq(Row) /\ Len(current') = Len(current) + 1
      /\ torn = 0 => Gapless(history, current', logged + 1)
      /\ IdsGrow(current', seq + 1)
  BY <1>1, <1>2, <1>3, Insert DEF StoreIInv, NoGaps
<1>5. TablesKept
  <2>1. Len(current') <= MaxCurrent /\ history' \in Seq(1..MaxEvents)
    BY <1>2, <1>3, <1>4
  <2>2. IdsGrow(current', seq') /\ (torn' = 0 => Gapless(history', current', logged'))
    BY <1>2, <1>4
  <2>3. QED
    BY <1>4, <2>1, <2>2 DEF TablesKept
<1>6. Held' = Held + 1
  BY <1>2, <1>3, <1>4 DEF Held
<1>7. QED
  BY <1>1, <1>5, <1>6

LEMMA WriteEffect ==
  ASSUME StoreIInv, NEW w \in Writers, Write(w)
  PROVE  /\ TablesKept /\ Held' = Held + 1 /\ logged < MaxEvents
<1>1. logged < MaxEvents /\ seq <= logged
  BY InsertHasRoom DEF Write
<1>2. seq' = seq + 1 /\ logged' = logged + 1 /\ torn' = torn
  BY DEF Write
<1>3. /\ Len(current) \in Nat /\ current \in Seq(Row) /\ Len(current) <= MaxCurrent
      /\ Len(history) \in Nat /\ history \in Seq(1..MaxEvents)
  BY LenProperties DEF StoreIInv, StoreTypeOK
<1>4. CASE IsFull
  <2>1. /\ history' = Append(history, current[1].event)
        /\ current' = Inserted(Tail(current), seq) /\ current # <<>>
    BY <1>4, OldestMoves DEF Write
  <2>2. /\ history' \in Seq(1..MaxEvents) /\ Len(history') = Len(history) + 1
        /\ Tail(current) \in Seq(Row) /\ Len(Tail(current)) = Len(current) - 1
        /\ IdsGrow(Tail(current), seq)
        /\ torn = 0 => Gapless(history', Tail(current), logged)
    BY <2>1, MoveOldest DEF StoreIInv, NoGaps
  <2>3. /\ current' \in Seq(Row) /\ Len(current') = Len(Tail(current)) + 1
        /\ torn = 0 => Gapless(history', current', logged + 1)
        /\ IdsGrow(current', seq + 1)
    <3>1. StoreTypeOK /\ Len(history') \in Nat
      BY <1>3, <2>2 DEF StoreIInv
    <3>2. current' = Inserted(Tail(current), seq)
      BY <2>1
    <3>3. QED
      BY <1>1, <2>2, <3>1, <3>2, Insert
  <2>4. TablesKept
    <3>1. Len(current') <= MaxCurrent
      BY <1>3, <2>2, <2>3
    <3>2. IdsGrow(current', seq') /\ (torn' = 0 => Gapless(history', current', logged'))
      BY <1>2, <2>3
    <3>3. QED
      BY <2>2, <2>3, <3>1, <3>2 DEF TablesKept
  <2>5. Held' = Held + 1
    BY <1>3, <2>2, <2>3 DEF Held
  <2>6. QED
    BY <1>1, <2>4, <2>5
<1>5. CASE ~IsFull
  <2>1. history' = history /\ current' = Inserted(current, seq)
    BY <1>5 DEF Write
  <2>2. /\ current' \in Seq(Row) /\ Len(current') = Len(current) + 1
        /\ torn = 0 => Gapless(history', current', logged + 1)
        /\ IdsGrow(current', seq + 1)
    BY <1>1, <1>3, <2>1, Insert DEF StoreIInv, NoGaps
  <2>3. Len(current') <= MaxCurrent
    BY <1>3, <1>5, <2>2 DEF IsFull
  <2>4. QED
    BY <1>1, <1>2, <1>3, <2>1, <2>2, <2>3 DEF TablesKept, Held
<1>6. QED
  BY <1>4, <1>5

LEMMA TornEffect ==
  ASSUME StoreIInv, NEW w \in Writers, WriteTorn(w)
  PROVE  TablesKept /\ Held' \in Held..(Held + MaxCurrent)
<1>1. /\ UNCHANGED <<current, seq, logged>> /\ torn' # 0
  BY DEF WriteTorn, StoreIInv, StoreTypeOK
<1>2. /\ Len(current) \in Nat /\ Len(current) <= MaxCurrent
      /\ Len(history) \in Nat
  BY LenProperties DEF StoreIInv, StoreTypeOK
<1>3. \/ IsFull /\ history' = Append(history, current[Oldest].event)
      \/ history' = history \o Events(current)
  BY DEF WriteTorn
<1>4. CASE IsFull /\ history' = Append(history, current[Oldest].event)
  <2>1. history' \in Seq(1..MaxEvents) /\ Len(history') = Len(history) + 1
    BY <1>4, OldestMoves, MoveOldest DEF StoreIInv
  <2>2. QED
    BY <1>1, <1>2, <2>1 DEF TablesKept, Held, StoreIInv, StoreTypeOK
<1>5. CASE history' = history \o Events(current)
  <2>1. history' \in Seq(1..MaxEvents) /\ Len(history') = Len(history) + Len(current)
    BY <1>5, MoveAll DEF StoreIInv
  <2>2. QED
    BY <1>1, <1>2, <2>1 DEF TablesKept, Held, StoreIInv, StoreTypeOK
<1>6. QED
  BY <1>3, <1>4, <1>5
-----------------------------------------------------------------------------
(* The start of the device and the end of the ids move all rows.           *)
LEMMA InitMoveEffect ==
  ASSUME StoreIInv, InitMove
  PROVE  TablesKept /\ Held' = Held /\ seq' \in 0..seq
<1>1. TablesKept /\ Held' = Held
  BY MoveAllEffect DEF InitMove
<1>2. CASE current = <<>>
  BY <1>1, <1>2 DEF InitMove, StoreIInv, StoreTypeOK
<1>3. CASE current # <<>>
  <2>1. Len(current) \in 1..Len(current)
    BY <1>3, EmptySeq DEF StoreIInv, StoreTypeOK
  <2>2. current[Len(current)] \in Row /\ current[Len(current)].id <= seq
    BY <2>1, ElementOfSeq DEF StoreIInv, StoreTypeOK, IdsGrow
  <2>3. current[Len(current)].id \in Nat
    BY <2>2 DEF Row
  <2>4. seq' = current[Len(current)].id /\ seq \in Nat
    BY <1>3 DEF InitMove, StoreIInv, StoreTypeOK
  <2>5. QED
    BY <1>1, <2>2, <2>3, <2>4
<1>4. QED
  BY <1>2, <1>3

LEMMA SequenceEffect ==
  ASSUME StoreIInv, NEW w \in Writers, CheckSequence(w)
  PROVE  TablesKept /\ Held' = Held /\ seq' \in 0..seq
<1>1. CASE seq >= MaxSeq
  <2>1. TablesKept /\ Held' = Held
    BY <1>1, MoveAllEffect DEF CheckSequence
  <2>2. QED
    BY <1>1, <2>1 DEF CheckSequence, StoreIInv, StoreTypeOK
<1>2. CASE ~(seq >= MaxSeq)
  <2>1. TablesKept /\ Held' = Held
    BY <1>2, SameTables DEF CheckSequence, tables
  <2>2. QED
    BY <1>2, <2>1 DEF CheckSequence, StoreIInv, StoreTypeOK
<1>3. QED
  BY <1>1, <1>2

(* Whatever the step, the tables are well-formed, their ids grow and their *)
(* events are a run.                                                       *)
LEMMA TablesStep ==
  ASSUME StoreIInv, [StoreNext]_storeVars PROVE TablesKept
<1>1. CASE InitCheck
  BY <1>1, PurgeEffect DEF InitCheck
<1>2. CASE InitMove
  BY <1>2, InitMoveEffect
<1>3. ASSUME NEW w \in Writers, Begin(w) \/ WriteFails(w) PROVE TablesKept
  BY <1>3, SameTables DEF Begin, WriteFails
<1>4. ASSUME NEW w \in Writers, CheckHistory(w) PROVE TablesKept
  BY <1>4, PurgeEffect DEF CheckHistory
<1>5. ASSUME NEW w \in Writers,
             WriteToEmpty(w) \/ CheckSequence(w) \/ Write(w) \/ WriteLost(w) \/ WriteTorn(w)
      PROVE  TablesKept
  BY <1>5, ToEmptyEffect, SequenceEffect, WriteEffect, LostEffect, TornEffect
<1>6. CASE PowerFails
  BY <1>6, SameTables DEF PowerFails
<1>7. CASE UNCHANGED storeVars
  BY <1>7, SameTables DEF storeVars, tables
<1>8. QED
  BY <1>1, <1>2, <1>3, <1>4, <1>5, <1>6, <1>7 DEF StoreNext, Writer

(* Where the writers stand, and the counters of the two faults.            *)
LEMMA PlacesStep ==
  ASSUME StoreIInv, [StoreNext]_storeVars
  PROVE  /\ system' \in {"check", "move", "up"}
         /\ writer' \in [Writers -> {"idle", "check", "first", "second"}]
         /\ cycles' \in 0..MaxCycles /\ torn' \in 0..MaxTorn
<1> USE DEF StoreIInv, StoreTypeOK
<1>1. CASE InitCheck \/ InitMove
  BY <1>1 DEF InitCheck, InitMove
<1>2. ASSUME NEW w \in Writers, Writer(w), ~WriteTorn(w)
      PROVE  /\ system' = system /\ cycles' = cycles /\ torn' = torn
             /\ writer' \in [Writers -> {"idle", "check", "first", "second"}]
  BY <1>2 DEF Writer, Begin, CheckHistory, WriteToEmpty, CheckSequence, Write, WriteFails,
              WriteLost
<1>3. ASSUME NEW w \in Writers, WriteTorn(w)
      PROVE  /\ system' = system /\ cycles' = cycles /\ torn' \in 0..MaxTorn
             /\ writer' \in [Writers -> {"idle", "check", "first", "second"}]
  BY <1>3 DEF WriteTorn
<1>4. CASE PowerFails
  BY <1>4 DEF PowerFails
<1>5. CASE UNCHANGED storeVars
  BY <1>5 DEF storeVars
<1>6. QED
  BY <1>1, <1>2, <1>3, <1>4, <1>5 DEF StoreNext

(* The sequence and the number of events.                                  *)
LEMMA RangeStep ==
  ASSUME StoreIInv, [StoreNext]_storeVars
  PROVE  InRange' /\ seq' \in 0..(MaxSeq + MaxEvents) /\ logged' \in 0..MaxEvents
<1>1. /\ logged \in Nat /\ seq \in Nat /\ seq <= logged
      /\ logged + Cardinality(Active) <= MaxEvents
      /\ Cardinality(Active) \in Nat
  BY WritersCount DEF StoreIInv, StoreTypeOK, InRange
<1>2. StoreTypeOK
  BY DEF StoreIInv
<1>3. SUFFICES /\ logged' \in Nat /\ seq' \in 0..logged'
               /\ Cardinality(Active') \in Nat
               /\ logged' + Cardinality(Active') <= MaxEvents
  BY DEF InRange
<1>4. CASE InitCheck \/ UNCHANGED storeVars
  BY <1>1, <1>4 DEF InitCheck, storeVars, Active
<1>5. CASE InitMove
  BY <1>1, <1>5, InitMoveEffect DEF InitMove, Active
<1>6. CASE PowerFails
  BY <1>1, <1>6, AllEnd DEF PowerFails, tables
<1>7. ASSUME NEW w \in Writers, Begin(w)
      PROVE  /\ logged' = logged /\ seq' = seq
             /\ Cardinality(Active') = Cardinality(Active) + 1
             /\ logged + Cardinality(Active) < MaxEvents
  BY <1>2, <1>7, WriterBegins DEF Begin, tables, Active
<1>8. ASSUME NEW w \in Writers, CheckHistory(w)
      PROVE  logged' = logged /\ seq' = seq /\ Active' = Active
  BY <1>2, <1>8, WriterTests DEF CheckHistory
<1>9. ASSUME NEW w \in Writers, CheckSequence(w)
      PROVE  logged' = logged /\ seq' \in 0..seq /\ Active' = Active
  BY <1>2, <1>9, SequenceEffect, WriterGoesOn DEF CheckSequence
<1>10. ASSUME NEW w \in Writers, WriteToEmpty(w) \/ Write(w)
       PROVE  /\ logged' = logged + 1 /\ seq' = seq + 1
              /\ Cardinality(Active') = Cardinality(Active) - 1 /\ w \in Active
  BY <1>2, <1>10, WriterEnds DEF WriteToEmpty, Write, Active
<1>11. ASSUME NEW w \in Writers, WriteFails(w) \/ WriteLost(w) \/ WriteTorn(w)
       PROVE  /\ logged' = logged /\ seq' = seq
              /\ Cardinality(Active') = Cardinality(Active) - 1 /\ w \in Active
  BY <1>2, <1>11, WriterEnds DEF WriteFails, WriteLost, WriteTorn, tables, Active
<1>12. ASSUME NEW w \in Active PROVE Cardinality(Active) # 0
  BY WritersCount, FS_EmptySet
<1>13. ASSUME NEW w \in Writers, Writer(w)
       PROVE  /\ logged' \in Nat /\ seq' \in 0..logged'
              /\ Cardinality(Active') \in Nat
              /\ logged' + Cardinality(Active') <= MaxEvents
  BY <1>1, <1>7, <1>8, <1>9, <1>10, <1>11, <1>12, <1>13 DEF Writer
<1>14. QED
  BY <1>4, <1>5, <1>6, <1>13 DEF StoreNext

(* Only the purge takes anything away, and it leaves half of the limit.    *)
LEMMA HalfStep ==
  ASSUME StoreIInv, [StoreNext]_storeVars PROVE KeepsHalf'
<1>1. /\ logged \in Nat /\ Held \in Nat /\ MaxHist \div 2 \in Nat
      /\ Held >= logged \/ Held >= MaxHist \div 2
  BY LenProperties DEF StoreIInv, StoreTypeOK, KeepsHalf, Held
<1>2. CASE InitCheck \/ \E w \in Writers : CheckHistory(w)
  <2>1. Held' = Held \/ Held' >= MaxHist \div 2
    BY <1>2, PurgeEffect DEF InitCheck, CheckHistory
  <2>2. logged' = logged
    BY <1>2 DEF InitCheck, CheckHistory
  <2>3. QED
    BY <1>1, <2>1, <2>2 DEF KeepsHalf
<1>3. ASSUME NEW w \in Writers, Begin(w) \/ WriteFails(w)
      PROVE  Held' = Held /\ logged' = logged
  BY <1>3 DEF Begin, WriteFails, tables, Held
<1>4. ASSUME NEW w \in Writers, CheckSequence(w) \/ WriteLost(w)
      PROVE  Held' = Held /\ logged' = logged
  BY <1>4, SequenceEffect, LostEffect DEF CheckSequence, WriteLost
<1>5. ASSUME NEW w \in Writers, WriteToEmpty(w) \/ Write(w)
      PROVE  Held' = Held + 1 /\ logged' = logged + 1
  BY <1>5, ToEmptyEffect, WriteEffect DEF WriteToEmpty, Write
<1>6. ASSUME NEW w \in Writers, WriteTorn(w)
      PROVE  Held' \in Held..(Held + MaxCurrent) /\ logged' = logged
  BY <1>6, TornEffect DEF WriteTorn
<1>7. CASE InitMove
  BY <1>1, <1>7, InitMoveEffect DEF InitMove, KeepsHalf
<1>8. CASE PowerFails \/ UNCHANGED storeVars
  BY <1>1, <1>8 DEF PowerFails, storeVars, tables, KeepsHalf, Held
<1>9. ASSUME NEW w \in Writers, Writer(w) PROVE KeepsHalf'
  BY <1>1, <1>2, <1>3, <1>4, <1>5, <1>6, <1>9 DEF Writer, KeepsHalf
<1>10. QED
  BY <1>2, <1>7, <1>8, <1>9 DEF StoreNext

(* A test that finds room is the only step that adds to the rows and what  *)
(* may still be moved, and it finds less than the limit.                   *)
LEMMA RowsStep ==
  ASSUME StoreIInv, [StoreNext]_storeVars PROVE RowsAreBounded'
<1> DEFINE B == Cardinality(Behind)
           W == Cardinality(Writers)
<1>1. /\ Held \in Nat /\ B \in Nat /\ W \in Nat /\ B <= W
      /\ Slack(torn) \in Nat /\ Slack(0) \in Nat
      /\ Held + B + Slack(torn) <= (MaxHist - 1) + MaxCurrent + W + Slack(0)
  BY WritersCount, SlackOf, LenProperties DEF StoreIInv, StoreTypeOK, RowsAreBounded, Held
<1>2. B' \in Nat /\ B' <= W
  BY WritersCount, FS_Subset, FS_CardinalityType DEF Behind
<1>3. Held' \in Nat
  BY TablesStep, LenProperties DEF TablesKept, Held
<1>4. SUFFICES Held' + B' + Slack(torn') <= (MaxHist - 1) + MaxCurrent + W + Slack(0)
  BY DEF RowsAreBounded
<1>5. StoreTypeOK
  BY DEF StoreIInv
<1> HIDE DEF B
<1>6. CASE UNCHANGED storeVars
  BY <1>1, <1>6 DEF storeVars, Held, B, Behind
<1>7. CASE InitCheck
  <2>1. Held' <= Held /\ B' = B /\ torn' = torn
    BY <1>7, PurgeEffect DEF InitCheck, B, Behind
  <2>2. QED
    BY <1>1, <1>2, <1>3, <2>1
<1>8. CASE InitMove
  <2>1. Held' = Held /\ B' = B /\ torn' = torn
    BY <1>8, InitMoveEffect DEF InitMove, B, Behind
  <2>2. QED
    BY <1>1, <2>1
<1>9. CASE PowerFails
  <2>1. Held' = Held /\ B' = 0 /\ torn' = torn
    BY <1>9, AllEnd DEF PowerFails, tables, Held, B
  <2>2. QED
    BY <1>1, <2>1
<1>10. ASSUME NEW w \in Writers, Begin(w) \/ CheckSequence(w)
       PROVE  Held' = Held /\ B' = B /\ torn' = torn
  BY <1>5, <1>10, WriterBegins, WriterGoesOn, SequenceEffect
  DEF Begin, CheckSequence, tables, Held, B
<1>11. ASSUME NEW w \in Writers, CheckHistory(w)
       PROVE  Held' + B' + Slack(torn') <= (MaxHist - 1) + MaxCurrent + W + Slack(0)
  <2>1. Held' <= Held /\ (Held' < Held \/ Len(history) < MaxHist) /\ B' = B + 1 /\ torn' = torn
    BY <1>5, <1>11, PurgeEffect, WriterTests DEF CheckHistory, B
  <2>2. CASE Held' < Held
    BY <1>1, <1>3, <2>1, <2>2
  <2>3. CASE Len(history) < MaxHist
    <3>1. Held <= (MaxHist - 1) + MaxCurrent /\ Slack(torn) <= Slack(0)
      BY <2>3, SlackOf, LenProperties DEF StoreIInv, StoreTypeOK, Held
    <3>2. QED
      BY <1>1, <1>2, <1>3, <2>1, <3>1
  <2>4. QED
    BY <2>1, <2>2, <2>3
<1>12. ASSUME NEW w \in Writers, WriteToEmpty(w) \/ Write(w)
       PROVE  Held' = Held + 1 /\ B' = B - 1 /\ torn' = torn
  BY <1>5, <1>12, ToEmptyEffect, WriteEffect, WriterEnds DEF WriteToEmpty, Write, B, Behind
<1>13. ASSUME NEW w \in Writers, WriteFails(w)
       PROVE  Held' = Held /\ B' <= B /\ torn' = torn
  <2>1. Held' = Held /\ torn' = torn
    BY <1>13 DEF WriteFails, tables, Held
  <2>2. B' = B \/ B' = B - 1
    BY <1>5, <1>13, WriterEnds DEF WriteFails, B
  <2>3. QED
    BY <1>1, <2>1, <2>2
<1>14. ASSUME NEW w \in Writers, WriteLost(w)
       PROVE  Held' = Held /\ B' = B - 1 /\ torn' = torn
  BY <1>5, <1>14, LostEffect, WriterEnds DEF WriteLost, B, Behind
<1>15. ASSUME NEW w \in Writers, WriteTorn(w)
       PROVE  Held' <= Held + MaxCurrent /\ B' = B - 1 /\ Slack(torn') = Slack(torn) - MaxCurrent
  <2>1. torn' = torn + 1 /\ torn < MaxTorn /\ torn \in 0..MaxTorn
    BY <1>5, <1>15 DEF WriteTorn, StoreTypeOK
  <2>2. Held' <= Held + MaxCurrent
    BY <1>1, <1>15, TornEffect
  <2>3. B' = B - 1
    BY <1>5, <1>15, WriterEnds DEF WriteTorn, B, Behind
  <2>4. QED
    BY <2>1, <2>2, <2>3, SlackOf
<1>16. ASSUME NEW w \in Writers, Writer(w)
       PROVE  Held' + B' + Slack(torn') <= (MaxHist - 1) + MaxCurrent + W + Slack(0)
  <2>1. CASE Begin(w) \/ CheckSequence(w) \/ WriteToEmpty(w) \/ Write(w)
    BY <1>1, <1>10, <1>12, <2>1
  <2>2. CASE CheckHistory(w)
    BY <1>11, <2>2
  <2>3. CASE WriteFails(w) \/ WriteLost(w)
    BY <1>1, <1>2, <1>13, <1>14, <2>3
  <2>4. CASE WriteTorn(w)
    BY <1>1, <1>2, <1>3, <1>15, <2>4
  <2>5. QED
    BY <1>16, <2>1, <2>2, <2>3, <2>4 DEF Writer
<1>17. QED
  BY <1>6, <1>7, <1>8, <1>9, <1>16 DEF StoreNext, B

-----------------------------------------------------------------------------
(* The theorems.                                                           *)

LEMMA StoreIInvStep == StoreIInv /\ [StoreNext]_storeVars => StoreIInv'
<1> SUFFICES ASSUME StoreIInv, [StoreNext]_storeVars PROVE StoreIInv'
  OBVIOUS
<1>1. TablesKept
  BY TablesStep
<1>2. StoreTypeOK'
  BY <1>1, PlacesStep, RangeStep DEF StoreTypeOK, TablesKept
<1>3. IdsGrow(current, seq)' /\ NoGaps'
  BY <1>1 DEF TablesKept, NoGaps, IdsGrow
<1>4. QED
  BY <1>2, <1>3, RangeStep, HalfStep, RowsStep DEF StoreIInv

LEMMA StoreIInvHolds == StoreSpec => []StoreIInv
BY StoreInitIInv, StoreIInvStep, PTL DEF StoreSpec

(* Type correctness: the current table never grows over its limit, and the *)
(* ids stay in their range.                                                *)
THEOREM StoreTypeCorrect == StoreSpec => []StoreTypeOK
<1>1. StoreIInv => StoreTypeOK
  BY DEF StoreIInv
<1>2. QED
  BY <1>1, StoreIInvHolds, PTL

(* The smallest rowid of the current table is that of its oldest event,    *)
(* when the ids have started again as well (common_event.c:60-97).         *)
THEOREM IdsFollowAgeHolds == StoreSpec => []IdsFollowAge
<1>1. StoreIInv => IdsFollowAge
  BY DEF StoreIInv, IdsGrow, IdsFollowAge
<1>2. QED
  BY <1>1, StoreIInvHolds, PTL

(* The two tables hold an unbroken run of the latest events, in order, for *)
(* any number of daemons that write in between each other's transactions   *)
(* and wherever the power fails (common_event.c).                          *)
THEOREM LogIsSuffixHolds == StoreSpec => []LogIsSuffix
<1>1. ASSUME StoreIInv PROVE LogIsSuffix
  <2> SUFFICES ASSUME torn = 0, NEW i \in 1..Len(Contents)
               PROVE  Contents[i] = logged - Len(Contents) + i
    BY DEF LogIsSuffix
  <2>1. /\ Len(Contents) = Len(history) + Len(current)
        /\ Contents[i] = IF i <= Len(history) THEN history[i]
                         ELSE current[i - Len(history)].event
    BY ContentsLen, <1>1 DEF StoreIInv
  <2>2. Gapless(history, current, logged)
    BY <1>1 DEF StoreIInv, NoGaps
  <2>3. Len(history) \in Nat /\ Len(current) \in Nat /\ logged \in Nat
    BY <1>1, LenProperties DEF StoreIInv, StoreTypeOK
  <2>4. CASE i <= Len(history)
    BY <2>1, <2>2, <2>3, <2>4 DEF Gapless
  <2>5. CASE ~(i <= Len(history))
    <3>1. i - Len(history) \in 1..Len(current)
      BY <2>1, <2>3, <2>5
    <3>2. Contents[i] = logged - Len(current) + (i - Len(history))
      BY <2>1, <2>2, <2>5, <3>1 DEF Gapless
    <3>3. QED
      BY <2>1, <2>3, <3>2
  <2>6. QED
    BY <2>4, <2>5
<1>2. QED
  BY <1>1, StoreIInvHolds, PTL

(* The later half of the limit is kept, and the limit is overrun by no     *)
(* more than a row for each writer behind its test, the rows a start or a  *)
(* restart of the ids moves, and those that failing lists double.          *)
THEOREM HistoryKeepsItsLimitHolds == StoreSpec => []HistoryKeepsItsLimit
<1>1. ASSUME StoreIInv PROVE KeepsRecent
  <2>1. Len(Contents) = Held
    BY <1>1, ContentsLen DEF StoreIInv, Held
  <2>2. logged \in Nat /\ Held \in Nat /\ MaxHist \div 2 \in Nat
    BY <1>1, LenProperties DEF StoreIInv, StoreTypeOK, Held
  <2>3. Held >= logged \/ Held >= MaxHist \div 2
    BY <1>1 DEF StoreIInv, KeepsHalf
  <2>4. QED
    BY <2>1, <2>2, <2>3 DEF KeepsRecent
<1>2. ASSUME StoreIInv PROVE OverrunIsBounded
  <2>1. /\ Len(history) \in Nat /\ Len(current) \in Nat
        /\ Cardinality(Behind) \in Nat /\ Cardinality(Writers) \in Nat
        /\ Slack(torn) \in Nat /\ Slack(0) = MaxTorn * MaxCurrent
        /\ MaxTorn * MaxCurrent \in Nat
    BY <1>2, WritersCount, SlackOf, LenProperties DEF StoreIInv, StoreTypeOK
  <2>2. Len(history) <= (MaxHist - 1) + MaxCurrent + Cardinality(Writers) + MaxTorn * MaxCurrent
    BY <1>2, <2>1 DEF StoreIInv, RowsAreBounded, Held
  <2>3. (MaxTorn + 1) * MaxCurrent = MaxTorn * MaxCurrent + MaxCurrent
    OBVIOUS
  <2>4. QED
    BY <2>1, <2>2, <2>3 DEF OverrunIsBounded
<1>3. StoreIInv => HistoryKeepsItsLimit
  BY <1>1, <1>2 DEF HistoryKeepsItsLimit
<1>4. QED
  BY <1>3, StoreIInvHolds, PTL

HIDE StoreAssumption DEF StoreAssumption


-----------------------------------------------------------------------------
(* AlarmTables.                                                            *)

USE DEF Alarms, Halt, NtpExit

CurEntry == [id : 0..MaxId, alarm : 0..MaxAlarm]
UploadEntry == [id : 0..MaxId, alarm : 0..MaxAlarm, on : BOOLEAN]

(* The types of what the module's TypeOK leaves out.                       *)
HistoryOK ==
  /\ bounds \in [changes : Nat, starts : Nat, faults : Nat, ignored : BOOLEAN]
  /\ log \in [changes : Seq(Alarms \X BOOLEAN), ended : Seq(Alarms), full : BOOLEAN]

(* The alarms the table of current alarms is to hold: in the middle of a   *)
(* comparison those before the alarm it has come to are the new ones.      *)
Awaited ==
  IF pc = "compare" THEN {a \in new : a < at} \cup {a \in old : a >= at} ELSE old

EachOnce ==
  \A i, j \in 1..MaxCur :
    cur[i].id # 0 /\ cur[j].id # 0 /\ cur[i].alarm = cur[j].alarm => i = j

CurrentFollows ==
  pc # "down" /\ ~bounds.ignored =>
    /\ EachOnce
    /\ Listed(cur) \subseteq Awaited
    /\ ~log.full => Awaited \subseteq Listed(cur)

(* The changes since the upload table was empty, the first of them that is *)
(* still in it, and the entry of change k.                                 *)
Count == Len(log.changes)
First == IF Count < MaxUpload THEN 1 ELSE Count - MaxUpload + 1
Entry(k) == [id |-> k, alarm |-> log.changes[k][1], on |-> log.changes[k][2]]

UploadFollows ==
  /\ last.upload = Count
  /\ Count < MaxId
  /\ \A i \in 1..MaxUpload :
       \/ upload[i] = Empty
       \/ upload[i].id \in First..Count /\ upload[i] = Entry(upload[i].id)
  /\ \A i, j \in 1..MaxUpload :
       upload[i].id = upload[j].id /\ upload[i].id # 0 => i = j
  /\ \A k \in First..Count : \E i \in 1..MaxUpload : upload[i].id = k

EndedFollows ==
  bounds.faults = 0 =>
    /\ Len(ended) <= Len(log.ended)
    /\ \A i \in 1..Len(ended) :
         ended[i] = log.ended[Len(log.ended) - Len(ended) + i]
    /\ log.ended # <<>> => ended # <<>>

IInv == TypeOK /\ HistoryOK /\ CurrentFollows /\ UploadFollows /\ EndedFollows

-----------------------------------------------------------------------------
(* The constants, one by one.                                              *)
LEMMA Constants ==
  /\ MaxAlarm \in Nat \ {0, 1} /\ MaxCur \in Nat \ {0} /\ MaxUpload \in Nat \ {0}
  /\ MaxId \in Nat \ {0} /\ MaxAlm \in Nat \ {0}
  /\ MaxChanges \in Nat /\ MaxStarts \in Nat /\ MaxFaults \in Nat
  /\ MaxUpload < MaxId
BY AlarmAssumption DEF AlarmAssumption

(* A set of natural numbers has a least element.                           *)
LEMMA LeastNat ==
  ASSUME NEW S, S \subseteq Nat, S # {}
  PROVE  \E m \in S : \A j \in S : m <= j
<1>1. PICK m \in S : \A j \in S : ~(<<j, m>> \in OpToRel(<, Nat))
  BY NatLessThanWellFounded, WFMin
<1>2. ASSUME NEW j \in S PROVE m <= j
  <2>1. m \in Nat /\ j \in Nat
    OBVIOUS
  <2>2. ~(j < m)
    BY <1>1, <2>1 DEF OpToRel
  <2>. QED
    BY <2>1, <2>2
<1>. QED
  BY <1>2

LEMMA LeastIsLeast ==
  ASSUME NEW S, S \subseteq Nat, S # {}
  PROVE  Least(S) \in S /\ \A j \in S : Least(S) <= j
BY LeastNat DEF Least

(* Place finds an entry with the least id.                                 *)
LEMMA PlaceIsLeast ==
  ASSUME NEW u \in [1..MaxUpload -> UploadEntry]
  PROVE  /\ Place(u) \in 1..MaxUpload
         /\ \A j \in 1..MaxUpload : u[Place(u)].id <= u[j].id
<1>. DEFINE ids == {u[i].id : i \in 1..MaxUpload}
            Best(i) == \A j \in DOMAIN u : u[i].id < u[j].id \/ (u[i].id = u[j].id /\ i <= j)
<1>1. \A i \in 1..MaxUpload : u[i].id \in Nat
  BY Constants DEF UploadEntry
<1>2. ids \subseteq Nat /\ ids # {}
  BY <1>1, Constants
<1>3. PICK m \in ids : \A j \in ids : m <= j
  BY <1>2, LeastNat
<1>. DEFINE its == {i \in 1..MaxUpload : u[i].id = m}
<1>4. its \subseteq Nat /\ its # {}
  BY <1>3, Constants
<1>5. PICK p \in its : \A j \in its : p <= j
  BY <1>4, LeastNat
<1>6. Best(p)
  <2>. SUFFICES ASSUME NEW j \in 1..MaxUpload
                PROVE  u[p].id < u[j].id \/ (u[p].id = u[j].id /\ p <= j)
    OBVIOUS
  <2>1. u[p].id = m /\ m <= u[j].id /\ u[j].id \in Nat /\ m \in Nat
    BY <1>1, <1>3, <1>5
  <2>2. u[j].id = m => p <= j
    BY <1>5
  <2>. QED
    BY <2>1, <2>2
<1>7. Place(u) \in DOMAIN u /\ Best(Place(u))
  BY <1>5, <1>6 DEF Place
<1>8. \A j \in 1..MaxUpload : u[Place(u)].id <= u[j].id
  <2>. SUFFICES ASSUME NEW j \in 1..MaxUpload PROVE u[Place(u)].id <= u[j].id
    OBVIOUS
  <2>1. u[Place(u)].id < u[j].id \/ u[Place(u)].id = u[j].id
    BY <1>7
  <2>2. u[Place(u)].id \in Nat /\ u[j].id \in Nat
    BY <1>1, <1>7
  <2>. HIDE DEF Best
  <2>. QED
    BY <2>1, <2>2
<1>. QED
  BY <1>7, <1>8
-----------------------------------------------------------------------------
(* What CurWith and CurWithout make of the table of current alarms.        *)

LEMMA CurWithAdds ==
  ASSUME TypeOK, NEW a \in Alarms
  PROVE  \/ /\ \A i \in 1..MaxCur : cur[i].id # 0
            /\ CurWith(a) = cur
            /\ CurLast = last.cur
         \/ /\ CurWith(a) # cur
            /\ CurLast = NextId(last.cur)
            /\ \E i \in 1..MaxCur :
                 /\ cur[i].id = 0
                 /\ CurWith(a) = [cur EXCEPT ![i] = [id |-> last.cur + 1, alarm |-> a]]
<1>. DEFINE free == {i \in DOMAIN cur : cur[i].id = 0}
<1>1. cur \in [1..MaxCur -> CurEntry] /\ last.cur \in 0..(MaxId - 1)
  BY DEF TypeOK, CurEntry
<1>2. DOMAIN cur = 1..MaxCur
  BY <1>1
<1>3. CASE free = {}
  BY <1>2, <1>3 DEF CurWith, CurLast
<1>4. CASE free # {}
  <2>1. free \subseteq Nat
    BY <1>2
  <2>2. Least(free) \in free
    BY <1>4, <2>1, LeastIsLeast
  <2>3. CurWith(a) = [cur EXCEPT ![Least(free)] = [id |-> last.cur + 1, alarm |-> a]]
    BY <1>4 DEF CurWith
  <2>4. CurLast = NextId(last.cur)
    BY <1>4 DEF CurLast
  <2>5. CurWith(a)[Least(free)].id = last.cur + 1
    BY <1>1, <2>2, <2>3
  <2>6. last.cur + 1 # 0
    BY <1>1, Constants
  <2>7. cur[Least(free)].id = 0
    BY <2>2
  <2>. QED
    BY <1>2, <2>2, <2>3, <2>4, <2>5, <2>6, <2>7
<1>. QED
  BY <1>3, <1>4

LEMMA CurWithoutTakes ==
  ASSUME TypeOK, NEW a \in Alarms
  PROVE  \/ /\ \A i \in 1..MaxCur : ~(cur[i].id # 0 /\ cur[i].alarm = a)
            /\ CurWithout(a) = cur
         \/ \E i \in 1..MaxCur :
              /\ cur[i].id # 0 /\ cur[i].alarm = a
              /\ CurWithout(a) = [cur EXCEPT ![i] = Free]
<1>. DEFINE its == {i \in DOMAIN cur : cur[i].id # 0 /\ cur[i].alarm = a}
<1>1. cur \in [1..MaxCur -> CurEntry]
  BY DEF TypeOK, CurEntry
<1>2. DOMAIN cur = 1..MaxCur
  BY <1>1
<1>3. CASE its = {}
  BY <1>2, <1>3 DEF CurWithout
<1>4. CASE its # {}
  <2>1. its \subseteq Nat
    BY <1>2
  <2>2. Least(its) \in its
    BY <1>4, <2>1, LeastIsLeast
  <2>3. CurWithout(a) = [cur EXCEPT ![Least(its)] = Free]
    BY <1>4 DEF CurWithout
  <2>. QED
    BY <1>2, <2>2, <2>3
<1>. QED
  BY <1>3, <1>4

-----------------------------------------------------------------------------
(* Type correctness.                                                       *)

LEMMA CurTypes ==
  ASSUME TypeOK, NEW a \in Alarms
  PROVE  /\ CurWith(a) \in [1..MaxCur -> CurEntry]
         /\ CurWithout(a) \in [1..MaxCur -> CurEntry]
         /\ CurLast \in 0..(MaxId - 1)
<1>1. cur \in [1..MaxCur -> CurEntry] /\ last.cur \in 0..(MaxId - 1)
  BY DEF TypeOK, CurEntry
<1>2. [id |-> last.cur + 1, alarm |-> a] \in CurEntry
  BY <1>1, Constants DEF CurEntry
<1>3. Free \in CurEntry
  BY Constants DEF CurEntry, Free
<1>4. NextId(last.cur) \in 0..(MaxId - 1)
  BY <1>1, Constants DEF NextId
<1>5. CurWith(a) \in [1..MaxCur -> CurEntry]
  BY <1>1, <1>2, CurWithAdds
<1>6. CurWithout(a) \in [1..MaxCur -> CurEntry]
  BY <1>1, <1>3, CurWithoutTakes
<1>7. CurLast \in 0..(MaxId - 1)
  BY <1>1, <1>4, CurWithAdds
<1>. QED
  BY <1>5, <1>6, <1>7

LEMMA KeptTypes ==
  ASSUME TypeOK, NEW a \in Alarms
  PROVE  /\ Kept(ended) \in Seq(Alarms) /\ Len(Kept(ended)) < MaxAlm
         /\ Append(Kept(ended), a) \in Seq(Alarms)
         /\ Len(Append(Kept(ended), a)) = Len(Kept(ended)) + 1
<1>1. ended \in Seq(Alarms) /\ Len(ended) \in Nat /\ Len(ended) <= MaxAlm
  BY DEF TypeOK
<1>2. CASE Len(ended) < MaxAlm
  BY <1>1, <1>2 DEF Kept
<1>3. CASE Len(ended) = MaxAlm
  <2>. DEFINE cut == (Len(ended) + 1) \div 2 + 1
  <2>1. cut \in 2..(Len(ended) + 1)
    BY <1>1, <1>3, Constants
  <2>2. Kept(ended) = SubSeq(ended, cut, Len(ended))
    BY <1>1, <1>3, Constants DEF Kept
  <2>. HIDE DEF cut
  <2>3. /\ SubSeq(ended, cut, Len(ended)) \in Seq(Alarms)
        /\ Len(SubSeq(ended, cut, Len(ended)))
             = IF cut <= Len(ended) THEN Len(ended) - cut + 1 ELSE 0
    <3>0. \A i \in cut..Len(ended) : i \in 1..Len(ended)
      BY <1>1, <2>1
    <3>1. \A i \in cut..Len(ended) : ended[i] \in Alarms
      BY <1>1, <3>0, ElementOfSeq
    <3>2. cut \in Int /\ Len(ended) \in Int
      BY <1>1, <2>1
    <3>. QED
      BY <3>1, <3>2, SubSeqProperties
  <2>4. Len(Kept(ended)) < MaxAlm
    BY <1>1, <1>3, <2>1, <2>2, <2>3, Constants
  <2>. QED
    BY <2>2, <2>3, <2>4
<1>. QED
  BY <1>1, <1>2, <1>3, Constants

LEMMA EnterTypes ==
  ASSUME TypeOK, HistoryOK, NEW a \in Alarms, NEW on \in BOOLEAN,
         NEW c \in [1..MaxCur -> CurEntry], Enter(a, on, c)
  PROVE  /\ cur' \in [1..MaxCur -> CurEntry]
         /\ upload' \in [1..MaxUpload -> UploadEntry]
         /\ last' \in [cur : 0..(MaxId - 1), upload : 0..(MaxId - 1)]
         /\ log' \in [changes : Seq(Alarms \X BOOLEAN), ended : Seq(Alarms), full : BOOLEAN]
<1>1. upload \in [1..MaxUpload -> UploadEntry] /\ last.upload \in 0..(MaxId - 1)
      /\ last.cur \in 0..(MaxId - 1)
  BY DEF TypeOK, UploadEntry
<1>2. [id |-> last.upload + 1, alarm |-> a, on |-> on] \in UploadEntry
  BY <1>1, Constants DEF UploadEntry
<1>3. UploadWith(a, on) \in [1..MaxUpload -> UploadEntry]
  BY <1>1, <1>2 DEF UploadWith
<1>4. NoTables.upload \in [1..MaxUpload -> UploadEntry]
  <2>1. Empty \in UploadEntry
    BY Constants DEF UploadEntry, Empty
  <2>. QED
    BY <2>1 DEF NoTables
<1>5. upload' \in [1..MaxUpload -> UploadEntry]
  BY <1>3, <1>4 DEF Enter
<1>6. last' \in [cur : 0..(MaxId - 1), upload : 0..(MaxId - 1)]
  <2>1. NextId(last.upload) \in 0..(MaxId - 1)
    BY <1>1, Constants DEF NextId
  <2>. QED
    BY <1>1, <2>1, CurTypes DEF Enter
<1>7. log' \in [changes : Seq(Alarms \X BOOLEAN), ended : Seq(Alarms), full : BOOLEAN]
  <2>1. /\ log.changes \in Seq(Alarms \X BOOLEAN)
        /\ log.ended \in Seq(Alarms)
        /\ log.full \in BOOLEAN
    BY DEF HistoryOK
  <2>2. <<a, on>> \in Alarms \X BOOLEAN
    OBVIOUS
  <2>3. /\ Append(log.changes, <<a, on>>) \in Seq(Alarms \X BOOLEAN)
        /\ Append(log.ended, a) \in Seq(Alarms)
        /\ <<>> \in Seq(Alarms \X BOOLEAN)
    BY <2>1, <2>2
  <2>4. (log.full \/ (on /\ c = cur)) \in BOOLEAN
    OBVIOUS
  <2>. QED
    BY <2>1, <2>3, <2>4 DEF Enter
<1>. QED
  BY <1>5, <1>6, <1>7 DEF Enter

LEMMA InitInv == Init => IInv
<1>. SUFFICES ASSUME Init PROVE IInv
  OBVIOUS
<1>1. /\ cur = [i \in 1..MaxCur |-> Free]
      /\ upload = [i \in 1..MaxUpload |-> Empty]
      /\ ended = <<>> /\ pc = "down" /\ new = {} /\ old = {} /\ at = 1
      /\ log = [changes |-> <<>>, ended |-> <<>>, full |-> FALSE]
      /\ last = [cur |-> 0, upload |-> 0]
      /\ bounds = [changes |-> 0, starts |-> 0, faults |-> 0, ignored |-> FALSE]
  BY DEF Init, NoTables
<1>2. cur \in [1..MaxCur -> CurEntry]
  BY <1>1, Constants DEF CurEntry, Free
<1>3. upload \in [1..MaxUpload -> UploadEntry]
  BY <1>1, Constants DEF UploadEntry, Empty
<1>4. TypeOK
  <2>1. dev \in [on : SUBSET Alarms, fpga : BOOLEAN, judged : BOOLEAN]
    BY DEF Init
  <2>2. at \in 1..(MaxAlarm + 1)
    BY <1>1, Constants
  <2>3. last \in [cur : 0..(MaxId - 1), upload : 0..(MaxId - 1)]
    BY <1>1, Constants
  <2>4. ended \in Seq(Alarms) /\ Len(ended) <= MaxAlm
    BY <1>1, EmptySeq, Constants
  <2>5. waiting = FALSE
    BY DEF Init
  <2>. QED
    BY <1>1, <1>2, <1>3, <2>1, <2>2, <2>3, <2>4, <2>5
       DEF TypeOK, CurEntry, UploadEntry
<1>5. HistoryOK
  BY <1>1, EmptySeq DEF HistoryOK
<1>6. CurrentFollows
  BY <1>1 DEF CurrentFollows
<1>7. UploadFollows
  <2>1. Count = 0 /\ First..Count = {}
    BY <1>1, Constants DEF Count, First
  <2>2. \A i \in 1..MaxUpload : upload[i] = Empty /\ upload[i].id = 0
    BY <1>1 DEF Empty
  <2>. QED
    BY <1>1, <2>1, <2>2, Constants DEF UploadFollows
<1>8. EndedFollows
  BY <1>1 DEF EndedFollows
<1>. QED
  BY <1>4, <1>5, <1>6, <1>7, <1>8 DEF IInv

(* Proceed and Fail, as far as the types go.                               *)
LEMMA GoOnTypes ==
  ASSUME TypeOK, HistoryOK, at \in Alarms, Proceed \/ Fail
  PROVE  /\ at' \in 1..(MaxAlarm + 1)
         /\ pc' \in {"down", "top", "compare", "write"}
         /\ bounds' \in [changes : Nat, starts : Nat, faults : Nat, ignored : BOOLEAN]
<1>1. at + 1 \in 1..(MaxAlarm + 1) /\ at \in 1..(MaxAlarm + 1)
  BY Constants
<1>2. bounds.faults \in Nat
  BY DEF HistoryOK
<1>3. CASE Proceed
  BY <1>1, <1>3 DEF Proceed, TypeOK, HistoryOK
<1>4. CASE Fail
  <2>1. bounds' = [bounds EXCEPT !.faults = @ + 1, !.ignored = @ \/ waiting]
    BY <1>4 DEF Fail
  <2>. DEFINE x == bounds.ignored \/ waiting
  <2>2. bounds' \in [changes : Nat, starts : Nat, faults : Nat, ignored : BOOLEAN]
    <3>. DEFINE counted == [bounds EXCEPT !.faults = @ + 1]
    <3>1. counted \in [changes : Nat, starts : Nat, faults : Nat, ignored : BOOLEAN]
      BY <1>2, SMTT(30) DEF HistoryOK
    <3>2. x \in BOOLEAN /\ bounds' = [counted EXCEPT !.ignored = x]
      BY <2>1
    <3>. HIDE DEF x, counted
    <3>. QED
      BY <3>1, <3>2
  <2>. QED
    BY <1>1, <1>4, <2>2 DEF Fail
<1>. QED
  BY <1>3, <1>4

LEMMA NextTypes ==
  ASSUME TypeOK, HistoryOK, [Next]_vars
  PROVE  TypeOK' /\ HistoryOK'
<1>. USE DEF CurEntry, UploadEntry
<1>1. CASE Raise
  <2>1. at \in Alarms /\ at \in new
    BY <1>1 DEF Raise, TypeOK
  <2>2. Enter(at, TRUE, CurWith(at))
    BY <1>1 DEF Raise
  <2>3. /\ cur' \in [1..MaxCur -> CurEntry]
        /\ upload' \in [1..MaxUpload -> UploadEntry]
        /\ last' \in [cur : 0..(MaxId - 1), upload : 0..(MaxId - 1)]
        /\ log' \in [changes : Seq(Alarms \X BOOLEAN), ended : Seq(Alarms), full : BOOLEAN]
    BY <2>1, <2>2, CurTypes, EnterTypes
  <2>4. /\ at' \in 1..(MaxAlarm + 1)
        /\ pc' \in {"down", "top", "compare", "write"}
        /\ bounds' \in [changes : Nat, starts : Nat, faults : Nat, ignored : BOOLEAN]
    BY <1>1, <2>1, GoOnTypes DEF Raise
  <2>5. UNCHANGED <<dev, waiting, new, old, ended>>
    BY <1>1 DEF Raise
  <2>6. log'.full \in BOOLEAN
    BY <2>3
  <2>. QED
    BY <2>3, <2>4, <2>5, <2>6 DEF TypeOK, HistoryOK
<1>2. CASE Clear
  <2>1. at \in Alarms
    BY <1>2 DEF Clear, TypeOK
  <2>2. Enter(at, FALSE, CurWithout(at))
    BY <1>2 DEF Clear
  <2>3. /\ cur' \in [1..MaxCur -> CurEntry]
        /\ upload' \in [1..MaxUpload -> UploadEntry]
        /\ last' \in [cur : 0..(MaxId - 1), upload : 0..(MaxId - 1)]
        /\ log' \in [changes : Seq(Alarms \X BOOLEAN), ended : Seq(Alarms), full : BOOLEAN]
    BY <2>1, <2>2, CurTypes, EnterTypes
  <2>4. /\ at' \in 1..(MaxAlarm + 1)
        /\ pc' \in {"down", "top", "compare", "write"}
        /\ bounds' \in [changes : Nat, starts : Nat, faults : Nat, ignored : BOOLEAN]
    BY <1>2, <2>1, GoOnTypes DEF Clear
  <2>5. ended' \in Seq(Alarms) /\ Len(ended') <= MaxAlm
    <3>1. ended' \in {ended, Kept(ended), Append(Kept(ended), at)}
      BY <1>2 DEF Clear
    <3>2. ended \in Seq(Alarms) /\ Len(ended) <= MaxAlm
      BY DEF TypeOK
    <3>3. /\ Kept(ended) \in Seq(Alarms) /\ Len(Kept(ended)) <= MaxAlm
          /\ Append(Kept(ended), at) \in Seq(Alarms)
          /\ Len(Append(Kept(ended), at)) <= MaxAlm
      <4>1. Kept(ended) \in Seq(Alarms) /\ Len(Kept(ended)) < MaxAlm
        BY <2>1, KeptTypes
      <4>2. Append(Kept(ended), at) \in Seq(Alarms)
            /\ Len(Append(Kept(ended), at)) = Len(Kept(ended)) + 1
        BY <2>1, KeptTypes
      <4>3. Len(Kept(ended)) \in Nat
        BY <4>1
      <4>. QED
        BY <4>1, <4>2, <4>3, Constants
    <3>. QED
      BY <3>1, <3>2, <3>3
  <2>6. UNCHANGED <<dev, waiting, new, old>>
    BY <1>2 DEF Clear
  <2>7. log'.full \in BOOLEAN
    BY <2>3
  <2>. QED
    BY <2>3, <2>4, <2>5, <2>6, <2>7 DEF TypeOK, HistoryOK
<1>3. CASE NoTime
  <2>1. at \in Alarms
    BY <1>3 DEF NoTime, TypeOK
  <2>2. /\ at' \in 1..(MaxAlarm + 1)
        /\ pc' \in {"down", "top", "compare", "write"}
        /\ bounds' \in [changes : Nat, starts : Nat, faults : Nat, ignored : BOOLEAN]
    BY <1>3, <2>1, GoOnTypes DEF NoTime
  <2>3. UNCHANGED <<dev, waiting, new, old, cur, upload, last, ended, shown, log>>
    BY <1>3 DEF NoTime
  <2>. QED
    BY <2>2, <2>3 DEF TypeOK, HistoryOK
<1>4. CASE Same
  <2>1. at' \in 1..(MaxAlarm + 1)
    BY <1>4, Constants DEF Same
  <2>2. UNCHANGED <<dev, pc, waiting, new, old, cur, upload, last, ended, shown, log, bounds>>
    BY <1>4 DEF Same
  <2>. QED
    BY <2>1, <2>2 DEF TypeOK, HistoryOK
<1>5. CASE Compared
  BY <1>5 DEF Compared, Copied, TypeOK, HistoryOK
<1>6. CASE Wait
  <2>1. new' \subseteq Alarms
    <3>1. 1 \in Alarms
      BY Constants
    <3>. QED
      BY <1>6, <3>1 DEF Wait, TypeOK
  <2>2. at' \in 1..(MaxAlarm + 1) /\ pc' = "compare" /\ waiting' = TRUE
    BY <1>6, Constants DEF Wait
  <2>3. UNCHANGED <<dev, old, cur, upload, last, ended, shown, log, bounds>>
    BY <1>6 DEF Wait
  <2>. QED
    BY <2>1, <2>2, <2>3 DEF TypeOK, HistoryOK
<1>7. CASE Collect
  <2>1. new' \subseteq Alarms
    BY <1>7 DEF Collect, TypeOK
  <2>2. at' \in 1..(MaxAlarm + 1) /\ pc' \in {"compare", "write"} /\ waiting' = FALSE
    BY <1>7, Constants DEF Collect
  <2>3. UNCHANGED <<dev, old, cur, upload, last, ended, shown, log, bounds>>
    BY <1>7 DEF Collect
  <2>. QED
    BY <2>1, <2>2, <2>3 DEF TypeOK, HistoryOK
<1>8. CASE WriteInfo
  BY <1>8 DEF WriteInfo, TypeOK, HistoryOK
<1>9. CASE Start
  <2>1. /\ cur' = [i \in 1..MaxCur |-> Free]
        /\ upload' = [i \in 1..MaxUpload |-> Empty]
        /\ last' = [cur |-> 0, upload |-> 0]
        /\ pc' = "top" /\ waiting' = FALSE /\ at' = 1 /\ new' = {} /\ old' = {}
    BY <1>9 DEF Start, NoTables
  <2>2. cur' \in [1..MaxCur -> CurEntry] /\ upload' \in [1..MaxUpload -> UploadEntry]
    BY <2>1, Constants DEF Free, Empty
  <2>3. last' \in [cur : 0..(MaxId - 1), upload : 0..(MaxId - 1)]
        /\ at' \in 1..(MaxAlarm + 1)
    BY <2>1, Constants
  <2>4. log' \in [changes : Seq(Alarms \X BOOLEAN), ended : Seq(Alarms), full : BOOLEAN]
    BY <1>9, EmptySeq DEF Start, HistoryOK
  <2>5. bounds' \in [changes : Nat, starts : Nat, faults : Nat, ignored : BOOLEAN]
    <3>1. bounds.starts \in Nat
      BY DEF HistoryOK
    <3>2. bounds' = [bounds EXCEPT !.starts = @ + 1, !.ignored = FALSE]
      BY <1>9 DEF Start
    <3>. DEFINE counted == [bounds EXCEPT !.starts = @ + 1]
    <3>3. counted \in [changes : Nat, starts : Nat, faults : Nat, ignored : BOOLEAN]
      BY <3>1 DEF HistoryOK
    <3>4. bounds' = [counted EXCEPT !.ignored = FALSE]
      BY <3>2
    <3>. HIDE DEF counted
    <3>. QED
      BY <3>3, <3>4
  <2>6. UNCHANGED <<dev, ended>>
    BY <1>9 DEF Start
  <2>7. log'.full \in BOOLEAN
    BY <2>4
  <2>. QED
    BY <2>1, <2>2, <2>3, <2>4, <2>5, <2>6, <2>7 DEF TypeOK, HistoryOK
<1>10. CASE Stop
  BY <1>10 DEF Stop, TypeOK, HistoryOK
<1>11. CASE Change
  <2>1. dev' \in [on : SUBSET Alarms, fpga : BOOLEAN, judged : BOOLEAN]
    <3>1. dev \in [on : SUBSET Alarms, fpga : BOOLEAN, judged : BOOLEAN]
      BY DEF TypeOK
    <3>2. \/ \E a \in Alarms \ {Halt} :
               dev' = [dev EXCEPT !.on = IF a \in @ THEN @ \ {a} ELSE @ \cup {a}]
          \/ dev' = [dev EXCEPT !.fpga = ~@]
          \/ dev' = [dev EXCEPT !.judged = ~@]
      BY <1>11 DEF Change
    <3>. QED
      BY <3>1, <3>2, ZenonT(60)
  <2>2. bounds' \in [changes : Nat, starts : Nat, faults : Nat, ignored : BOOLEAN]
    <3>1. /\ bounds \in [changes : Nat, starts : Nat, faults : Nat, ignored : BOOLEAN]
          /\ bounds.changes + 1 \in Nat
      BY DEF HistoryOK
    <3>2. bounds' = [bounds EXCEPT !.changes = @ + 1]
      BY <1>11 DEF Change
    <3>. QED
      BY <3>1, <3>2
  <2>3. UNCHANGED <<pc, waiting, at, new, old, cur, upload, last, ended, shown, log>>
    BY <1>11 DEF Change
  <2>. QED
    BY <2>1, <2>2, <2>3 DEF TypeOK, HistoryOK
<1>12. CASE UNCHANGED vars
  BY <1>12 DEF vars, TypeOK, HistoryOK
<1>. QED
  BY <1>1, <1>2, <1>3, <1>4, <1>5, <1>6, <1>7, <1>8, <1>9, <1>10, <1>11, <1>12
     DEF Next, Daemon
-----------------------------------------------------------------------------
(* The table of current alarms.                                            *)

LEMMA ListedMeans ==
  ASSUME NEW c \in [1..MaxCur -> CurEntry], NEW x
  PROVE  x \in Listed(c) <=> \E i \in 1..MaxCur : c[i].id # 0 /\ c[i].alarm = x
BY DEF Listed

LEMMA RaiseListed ==
  ASSUME TypeOK, EachOnce, NEW a \in Alarms, a \notin Listed(cur),
         CurWith(a) # cur, cur' = CurWith(a)
  PROVE  /\ EachOnce'
         /\ \A x : x \in Listed(cur') <=> x \in Listed(cur) \/ x = a
<1>1. cur \in [1..MaxCur -> CurEntry] /\ last.cur \in 0..(MaxId - 1)
  BY DEF TypeOK, CurEntry
<1>2. PICK p \in 1..MaxCur :
        /\ cur[p].id = 0
        /\ cur' = [cur EXCEPT ![p] = [id |-> last.cur + 1, alarm |-> a]]
  BY CurWithAdds
<1>3. last.cur + 1 # 0
  BY <1>1, Constants
<1>4. /\ cur'[p].id # 0 /\ cur'[p].alarm = a
      /\ \A i \in 1..MaxCur : i # p => cur'[i] = cur[i]
  BY <1>1, <1>2, <1>3
<1>5. cur' \in [1..MaxCur -> CurEntry]
  BY CurTypes
<1>6. \A i \in 1..MaxCur : cur[i].id # 0 => cur[i].alarm # a
  BY <1>1, ListedMeans
<1>7. EachOnce'
  BY <1>4, <1>6 DEF EachOnce
<1>8. \A x : x \in Listed(cur') <=> x \in Listed(cur) \/ x = a
  <2>. SUFFICES ASSUME NEW x
                PROVE  x \in Listed(cur') <=> x \in Listed(cur) \/ x = a
    OBVIOUS
  <2>1. x \in Listed(cur') <=> \E i \in 1..MaxCur : cur'[i].id # 0 /\ cur'[i].alarm = x
    BY <1>5, ListedMeans
  <2>2. x \in Listed(cur) <=> \E i \in 1..MaxCur : cur[i].id # 0 /\ cur[i].alarm = x
    BY <1>1, ListedMeans
  <2>. QED
    BY <1>2, <1>4, <2>1, <2>2
<1>. QED
  BY <1>7, <1>8

LEMMA ClearListed ==
  ASSUME TypeOK, EachOnce, NEW a \in Alarms, cur' = CurWithout(a)
  PROVE  /\ EachOnce'
         /\ \A x : x \in Listed(cur') <=> x \in Listed(cur) /\ x # a
<1>1. cur \in [1..MaxCur -> CurEntry] /\ cur' \in [1..MaxCur -> CurEntry]
  BY CurTypes DEF TypeOK, CurEntry
<1>2. CASE /\ \A i \in 1..MaxCur : ~(cur[i].id # 0 /\ cur[i].alarm = a)
           /\ cur' = cur
  <2>1. a \notin Listed(cur)
    BY <1>1, <1>2, ListedMeans
  <2>. QED
    BY <1>2, <2>1 DEF EachOnce
<1>3. ASSUME NEW p \in 1..MaxCur, cur[p].id # 0, cur[p].alarm = a,
             cur' = [cur EXCEPT ![p] = Free]
      PROVE  /\ EachOnce'
             /\ \A x : x \in Listed(cur') <=> x \in Listed(cur) /\ x # a
  <2>1. /\ cur'[p].id = 0
        /\ \A i \in 1..MaxCur : i # p => cur'[i] = cur[i]
    BY <1>1, <1>3 DEF Free
  <2>2. EachOnce'
    BY <2>1 DEF EachOnce
  <2>3. \A i \in 1..MaxCur : i # p /\ cur[i].id # 0 => cur[i].alarm # a
    BY <1>3 DEF EachOnce
  <2>4. ASSUME NEW x
        PROVE  x \in Listed(cur') <=> x \in Listed(cur) /\ x # a
    <3>1. x \in Listed(cur') <=> \E i \in 1..MaxCur : cur'[i].id # 0 /\ cur'[i].alarm = x
      BY <1>1, ListedMeans
    <3>2. x \in Listed(cur) <=> \E i \in 1..MaxCur : cur[i].id # 0 /\ cur[i].alarm = x
      BY <1>1, ListedMeans
    <3>. QED
      BY <1>3, <2>1, <2>3, <3>1, <3>2
  <2>. QED
    BY <2>2, <2>4
<1>. QED
  BY <1>2, <1>3, CurWithoutTakes

(* How the comparison goes on: without an error everything before `at' is  *)
(* done, and an error is either the end or one that is ignored.            *)
LEMMA GoOnAwaits ==
  ASSUME TypeOK, HistoryOK, pc = "compare", at \in Alarms, Proceed \/ Fail,
         UNCHANGED <<new, old>>, (pc # "down" /\ ~bounds.ignored)',
         waiting' = waiting
  PROVE  /\ Proceed /\ ~bounds.ignored
         /\ \A x : x \in Awaited' <=> \/ x # at /\ x \in Awaited
                                      \/ x = at /\ x \in new
<1>2. ~Fail
  <2>1. SUFFICES ASSUME Fail PROVE FALSE
    OBVIOUS
  <2>2. /\ bounds' = [bounds EXCEPT !.faults = @ + 1, !.ignored = @ \/ waiting]
        /\ ~waiting => pc' = "down"
    BY <2>1 DEF Fail
  <2>3. bounds'.ignored = (bounds.ignored \/ waiting)
    BY <2>2 DEF HistoryOK
  <2>. QED
    BY <2>2, <2>3 DEF TypeOK
<1>3. Proceed
  BY <1>2
<1>4. /\ at' = at + 1 /\ pc' = "compare" /\ bounds' = bounds
      /\ new' = new /\ old' = old
  BY <1>3 DEF Proceed
<1>5. ~bounds.ignored
  BY <1>4
<1>6. \A x \in Alarms : /\ x < at + 1 <=> x < at \/ x = at
                        /\ x >= at + 1 <=> x >= at /\ x # at
  BY Constants
<1>7. new \subseteq Alarms /\ old \subseteq Alarms
  BY DEF TypeOK
<1>8. ~(at < at) /\ at >= at
  BY Constants
<1>9. Awaited = {a \in new : a < at} \cup {a \in old : a >= at}
  BY DEF Awaited
<1>10. Awaited' = {a \in new : a < at + 1} \cup {a \in old : a >= at + 1}
  BY <1>4 DEF Awaited
<1>11. \A x : x \in Awaited' <=> \/ x # at /\ x \in Awaited
                                 \/ x = at /\ x \in new
  <2>. SUFFICES ASSUME NEW x
                PROVE  x \in Awaited' <=> \/ x # at /\ x \in Awaited
                                          \/ x = at /\ x \in new
    OBVIOUS
  <2>1. CASE x \in Alarms
    <3>1. x \in Awaited <=> (x \in new /\ x < at) \/ (x \in old /\ x >= at)
      BY <1>9
    <3>2. x \in Awaited' <=> (x \in new /\ x < at + 1) \/ (x \in old /\ x >= at + 1)
      BY <1>10
    <3>. QED
      BY <1>6, <1>8, <2>1, <3>1, <3>2
  <2>2. CASE x \notin Alarms
    BY <1>7, <1>9, <1>10, <2>2
  <2>. QED
    BY <2>1, <2>2
<1>. QED
  BY <1>3, <1>5, <1>11

LEMMA CurrentStep ==
  ASSUME TypeOK, HistoryOK, CurrentFollows, [Next]_vars
  PROVE  CurrentFollows'
<1>. SUFFICES ASSUME (pc # "down" /\ ~bounds.ignored)'
              PROVE  /\ EachOnce'
                     /\ Listed(cur)' \subseteq Awaited'
                     /\ (~log.full)' => Awaited' \subseteq Listed(cur)'
  BY DEF CurrentFollows
<1>0. cur \in [1..MaxCur -> CurEntry] /\ new \subseteq Alarms /\ old \subseteq Alarms
  BY DEF TypeOK, CurEntry
<1>a. ASSUME UNCHANGED <<cur, log, bounds>>, pc # "down", Awaited' = Awaited
      PROVE  /\ EachOnce'
             /\ Listed(cur)' \subseteq Awaited'
             /\ (~log.full)' => Awaited' \subseteq Listed(cur)'
  <2>1. ~bounds.ignored /\ Listed(cur)' = Listed(cur) /\ log'.full = log.full
    BY <1>a DEF Listed
  <2>2. /\ EachOnce
        /\ Listed(cur) \subseteq Awaited
        /\ ~log.full => Awaited \subseteq Listed(cur)
    BY <1>a, <2>1 DEF CurrentFollows
  <2>3. EachOnce'
    BY <1>a, <2>2 DEF EachOnce
  <2>. QED
    BY <1>a, <2>1, <2>2, <2>3
<1>1. CASE Raise
  <2>1. /\ pc = "compare" /\ at \in Alarms /\ at \in new /\ at \notin old
        /\ Enter(at, TRUE, CurWith(at)) /\ (Proceed \/ Fail)
        /\ UNCHANGED <<waiting, new, old>>
    BY <1>0, <1>1 DEF Raise
  <2>2. /\ ~bounds.ignored
        /\ \A x : x \in Awaited' <=> (x # at /\ x \in Awaited) \/ (x = at /\ x \in new)
    BY <2>1, GoOnAwaits
  <2>3. /\ EachOnce
        /\ Listed(cur) \subseteq Awaited
        /\ ~log.full => Awaited \subseteq Listed(cur)
    BY <2>1, <2>2 DEF CurrentFollows
  <2>4. at \notin Awaited
    <3>1. ~(at < at)
      BY <2>1, Constants
    <3>2. Awaited = {a \in new : a < at} \cup {a \in old : a >= at}
      BY <2>1 DEF Awaited
    <3>. QED
      BY <2>1, <3>1, <3>2
  <2>5. /\ cur' = CurWith(at)
        /\ log'.full = (log.full \/ CurWith(at) = cur)
    BY <2>1 DEF Enter
  <2>6. CASE CurWith(at) = cur
    <3>1. cur' = cur /\ log'.full /\ Listed(cur)' = Listed(cur)
      BY <2>5, <2>6 DEF Listed
    <3>2. EachOnce'
      BY <2>3, <3>1 DEF EachOnce
    <3>. QED
      BY <2>2, <2>3, <2>4, <3>1, <3>2
  <2>7. CASE CurWith(at) # cur
    <3>1. /\ EachOnce'
          /\ \A x : x \in Listed(cur') <=> x \in Listed(cur) \/ x = at
      BY <2>1, <2>3, <2>4, <2>5, <2>7, RaiseListed
    <3>2. log'.full = log.full
      BY <2>5, <2>7 DEF HistoryOK
    <3>3. Listed(cur)' = Listed(cur')
      OBVIOUS
    <3>4. Listed(cur') \subseteq Awaited'
      BY <2>1, <2>2, <2>3, <2>4, <3>1
    <3>5. ~log.full => Awaited' \subseteq Listed(cur')
      BY <2>2, <2>3, <3>1
    <3>. QED
      BY <3>1, <3>2, <3>3, <3>4, <3>5
  <2>. QED
    BY <2>6, <2>7
<1>2. CASE Clear
  <2>1. /\ pc = "compare" /\ at \in Alarms /\ at \notin new /\ at \in old
        /\ Enter(at, FALSE, CurWithout(at)) /\ (Proceed \/ Fail)
        /\ UNCHANGED <<waiting, new, old>>
    BY <1>0, <1>2 DEF Clear
  <2>2. /\ ~bounds.ignored
        /\ \A x : x \in Awaited' <=> (x # at /\ x \in Awaited) \/ (x = at /\ x \in new)
    BY <2>1, GoOnAwaits
  <2>3. /\ EachOnce
        /\ Listed(cur) \subseteq Awaited
        /\ ~log.full => Awaited \subseteq Listed(cur)
    BY <2>1, <2>2 DEF CurrentFollows
  <2>4. cur' = CurWithout(at) /\ log'.full = log.full
    BY <2>1 DEF Enter, HistoryOK
  <2>5. /\ EachOnce'
        /\ \A x : x \in Listed(cur') <=> x \in Listed(cur) /\ x # at
    BY <2>1, <2>3, <2>4, ClearListed
  <2>6. Listed(cur)' = Listed(cur')
    OBVIOUS
  <2>7. Listed(cur') \subseteq Awaited'
    BY <2>2, <2>3, <2>5
  <2>8. ~log.full => Awaited' \subseteq Listed(cur')
    BY <2>1, <2>2, <2>3, <2>5
  <2>. QED
    BY <2>4, <2>5, <2>6, <2>7, <2>8
<1>3. CASE NoTime
  <2>1. /\ pc = "compare" /\ at \in Alarms /\ Fail
        /\ UNCHANGED <<waiting, new, old>>
    BY <1>0, <1>3 DEF NoTime
  <2>2. Proceed
    BY <2>1, GoOnAwaits
  <2>3. bounds' = bounds /\ bounds' = [bounds EXCEPT !.faults = @ + 1, !.ignored = @ \/ waiting]
    BY <2>1, <2>2 DEF Proceed, Fail
  <2>4. bounds.faults \in Nat /\ bounds'.faults = bounds.faults + 1
    BY <2>3 DEF HistoryOK
  <2>. QED
    BY <2>3, <2>4
<1>4. CASE Same
  <2>1. /\ pc = "compare" /\ at \in Alarms /\ (at \in new <=> at \in old)
        /\ Proceed
        /\ UNCHANGED <<pc, waiting, new, old, cur, log, bounds>>
    BY <1>4 DEF Same, Proceed
  <2>2. \A x : x \in Awaited' <=> (x # at /\ x \in Awaited) \/ (x = at /\ x \in new)
    BY <2>1, GoOnAwaits
  <2>3. at \in Awaited <=> at \in new
    <3>1. ~(at < at) /\ at >= at
      BY <2>1, Constants
    <3>2. Awaited = {a \in new : a < at} \cup {a \in old : a >= at}
      BY <2>1 DEF Awaited
    <3>3. at \in Awaited <=> (at \in new /\ at < at) \/ (at \in old /\ at >= at)
      BY <3>2
    <3>. QED
      BY <2>1, <3>1, <3>3
  <2>4. Awaited' = Awaited
    <3>1. \A x : x \in Awaited' <=> x \in Awaited
      BY <2>2, <2>3
    <3>. QED
      BY <3>1
  <2>. QED
    BY <1>a, <2>1, <2>4
<1>5. CASE Compared
  <2>1. /\ pc = "compare" /\ at > MaxAlarm /\ pc' = "write" /\ old' = new
        /\ UNCHANGED <<cur, log, bounds>>
    BY <1>5 DEF Compared, Copied
  <2>2. \A x \in Alarms : x < at /\ ~(x >= at)
    BY <2>1, Constants DEF TypeOK
  <2>3. Awaited = {a \in new : a < at} \cup {a \in old : a >= at}
    BY <2>1 DEF Awaited
  <2>4. \A x : x \in Awaited <=> (x \in new /\ x < at) \/ (x \in old /\ x >= at)
    BY <2>3
  <2>5. \A x : x \in Awaited <=> x \in new
    BY <1>0, <2>2, <2>4
  <2>6. Awaited = new /\ Awaited' = new
    <3>1. Awaited = new
      BY <2>5
    <3>2. Awaited' = old'
      BY <2>1 DEF Awaited
    <3>. QED
      BY <2>1, <3>1, <3>2
  <2>. QED
    BY <1>a, <2>1, <2>6
<1>6. ASSUME pc = "top", at' = 1, UNCHANGED <<old, cur, log, bounds>>,
             pc' \in {"compare", "write"}, new' \subseteq Alarms
      PROVE  /\ EachOnce'
             /\ Listed(cur)' \subseteq Awaited'
             /\ (~log.full)' => Awaited' \subseteq Listed(cur)'
  <2>1. Awaited = old
    BY <1>6 DEF Awaited
  <2>2. CASE pc' = "write"
    <3>1. Awaited' = old
      BY <1>6, <2>2 DEF Awaited
    <3>. QED
      BY <1>a, <1>6, <2>1, <3>1
  <2>3. CASE pc' = "compare"
    <3>1. \A x \in Alarms : ~(x < 1) /\ x >= 1
      BY Constants
    <3>2. Awaited' = {a \in new' : a < 1} \cup {a \in old : a >= 1}
      BY <1>6, <2>3 DEF Awaited
    <3>3. \A x : x \in Awaited' <=> (x \in new' /\ x < 1) \/ (x \in old /\ x >= 1)
      BY <3>2
    <3>4. \A x : x \in Awaited' <=> x \in old
      BY <1>0, <1>6, <3>1, <3>3
    <3>5. Awaited' = old
      BY <3>4
    <3>. QED
      BY <1>a, <1>6, <2>1, <3>5
  <2>. QED
    BY <1>6, <2>2, <2>3
<1>7. CASE Wait
  <2>1. 1 \in Alarms /\ 2 \in Alarms
    BY Constants
  <2>2. new' \subseteq Alarms
    BY <1>0, <1>7, <2>1 DEF Wait
  <2>. QED
    BY <1>6, <1>7, <2>2 DEF Wait
<1>8. CASE Collect
  <2>1. new' \subseteq Alarms
    BY <1>8 DEF Collect, TypeOK
  <2>. QED
    BY <1>6, <1>8, <2>1 DEF Collect
<1>9. CASE WriteInfo
  <2>1. pc = "write" /\ pc' = "top" /\ UNCHANGED <<old, cur, log, bounds>>
    BY <1>9 DEF WriteInfo
  <2>2. Awaited' = Awaited
    BY <2>1 DEF Awaited
  <2>. QED
    BY <1>a, <2>1, <2>2
<1>10. CASE Start
  <2>1. /\ pc' = "top" /\ old' = {} /\ cur' = [i \in 1..MaxCur |-> Free]
    BY <1>10 DEF Start, NoTables
  <2>2. Awaited' = {}
    BY <2>1 DEF Awaited
  <2>3. \A i \in 1..MaxCur : cur'[i].id = 0
    BY <2>1 DEF Free
  <2>4. EachOnce' /\ Listed(cur)' = {}
    BY <2>1, <2>3 DEF EachOnce, Listed
  <2>. QED
    BY <2>2, <2>4
<1>11. CASE Stop
  BY <1>11 DEF Stop
<1>12. CASE Change
  <2>1. /\ UNCHANGED <<pc, at, new, old, cur, log>>
        /\ bounds' = [bounds EXCEPT !.changes = @ + 1]
    BY <1>12 DEF Change
  <2>2. bounds'.ignored = bounds.ignored /\ pc # "down"
    BY <2>1 DEF HistoryOK
  <2>3. /\ ~bounds.ignored /\ Listed(cur)' = Listed(cur)
        /\ log'.full = log.full /\ Awaited' = Awaited
    BY <2>1, <2>2 DEF Listed, Awaited
  <2>4. /\ EachOnce
        /\ Listed(cur) \subseteq Awaited
        /\ ~log.full => Awaited \subseteq Listed(cur)
    BY <2>2, <2>3 DEF CurrentFollows
  <2>5. EachOnce'
    BY <2>1, <2>4 DEF EachOnce
  <2>. QED
    BY <2>3, <2>4, <2>5
<1>13. CASE UNCHANGED vars
  <2>1. UNCHANGED <<pc, at, new, old, cur, log, bounds>>
    BY <1>13 DEF vars
  <2>2. Awaited' = Awaited
    BY <2>1 DEF Awaited
  <2>. QED
    BY <1>a, <2>1, <2>2
<1>. QED
  BY <1>1, <1>2, <1>3, <1>4, <1>5, <1>7, <1>8, <1>9, <1>10, <1>11, <1>12, <1>13
     DEF Next, Daemon
-----------------------------------------------------------------------------
(* The upload table.                                                       *)

(* Before it is full there is an empty entry, and when it is there is none. *)
LEMMA Places ==
  ASSUME TypeOK, HistoryOK, UploadFollows
  PROVE  /\ Count \in Nat
         /\ Count < MaxUpload => \E i \in 1..MaxUpload : upload[i] = Empty
         /\ Count >= MaxUpload => \A i \in 1..MaxUpload : upload[i].id # 0
<1>1. upload \in [1..MaxUpload -> UploadEntry]
  BY DEF TypeOK, UploadEntry
<1>2. Count \in Nat
  BY DEF HistoryOK, Count
<1>3. \A i \in 1..MaxUpload :
        upload[i] = Empty \/ upload[i].id \in First..Count
  BY DEF UploadFollows
<1>4. First \in Nat \ {0}
  BY <1>2, Constants DEF First
<1>5. \A i, j \in 1..MaxUpload :
        upload[i].id = upload[j].id /\ upload[i].id # 0 => i = j
  BY DEF UploadFollows
<1>6. ASSUME Count < MaxUpload, \A i \in 1..MaxUpload : upload[i] # Empty
      PROVE  FALSE
  <2>. DEFINE f == [i \in 1..MaxUpload |-> upload[i].id]
  <2>1. \A i \in 1..MaxUpload : upload[i].id \in 1..Count
    <3>1. \A n : n \in First..Count => n \in 1..Count
      BY <1>2, <1>4
    <3>. QED
      BY <1>3, <1>6, <3>1
  <2>2. f \in [1..MaxUpload -> 1..Count]
    BY <2>1
  <2>3. /\ IsFiniteSet(1..MaxUpload) /\ Cardinality(1..MaxUpload) = MaxUpload
        /\ IsFiniteSet(1..Count) /\ Cardinality(1..Count) = Count
    <3>1. /\ 1 \in Int /\ MaxUpload \in Int /\ Count \in Int
          /\ ~(1 > MaxUpload) /\ MaxUpload - 1 + 1 = MaxUpload
          /\ (IF 1 > Count THEN 0 ELSE Count - 1 + 1) = Count
      BY <1>2, Constants
    <3>. QED
      BY <3>1, FS_Interval
  <2>4. \A i \in 1..MaxUpload : f[i] = upload[i].id
    OBVIOUS
  <2>5. \A i \in 1..MaxUpload : upload[i].id # 0
    BY <1>2, <2>1
  <2>. HIDE DEF f
  <2>6. Cardinality(1..Count) < Cardinality(1..MaxUpload)
    BY <1>6, <2>3
  <2>7. \E i, j \in 1..MaxUpload : i # j /\ f[i] = f[j]
    BY <2>2, <2>3, <2>6, FS_PigeonHole
  <2>. QED
    BY <1>5, <2>4, <2>5, <2>7
<1>7. ASSUME Count >= MaxUpload, NEW p \in 1..MaxUpload, upload[p].id = 0
      PROVE  FALSE
  <2>. DEFINE used == {i \in 1..MaxUpload : upload[i].id # 0}
              f == [i \in used |-> upload[i].id]
  <2>1. \A k \in First..Count : \E i \in 1..MaxUpload : upload[i].id = k
    BY DEF UploadFollows
  <2>2. \A k \in First..Count : k # 0
    BY <1>2, <1>4
  <2>3. \A i \in used : upload[i].id \in First..Count
    BY <1>3 DEF Empty
  <2>4. f \in Surjection(used, First..Count)
    BY <2>1, <2>2, <2>3 DEF Surjection
  <2>5. First = Count - MaxUpload + 1
    BY <1>2, <1>7, Constants DEF First
  <2>6. /\ IsFiniteSet(1..MaxUpload) /\ Cardinality(1..MaxUpload) = MaxUpload
        /\ Cardinality(First..Count) = MaxUpload
    <3>1. /\ First \in Int /\ Count \in Int /\ ~(First > Count)
          /\ Count - First + 1 = MaxUpload
      BY <1>2, <2>5, Constants
    <3>2. /\ 1 \in Int /\ MaxUpload \in Int /\ ~(1 > MaxUpload)
          /\ MaxUpload - 1 + 1 = MaxUpload
      BY Constants
    <3>3. IsFiniteSet(1..MaxUpload) /\ Cardinality(1..MaxUpload) = MaxUpload
      BY <3>2, FS_Interval
    <3>4. Cardinality(First..Count) = MaxUpload
      BY <3>1, FS_Interval
    <3>. QED
      BY <3>3, <3>4
  <2>7. used \in SUBSET (1..MaxUpload)
    OBVIOUS
  <2>8. /\ IsFiniteSet(used)
        /\ Cardinality(used) <= MaxUpload
        /\ Cardinality(used) = MaxUpload => used = 1..MaxUpload
    BY <2>6, <2>7, FS_Subset
  <2>9. MaxUpload <= Cardinality(used)
    BY <2>4, <2>6, <2>8, FS_Surjection
  <2>10. Cardinality(used) \in Nat
    BY <2>8, FS_CardinalityType
  <2>11. Cardinality(used) = MaxUpload
    BY <2>8, <2>9, <2>10, Constants
  <2>12. used = 1..MaxUpload
    BY <2>8, <2>11
  <2>. QED
    BY <1>7, <2>12
<1>. QED
  BY <1>2, <1>6, <1>7

(* An entry of the table is overwritten that is empty, or that of the      *)
(* first change in it.                                                     *)
LEMMA PlaceIsFirst ==
  ASSUME TypeOK, HistoryOK, UploadFollows
  PROVE  /\ Place(upload) \in 1..MaxUpload
         /\ upload[Place(upload)].id = IF Count < MaxUpload THEN 0 ELSE First
<1>. DEFINE p == Place(upload)
<1>1. upload \in [1..MaxUpload -> UploadEntry]
  BY DEF TypeOK, UploadEntry
<1>2. p \in 1..MaxUpload /\ \A j \in 1..MaxUpload : upload[p].id <= upload[j].id
  BY <1>1, PlaceIsLeast
<1>3. \A j \in 1..MaxUpload : upload[j].id \in Nat
  BY <1>1, Constants DEF UploadEntry
<1>. HIDE DEF p
<1>4. CASE Count < MaxUpload
  <2>1. PICK i \in 1..MaxUpload : upload[i] = Empty
    BY <1>4, Places
  <2>2. upload[i].id = 0
    BY <2>1 DEF Empty
  <2>3. upload[p].id <= 0 /\ upload[p].id \in Nat
    BY <1>2, <1>3, <2>2
  <2>4. upload[p].id = 0
    BY <2>3
  <2>. QED
    BY <1>2, <1>4, <2>4 DEF p
<1>5. CASE Count >= MaxUpload
  <2>1. Count \in Nat
    BY Places
  <2>2. First \in Nat /\ First \in First..Count /\ ~(Count < MaxUpload)
    BY <1>5, <2>1, Constants DEF First
  <2>3. PICK i \in 1..MaxUpload : upload[i].id = First
    BY <2>2 DEF UploadFollows
  <2>4. upload[p].id # 0
    BY <1>2, <1>5, Places
  <2>5. upload[p].id \in First..Count
    BY <1>2, <2>4 DEF UploadFollows, Empty
  <2>6. upload[p].id <= First
    BY <1>2, <2>3
  <2>7. upload[p].id = First
    BY <2>1, <2>2, <2>5, <2>6
  <2>. QED
    BY <1>2, <2>2, <2>7 DEF p
<1>. QED
  BY <1>4, <1>5, Places, Constants

LEMMA EmptyTableFollows ==
  ASSUME upload' = NoTables.upload, log'.changes = <<>>, last'.upload = 0
  PROVE  UploadFollows'
<1>1. Count' = 0 /\ (First..Count)' = {}
  BY Constants DEF Count, First
<1>2. \A i \in 1..MaxUpload : upload'[i] = Empty /\ upload'[i].id = 0
  BY DEF Empty, NoTables
<1>. QED
  BY <1>1, <1>2, Constants DEF UploadFollows

LEMMA EnterFollows ==
  ASSUME TypeOK, HistoryOK, UploadFollows, NEW a \in Alarms, NEW on \in BOOLEAN,
         NEW c, Enter(a, on, c)
  PROVE  UploadFollows'
<1>. DEFINE p == Place(upload)
            e == [id |-> last.upload + 1, alarm |-> a, on |-> on]
<1>1. /\ upload \in [1..MaxUpload -> UploadEntry]
      /\ last.upload = Count /\ Count \in Nat /\ Count < MaxId
  BY Places DEF TypeOK, UploadEntry, UploadFollows
<1>2. CASE last.upload + 1 >= MaxId
  <2>1. upload' = NoTables.upload /\ log'.changes = <<>> /\ last'.upload = NextId(last.upload)
    BY <1>2 DEF Enter
  <2>2. NextId(last.upload) = 0
    BY <1>2 DEF NextId
  <2>. QED
    BY <2>1, <2>2, EmptyTableFollows
<1>3. CASE ~(last.upload + 1 >= MaxId)
  <2>1. /\ upload' = [upload EXCEPT ![p] = e]
        /\ log'.changes = Append(log.changes, <<a, on>>)
        /\ last'.upload = NextId(last.upload)
    BY <1>3 DEF Enter, UploadWith
  <2>2. log.changes \in Seq(Alarms \X BOOLEAN) /\ <<a, on>> \in Alarms \X BOOLEAN
    BY DEF HistoryOK
  <2>3. Count' = Count + 1
    <3>1. Len(Append(log.changes, <<a, on>>)) = Len(log.changes) + 1
      BY <2>2, AppendProperties
    <3>. QED
      BY <2>1, <3>1 DEF Count
  <2>4. last'.upload = Count' /\ Count' < MaxId
    BY <1>1, <1>3, <2>1, <2>3, Constants DEF NextId
  <2>5. /\ \A k \in 1..Count : log'.changes[k] = log.changes[k]
        /\ log'.changes[Count + 1] = <<a, on>>
    BY <2>1, <2>2, AppendProperties DEF Count
  <2>6. p \in 1..MaxUpload /\ upload[p].id = IF Count < MaxUpload THEN 0 ELSE First
    BY PlaceIsFirst
  <2>7. /\ First \in Nat \ {0} /\ First' \in Nat \ {0}
        /\ Count < MaxUpload => First = 1 /\ First' = 1
        /\ Count >= MaxUpload => First' = First + 1
        /\ First' <= Count + 1
    <3>1. First' = IF Count' < MaxUpload THEN 1 ELSE Count' - MaxUpload + 1
      BY DEF First
    <3>. QED
      BY <1>1, <2>3, <3>1, Constants DEF First
  <2>8. \A k : /\ k \in (First..Count)' => k = Count + 1 \/ (k \in First..Count /\ k # upload[p].id)
               /\ k \in First..Count /\ k # upload[p].id => k \in (First..Count)'
               /\ Count + 1 \in (First..Count)'
               /\ k \in First..Count => k \in 1..Count
    BY <1>1, <2>3, <2>6, <2>7, Constants
  <2>9. /\ upload'[p] = e /\ e.id = Count + 1
        /\ \A i \in 1..MaxUpload : i # p => upload'[i] = upload[i]
    BY <1>1, <2>1, <2>6
  <2>. DEFINE Changed(k) == [id |-> k, alarm |-> log'.changes[k][1], on |-> log'.changes[k][2]]
  <2>10. e = Changed(Count + 1)
    BY <1>1, <2>5
  <2>11. \A k \in First..Count : Changed(k) = Entry(k)
    BY <2>5, <2>8 DEF Entry
  <2>. HIDE DEF p, e, Changed
  <2>12. ASSUME NEW i \in 1..MaxUpload
         PROVE  \/ upload'[i] = Empty
                \/ upload'[i].id \in (First..Count)' /\ upload'[i] = Changed(upload'[i].id)
    <3>1. CASE i = p
      BY <2>8, <2>9, <2>10, <3>1
    <3>2. CASE i # p /\ upload[i] = Empty
      BY <2>9, <3>2
    <3>3. CASE i # p /\ upload[i].id \in First..Count /\ upload[i] = Entry(upload[i].id)
      <4>1. upload[i].id # 0
        BY <2>7, <3>3, <1>1
      <4>2. upload[i].id # upload[p].id
        BY <2>6, <3>3, <4>1 DEF UploadFollows
      <4>3. upload[i].id \in (First..Count)'
        BY <2>8, <3>3, <4>2
      <4>. QED
        BY <2>9, <2>11, <3>3, <4>3
    <3>. QED
      BY <3>1, <3>2, <3>3 DEF UploadFollows
  <2>13. \A i \in 1..MaxUpload : upload[i].id # Count + 1
    <3>. SUFFICES ASSUME NEW i \in 1..MaxUpload, upload[i].id = Count + 1 PROVE FALSE
      OBVIOUS
    <3>1. upload[i] = Empty \/ upload[i].id \in First..Count
      BY DEF UploadFollows
    <3>2. upload[i].id # 0
      BY <1>1
    <3>3. upload[i].id \in 1..Count
      BY <2>8, <3>1, <3>2 DEF Empty
    <3>. QED
      BY <1>1, <3>3
  <2>14. ASSUME NEW i \in 1..MaxUpload, NEW j \in 1..MaxUpload,
                upload'[i].id = upload'[j].id, upload'[i].id # 0
         PROVE  i = j
    BY <2>9, <2>13, <2>14 DEF UploadFollows
  <2>15. ASSUME NEW k \in (First..Count)'
         PROVE  \E i \in 1..MaxUpload : upload'[i].id = k
    <3>1. CASE k = Count + 1
      BY <2>6, <2>9, <3>1
    <3>2. CASE k \in First..Count /\ k # upload[p].id
      <4>1. PICK i \in 1..MaxUpload : upload[i].id = k
        BY <3>2 DEF UploadFollows
      <4>. QED
        BY <2>9, <3>2, <4>1
    <3>. QED
      BY <2>8, <3>1, <3>2
  <2>16. \A k : Changed(k) = [id |-> k, alarm |-> log'.changes[k][1], on |-> log'.changes[k][2]]
    BY DEF Changed
  <2>17. \A i \in 1..MaxUpload :
           \/ upload'[i] = Empty
           \/ upload'[i].id \in (First..Count)' /\ upload'[i] = Entry(upload[i].id)'
    BY <2>12, <2>16 DEF Entry
  <2>. QED
    BY <2>4, <2>14, <2>15, <2>17 DEF UploadFollows
<1>. QED
  BY <1>2, <1>3

LEMMA UploadStep ==
  ASSUME TypeOK, HistoryOK, UploadFollows, [Next]_vars
  PROVE  UploadFollows'
<1>1. CASE Raise
  <2>1. at \in Alarms /\ Enter(at, TRUE, CurWith(at))
    BY <1>1 DEF Raise, TypeOK
  <2>. QED
    BY <2>1, EnterFollows
<1>2. CASE Clear
  <2>1. at \in Alarms /\ Enter(at, FALSE, CurWithout(at))
    BY <1>2 DEF Clear, TypeOK
  <2>. QED
    BY <2>1, EnterFollows
<1>3. CASE Start
  <2>1. /\ upload' = NoTables.upload /\ last' = [cur |-> 0, upload |-> 0]
        /\ log' = [log EXCEPT !.changes = <<>>, !.full = FALSE]
    BY <1>3 DEF Start
  <2>2. last'.upload = 0 /\ log'.changes = <<>>
    BY <2>1 DEF HistoryOK
  <2>. QED
    BY <2>1, <2>2, EmptyTableFollows
<1>4. CASE UNCHANGED <<upload, last, log>>
  <2>1. Count' = Count /\ First' = First /\ last'.upload = last.upload
    BY <1>4 DEF Count, First
  <2>2. UploadFollows' <=> UploadFollows
    BY <1>4, <2>1 DEF UploadFollows, Entry
  <2>. QED
    BY <2>2
<1>5. NoTime \/ Same \/ Compared \/ Wait \/ Collect \/ WriteInfo \/ Stop \/ Change
        \/ UNCHANGED vars
        => UNCHANGED <<upload, last, log>>
  BY DEF NoTime, Same, Compared, Wait, Collect, WriteInfo, Stop, Change, vars
<1>. QED
  BY <1>1, <1>2, <1>3, <1>4, <1>5 DEF Next, Daemon

-----------------------------------------------------------------------------
(* The table of ended alarms.                                              *)

LEMMA KeptIsEnd ==
  ASSUME TypeOK
  PROVE  \E d \in 0..Len(ended) :
           /\ Len(Kept(ended)) = Len(ended) - d
           /\ \A i \in 1..Len(Kept(ended)) : Kept(ended)[i] = ended[d + i]
<1>1. ended \in Seq(Alarms) /\ Len(ended) \in Nat /\ Len(ended) <= MaxAlm
  BY DEF TypeOK
<1>2. CASE Len(ended) < MaxAlm
  <2>1. Kept(ended) = ended
    BY <1>2 DEF Kept
  <2>2. /\ 0 \in 0..Len(ended) /\ Len(ended) = Len(ended) - 0
        /\ \A i \in 1..Len(ended) : 0 + i = i
    BY <1>1
  <2>. QED
    BY <2>1, <2>2
<1>3. CASE Len(ended) = MaxAlm
  <2>. DEFINE d == (Len(ended) + 1) \div 2
  <2>1. d \in 1..Len(ended)
    BY <1>1, <1>3, Constants
  <2>2. Kept(ended) = SubSeq(ended, d + 1, Len(ended))
    BY <1>1, <1>3, Constants DEF Kept
  <2>. HIDE DEF d
  <2>3. /\ d + 1 \in Int /\ Len(ended) \in Int /\ Len(ended) - (d + 1) + 1 = Len(ended) - d
        /\ (IF d + 1 <= Len(ended) THEN Len(ended) - (d + 1) + 1 ELSE 0) = Len(ended) - d
        /\ \A i \in (d + 1)..Len(ended) : i \in 1..Len(ended)
        /\ \A i \in 1..(Len(ended) - d) : d + 1 + i - 1 = d + i
    BY <1>1, <2>1
  <2>4. \A i \in (d + 1)..Len(ended) : ended[i] \in Alarms
    BY <1>1, <2>3, ElementOfSeq
  <2>5. /\ Len(SubSeq(ended, d + 1, Len(ended))) = Len(ended) - d
        /\ \A i \in 1..(Len(ended) - (d + 1) + 1) :
             SubSeq(ended, d + 1, Len(ended))[i] = ended[d + 1 + i - 1]
    BY <2>3, <2>4, SubSeqProperties
  <2>6. \A i \in 1..(Len(ended) - d) : SubSeq(ended, d + 1, Len(ended))[i] = ended[d + i]
    BY <2>3, <2>5
  <2>7. d \in 0..Len(ended)
    BY <1>1, <2>1
  <2>. QED
    BY <2>2, <2>5, <2>6, <2>7
<1>. QED
  BY <1>1, <1>2, <1>3, Constants

LEMMA EndedStep ==
  ASSUME TypeOK, HistoryOK, EndedFollows, [Next]_vars
  PROVE  EndedFollows'
<1>. SUFFICES ASSUME bounds'.faults = 0
              PROVE  /\ Len(ended') <= Len(log'.ended)
                     /\ \A i \in 1..Len(ended') :
                          ended'[i] = log'.ended[Len(log'.ended) - Len(ended') + i]
                     /\ log'.ended # <<>> => ended' # <<>>
  BY DEF EndedFollows
<1>0. /\ ended \in Seq(Alarms) /\ log.ended \in Seq(Alarms)
      /\ bounds.faults \in Nat
  BY DEF TypeOK, HistoryOK
<1>1. ~Fail
  <2>1. Fail => bounds'.faults = bounds.faults + 1
    BY DEF Fail, HistoryOK
  <2>. QED
    BY <1>0, <2>1
<1>2. CASE Clear
  <2>1. /\ at \in Alarms
        /\ ended' = Append(Kept(ended), at)
        /\ log'.ended = Append(log.ended, at)
        /\ bounds' = bounds
    BY <1>1, <1>2 DEF Clear, Proceed, Enter, TypeOK
  <2>2. /\ Len(ended) <= Len(log.ended)
        /\ \A i \in 1..Len(ended) : ended[i] = log.ended[Len(log.ended) - Len(ended) + i]
    BY <2>1 DEF EndedFollows
  <2>3. PICK d \in 0..Len(ended) :
          /\ Len(Kept(ended)) = Len(ended) - d
          /\ \A i \in 1..Len(Kept(ended)) : Kept(ended)[i] = ended[d + i]
    BY KeptIsEnd
  <2>. DEFINE k == Len(Kept(ended))
              n == Len(log.ended)
              m == Len(ended)
  <2>4. /\ Kept(ended) \in Seq(Alarms)
        /\ k \in Nat /\ n \in Nat /\ m \in Nat /\ m <= n /\ k = m - d
    BY <1>0, <2>1, <2>2, <2>3, KeptTypes
  <2>5. /\ Len(ended') = k + 1
        /\ ended'[k + 1] = at
        /\ \A i \in 1..k : ended'[i] = Kept(ended)[i]
        /\ ended' # <<>>
    BY <2>1, <2>4, AppendProperties
  <2>6. /\ Len(log'.ended) = n + 1
        /\ log'.ended[n + 1] = at
        /\ \A i \in 1..n : log'.ended[i] = log.ended[i]
    BY <1>0, <2>1, AppendProperties
  <2>7. \A i \in 1..k : Kept(ended)[i] = log.ended[n - m + (d + i)]
    <3>1. \A i \in 1..k : d + i \in 1..m
      BY <2>4
    <3>. QED
      BY <2>2, <2>3, <3>1
  <2>. HIDE DEF k, n, m
  <2>8. Len(ended') <= Len(log'.ended)
    BY <2>4, <2>5, <2>6
  <2>9. ASSUME NEW i \in 1..Len(ended')
        PROVE  ended'[i] = log'.ended[Len(log'.ended) - Len(ended') + i]
    <3>1. Len(log'.ended) - Len(ended') + i = n - m + (d + i) /\ i \in 1..(k + 1)
      BY <2>4, <2>5, <2>6
    <3>2. CASE i = k + 1
      <4>1. n - m + (d + i) = n + 1
        BY <2>4, <3>2
      <4>. QED
        BY <2>5, <2>6, <3>1, <3>2, <4>1
    <3>3. CASE i \in 1..k
      <4>1. n - m + (d + i) \in 1..n
        BY <2>4, <3>3
      <4>. QED
        BY <2>5, <2>6, <2>7, <3>1, <3>3, <4>1
    <3>4. i = k + 1 \/ i \in 1..k
      BY <2>4, <3>1
    <3>. QED
      BY <3>2, <3>3, <3>4
  <2>. QED
    BY <2>5, <2>8, <2>9
<1>3. CASE bounds'.faults = bounds.faults /\ ended' = ended /\ log'.ended = log.ended
  BY <1>3 DEF EndedFollows
<1>4. CASE Raise
  <2>1. ended' = ended /\ log'.ended = log.ended /\ bounds' = bounds
    BY <1>1, <1>4 DEF Raise, Enter, Proceed
  <2>. QED
    BY <1>3, <2>1
<1>5. CASE NoTime
  BY <1>1, <1>5 DEF NoTime
<1>6. CASE Start
  <2>1. /\ ended' = ended
        /\ log' = [log EXCEPT !.changes = <<>>, !.full = FALSE]
        /\ bounds' = [bounds EXCEPT !.starts = @ + 1, !.ignored = FALSE]
    BY <1>6 DEF Start
  <2>2. log'.ended = log.ended /\ bounds'.faults = bounds.faults
    BY <2>1 DEF HistoryOK
  <2>. QED
    BY <1>3, <2>1, <2>2
<1>7. CASE Change
  <2>1. ended' = ended /\ log' = log /\ bounds' = [bounds EXCEPT !.changes = @ + 1]
    BY <1>7 DEF Change
  <2>2. bounds'.faults = bounds.faults
    BY <2>1 DEF HistoryOK
  <2>. QED
    BY <1>3, <2>1, <2>2
<1>8. Same \/ Compared \/ Wait \/ Collect \/ WriteInfo \/ Stop \/ UNCHANGED vars
        => ended' = ended /\ log' = log /\ bounds' = bounds
  BY DEF Same, Compared, Wait, Collect, WriteInfo, Stop, vars
<1>. QED
  BY <1>2, <1>3, <1>4, <1>5, <1>6, <1>7, <1>8 DEF Next, Daemon
-----------------------------------------------------------------------------
LEMMA InvHolds == Spec => []IInv
<1>1. IInv /\ [Next]_vars => IInv'
  BY NextTypes, CurrentStep, UploadStep, EndedStep DEF IInv
<1>. QED
  BY <1>1, InitInv, PTL DEF Spec

(* Every id stays within its counter, every table within its size.         *)
THEOREM TypeCorrect == Spec => []TypeOK
<1>1. IInv => TypeOK
  BY DEF IInv
<1>. QED
  BY <1>1, InvHolds, PTL

(* Between two comparisons the table of current alarms holds each alarm    *)
(* that is on exactly once and no other, and only a full table misses      *)
(* some, unless since its start the daemon has ignored an error of the     *)
(* database in the loop that waits for the FPGA (CompareAlarm, ProcAlarm). *)
THEOREM ListIsCurrentHolds == Spec => []ListIsCurrent
<1>1. IInv => ListIsCurrent
  <2>. SUFFICES ASSUME IInv, pc \in {"top", "write"}, ~bounds.ignored
                PROVE  /\ Cardinality({i \in DOMAIN cur : cur[i].id # 0})
                            = Cardinality(Listed(cur))
                       /\ Listed(cur) \subseteq old
                       /\ ~log.full => Listed(cur) = old
    BY DEF ListIsCurrent
  <2>. DEFINE used == {i \in DOMAIN cur : cur[i].id # 0}
              f == [i \in used |-> cur[i].alarm]
  <2>1. Awaited = old
    BY DEF Awaited
  <2>2. /\ EachOnce
        /\ Listed(cur) \subseteq old
        /\ ~log.full => old \subseteq Listed(cur)
    BY <2>1 DEF IInv, CurrentFollows
  <2>3. DOMAIN cur = 1..MaxCur
    BY DEF IInv, TypeOK
  <2>4. IsFiniteSet(used)
    <3>1. used \in SUBSET (1..MaxCur)
      BY <2>3
    <3>2. IsFiniteSet(1..MaxCur)
      BY FS_Interval, Constants
    <3>. QED
      BY <3>1, <3>2, FS_Subset
  <2>5. f \in Bijection(used, Listed(cur))
    <3>1. f \in [used -> Listed(cur)]
      BY DEF Listed
    <3>2. \A i, j \in used : f[i] = f[j] => i = j
      BY <2>2, <2>3 DEF EachOnce
    <3>3. \A x \in Listed(cur) : \E i \in used : f[i] = x
      BY DEF Listed
    <3>. HIDE DEF f, used
    <3>. QED
      BY <3>1, <3>2, <3>3, Fun_IsBij
  <2>6. Cardinality(used) = Cardinality(Listed(cur))
    BY <2>4, <2>5, FS_Bijection DEF ExistsBijection
  <2>. QED
    BY <2>2, <2>6
<1>. QED
  BY <1>1, InvHolds, PTL

(* The upload table holds the last changes and no other, numbered in the   *)
(* order in which they were found, also behind a wrap of the ids; the      *)
(* table of ended alarms is the end of what has ended, unless a write to   *)
(* the database failed.                                                    *)
THEOREM LogsHoldLatestHolds == Spec => []LogsHoldLatest
<1>1. IInv => UploadHoldsLatest
  <2>. SUFFICES ASSUME IInv PROVE UploadHoldsLatest
    OBVIOUS
  <2>. DEFINE kept == IF Count < MaxUpload THEN Count ELSE MaxUpload
              places == {upload[i] : i \in DOMAIN upload} \ {Empty}
              entries == {Entry(i) : i \in (Count - kept + 1)..Count}
  <2>1. UploadFollows /\ Count \in Nat
    BY Places DEF IInv
  <2>2. DOMAIN upload = 1..MaxUpload
    BY DEF IInv, TypeOK
  <2>3. Count - kept + 1 = First
    BY <2>1, Constants DEF First
  <2>4. First \in Nat \ {0}
    BY <2>1, Constants DEF First
  <2>. HIDE DEF kept
  <2>5. ASSUME NEW x \in places PROVE x \in entries
    <3>1. PICK i \in 1..MaxUpload : x = upload[i] /\ upload[i] # Empty
      BY <2>2
    <3>2. upload[i].id \in First..Count /\ upload[i] = Entry(upload[i].id)
      BY <2>1, <3>1 DEF UploadFollows
    <3>. QED
      BY <2>3, <3>1, <3>2
  <2>6. ASSUME NEW x \in entries PROVE x \in places
    <3>1. PICK k \in First..Count : x = Entry(k)
      BY <2>3
    <3>2. PICK i \in 1..MaxUpload : upload[i].id = k
      BY <2>1 DEF UploadFollows
    <3>3. k # 0
      BY <2>1, <2>4
    <3>4. upload[i] # Empty
      BY <3>2, <3>3 DEF Empty
    <3>5. upload[i] = Entry(k)
      BY <2>1, <3>2, <3>4 DEF UploadFollows
    <3>. QED
      BY <2>2, <3>1, <3>4, <3>5
  <2>7. places = entries
    BY <2>5, <2>6
  <2>. QED
    BY <2>7 DEF kept, UploadHoldsLatest, Count, Entry
<1>2. IInv => EndedIsLatest
  <2>. SUFFICES ASSUME IInv, bounds.faults = 0
                PROVE  /\ Len(ended) <= Len(log.ended)
                       /\ ended = SubSeq(log.ended, Len(log.ended) - Len(ended) + 1,
                                         Len(log.ended))
                       /\ log.ended # <<>> => ended # <<>>
    BY DEF EndedIsLatest
  <2>. DEFINE n == Len(log.ended)
              m == Len(ended)
              s == SubSeq(log.ended, n - m + 1, n)
  <2>1. ended \in Seq(Alarms) /\ log.ended \in Seq(Alarms) /\ n \in Nat /\ m \in Nat
    BY DEF IInv, TypeOK, HistoryOK
  <2>2. /\ m <= n
        /\ \A i \in 1..m : ended[i] = log.ended[n - m + i]
        /\ log.ended # <<>> => ended # <<>>
    BY DEF IInv, EndedFollows
  <2>3. /\ n - m + 1 \in Int /\ n \in Int
        /\ n - (n - m + 1) + 1 = m
        /\ (IF n - m + 1 <= n THEN n - (n - m + 1) + 1 ELSE 0) = m
        /\ \A i \in (n - m + 1)..n : i \in 1..n
        /\ \A i \in 1..m : n - m + 1 + i - 1 = n - m + i
    BY <2>1, <2>2
  <2>4. \A i \in (n - m + 1)..n : log.ended[i] \in Alarms
    BY <2>1, <2>3, ElementOfSeq
  <2>5. /\ s \in Seq(Alarms) /\ Len(s) = m
        /\ \A i \in 1..m : s[i] = log.ended[n - m + i]
    BY <2>3, <2>4, SubSeqProperties
  <2>6. ended = s
    BY <2>1, <2>2, <2>5, SeqEqual, ZenonT(60)
  <2>. QED
    BY <2>2, <2>6
<1>. QED
  BY <1>1, <1>2, InvHolds, PTL DEF LogsHoldLatest
===============================================================================
