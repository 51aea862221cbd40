---------------------------- MODULE SerialLinkProofs ----------------------------
(***************************************************************************)
(* Proofs about SerialLink for every number of attempts, frames and faults *)
(* of the line.                                                            *)
(***************************************************************************)
EXTENDS SerialLink, SequenceTheorems, FunctionTheorems, FiniteSetTheorems, TLAPS

USE LinkAssumption DEF LinkAssumption

(* How often x is in s.                                                    *)
Count(s, x) == Cardinality({i \in 1..Len(s) : s[i] = x})

(* An attempt is made for a frame that has been called for.                *)
Called == pc # "idle" => frame \in Frames

(* The frames that were received and those on the way are in the order of  *)
(* the calls, and none is of a call to come.                               *)
InOrder ==
  /\ \A i, j \in 1..Len(got) : i < j => got[i] <= got[j]
  /\ \A i, j \in 1..Len(line) : i < j => line[i] <= line[j] \/ line[j] = Damaged
  /\ \A i \in 1..Len(got), j \in 1..Len(line) : got[i] <= line[j] \/ line[j] = Damaged
  /\ \A i \in 1..Len(got) : got[i] <= frame
  /\ \A i \in 1..Len(line) : line[i] <= frame

(* How often a frame has been written at most.                             *)
Written(f) ==
  IF f > frame THEN 0
  ELSE IF f < frame \/ pc = "idle" THEN MaxErr
  ELSE IF pc = "wait" THEN err + 1
  ELSE err

FewCopies == \A f \in Frames : Copies(f) + Count(line, f) <= Written(f)

(* As long as no answer is late there is nothing on the line between two   *)
(* attempts, and one frame or its answer during one.                       *)
OneAtATime ==
  ~late =>
    /\ pc # "wait" => Len(line) = 0 /\ Len(answers) = 0
    /\ pc = "wait" => Len(line) + Len(answers) <= 1
    /\ \A i \in 1..Len(line) : line[i] \in {frame, Damaged}
    /\ \A i \in 1..Len(answers) : answers[i] = "ack" => frame \in Received

(* Each success and each acknowledgement on its way has a frame of its own *)
(* at the board.                                                           *)
Sent == {f \in Frames : result[f] = "sent"}
Backed == Cardinality(Sent) + Count(answers, "ack") <= Len(got)

(* The inductive invariant.                                                *)
IInv ==
  /\ TypeOK /\ Called
  /\ InOrder
  /\ FewCopies
  /\ OneAtATime
  /\ OkWhenTimely
  /\ Backed
-----------------------------------------------------------------------------
(* Counting in sequences.                                                  *)

LEMMA CountType ==
  ASSUME NEW S, NEW s \in Seq(S), NEW x
  PROVE  /\ Count(s, x) \in Nat
         /\ IsFiniteSet({i \in 1..Len(s) : s[i] = x})
<1>1. IsFiniteSet(1..Len(s))
  BY LenProperties, FS_Interval
<1>2. {i \in 1..Len(s) : s[i] = x} \in SUBSET (1..Len(s))
  OBVIOUS
<1>3. QED
  BY <1>1, <1>2, FS_Subset, FS_CardinalityType DEF Count

(* What is in no place is there no time.                                   *)
LEMMA CountNone ==
  ASSUME NEW s, NEW x, \A i \in 1..Len(s) : s[i] # x
  PROVE  Count(s, x) = 0
<1>1. {i \in 1..Len(s) : s[i] = x} = {}
  OBVIOUS
<1>2. QED
  BY <1>1, FS_EmptySet DEF Count

LEMMA CountAppend ==
  ASSUME NEW S, NEW s \in Seq(S), NEW e \in S, NEW x
  PROVE  Count(Append(s, e), x) = Count(s, x) + IF e = x THEN 1 ELSE 0
<1> DEFINE a == Append(s, e)
           A == {i \in 1..Len(a) : a[i] = x}
           B == {i \in 1..Len(s) : s[i] = x}
           n == Len(s) + 1
<1>1. /\ Len(s) \in Nat /\ Len(a) = Len(s) + 1
      /\ \A i \in 1..Len(s) : a[i] = s[i]
      /\ a[Len(s) + 1] = e
  <2>1. Len(s) \in Nat
    BY LenProperties
  <2>2. QED
    BY <2>1, AppendProperties
<1>2. IsFiniteSet(B) /\ Cardinality(B) \in Nat /\ n \notin B
  <2>1. IsFiniteSet(B)
    BY CountType
  <2>2. Cardinality(B) \in Nat
    BY <2>1, FS_CardinalityType
  <2>3. QED
    BY <1>1, <2>1, <2>2
<1>3. Count(a, x) = Cardinality(A) /\ Count(s, x) = Cardinality(B)
  BY DEF Count
<1> HIDE DEF a
<1>4. CASE e = x
  <2>1. \A i \in 1..Len(a) : i \in 1..Len(s) \/ i = n
    BY <1>1
  <2>2. n \in 1..Len(a) /\ \A i \in 1..Len(s) : i \in 1..Len(a)
    BY <1>1
  <2>3. A = B \cup {n}
    BY <1>1, <1>4, <2>1, <2>2
  <2>4. Cardinality(B \cup {n}) = Cardinality(B) + 1
    BY <1>2, FS_AddElement
  <2> HIDE DEF A, B, n
  <2>5. QED
    BY <1>3, <1>4, <2>3, <2>4 DEF a
<1>5. CASE e # x
  <2>1. A = B
    BY <1>1, <1>5
  <2> HIDE DEF A, B, n
  <2>2. QED
    BY <1>2, <1>3, <1>5, <2>1 DEF a
<1>6. QED
  BY <1>4, <1>5

(* A sequence that is another one behind a first element.                  *)
LEMMA CountShift ==
  ASSUME NEW S, NEW s \in Seq(S), NEW t \in Seq(S), NEW x,
         Len(s) = Len(t) + 1, \A i \in 1..Len(t) : s[i + 1] = t[i]
  PROVE  Count(s, x) = Count(t, x) + IF s[1] = x THEN 1 ELSE 0
<1> DEFINE A == {i \in 1..Len(s) : s[i] = x}
           B == {i \in 1..Len(t) : t[i] = x}
           f == [i \in B |-> i + 1]
<1>1. Len(t) \in Nat /\ IsFiniteSet(A) /\ IsFiniteSet(B)
  BY CountType, LenProperties
<1>2. f \in [B -> A \ {1}]
  BY <1>1
<1>3. \A i, j \in B : f[i] = f[j] => i = j
  BY <1>1
<1>4. \A k \in A \ {1} : \E i \in B : f[i] = k
  <2> SUFFICES ASSUME NEW k \in A \ {1} PROVE k - 1 \in B /\ f[k - 1] = k
    OBVIOUS
  <2>1. k - 1 \in 1..Len(t) /\ (k - 1) + 1 = k
    BY <1>1
  <2>2. QED
    BY <2>1
<1>5. f \in Bijection(B, A \ {1})
  <2> HIDE DEF f, A, B
  <2>1. QED
    BY <1>2, <1>3, <1>4, Fun_IsBij
<1>6. Cardinality(A \ {1}) = Cardinality(B)
  <2> HIDE DEF f, A, B
  <2>1. QED
    BY <1>1, <1>5, FS_Bijection DEF ExistsBijection
<1>7. Cardinality(A \ {1}) = IF 1 \in A THEN Cardinality(A) - 1 ELSE Cardinality(A)
  BY <1>1, FS_RemoveElement
<1>8. 1 \in A <=> s[1] = x
  BY <1>1
<1>9. Cardinality(A) \in Nat /\ Cardinality(B) \in Nat
  BY <1>1, FS_CardinalityType
<1>10. Count(s, x) = Cardinality(A) /\ Count(t, x) = Cardinality(B)
  BY DEF Count
<1> HIDE DEF A, B
<1>11. QED
  BY <1>6, <1>7, <1>8, <1>9, <1>10

LEMMA CountTail ==
  ASSUME NEW S, NEW s \in Seq(S), s # <<>>, NEW x
  PROVE  Count(s, x) = Count(Tail(s), x) + IF Head(s) = x THEN 1 ELSE 0
<1>1. /\ Tail(s) \in Seq(S) /\ Len(s) = Len(Tail(s)) + 1 /\ Head(s) = s[1]
      /\ \A i \in 1..Len(Tail(s)) : s[i + 1] = Tail(s)[i]
  BY HeadTailProperties, LenProperties
<1>2. QED
  BY <1>1, CountShift, ZenonT(60)

LEMMA FrontProperties ==
  ASSUME NEW S, NEW e \in S, NEW t \in Seq(S)
  PROVE  /\ <<e>> \o t \in Seq(S)
         /\ Len(<<e>> \o t) = Len(t) + 1
         /\ (<<e>> \o t)[1] = e
         /\ \A i \in 1..Len(t) : (<<e>> \o t)[i + 1] = t[i]
<1>1. <<e>> \in Seq(S) /\ Len(<<e>>) = 1 /\ <<e>>[1] = e /\ Len(t) \in Nat
  BY LenProperties
<1>2. /\ <<e>> \o t \in Seq(S) /\ Len(<<e>> \o t) = 1 + Len(t)
      /\ \A i \in 1..(1 + Len(t)) :
           (<<e>> \o t)[i] = IF i <= 1 THEN <<e>>[i] ELSE t[i - 1]
  BY <1>1, ConcatProperties
<1>3. \A i \in 1..Len(t) : i + 1 \in 1..(1 + Len(t)) /\ ~(i + 1 <= 1) /\ (i + 1) - 1 = i
  BY <1>1
<1>4. 1 \in 1..(1 + Len(t))
  BY <1>1
<1>5. QED
  BY <1>1, <1>2, <1>3, <1>4

LEMMA CountFront ==
  ASSUME NEW S, NEW e \in S, NEW t \in Seq(S), NEW x
  PROVE  Count(<<e>> \o t, x) = Count(t, x) + IF e = x THEN 1 ELSE 0
<1> DEFINE s == <<e>> \o t
<1>1. /\ s \in Seq(S) /\ Len(s) = Len(t) + 1 /\ s[1] = e
      /\ \A i \in 1..Len(t) : s[i + 1] = t[i]
  BY FrontProperties
<1> HIDE DEF s
<1>2. Count(s, x) = Count(t, x) + IF s[1] = x THEN 1 ELSE 0
  BY <1>1, CountShift
<1>3. QED
  BY <1>1, <1>2 DEF s
-----------------------------------------------------------------------------
(* The line and the answers.                                               *)

OnLine == Frames \cup {Damaged}

LEMMA FramesAreNumbers ==
  ASSUME TypeOK
  PROVE  /\ Len(line) \in Nat /\ Len(got) \in Nat /\ Len(answers) \in Nat
         /\ \A i \in 1..Len(line) : line[i] \in OnLine /\ line[i] \in Nat
         /\ \A i \in 1..Len(got) : got[i] \in Frames /\ got[i] \in Nat
         /\ \A i \in 1..Len(answers) : answers[i] \in Answers
<1>1. Len(line) \in Nat /\ Len(got) \in Nat /\ Len(answers) \in Nat
  BY LenProperties DEF TypeOK
<1>2. /\ \A i \in 1..Len(line) : line[i] \in OnLine
      /\ \A i \in 1..Len(got) : got[i] \in Frames
      /\ \A i \in 1..Len(answers) : answers[i] \in Answers
  BY ElementOfSeq DEF TypeOK, OnLine
<1>3. OnLine \subseteq Nat /\ Frames \subseteq Nat
  BY DEF OnLine, Frames, Damaged
<1>4. QED
  BY <1>1, <1>2, <1>3

(* What is left of the line when the head has gone or has been damaged.    *)
Shortened(d) ==
  /\ line' \in Seq(OnLine) /\ Len(line') = Len(line) - d
  /\ \A j \in 1..Len(line') :
       j + d \in 1..Len(line) /\ line'[j] \in {line[j + d], Damaged}

LEMMA LineTail ==
  ASSUME TypeOK, line # <<>>, line' = Tail(line)
  PROVE  /\ Shortened(1)
         /\ Head(line) \in OnLine /\ Head(line) = line[1] /\ 1 \in 1..Len(line)
         /\ \A f \in Frames :
              Count(line, f) = Count(line', f) + IF Head(line) = f THEN 1 ELSE 0
         /\ \A f \in Frames : Count(line', f) \in Nat
<1>1. line \in Seq(OnLine) /\ Len(line) \in Nat \ {0}
  BY EmptySeq DEF TypeOK, OnLine
<1>2. /\ line' \in Seq(OnLine) /\ Len(line') = Len(line) - 1
      /\ Head(line) \in OnLine /\ Head(line) = line[1]
      /\ \A j \in 1..Len(line') : line'[j] = line[j + 1]
  BY <1>1, HeadTailProperties
<1>3. \A j \in 1..Len(line') : j + 1 \in 1..Len(line)
  BY <1>1, <1>2
<1>4. Shortened(1)
  BY <1>2, <1>3 DEF Shortened
<1>5. \A f \in Frames :
        Count(line, f) = Count(line', f) + IF Head(line) = f THEN 1 ELSE 0
  BY <1>1, CountTail
<1>6. \A f \in Frames : Count(line', f) \in Nat
  BY <1>2, CountType
<1>7. 1 \in 1..Len(line)
  BY <1>1
<1>8. QED
  BY <1>2, <1>4, <1>5, <1>6, <1>7

LEMMA LineNoise ==
  ASSUME TypeOK, line # <<>>, line' \in {Tail(line), <<Damaged>> \o Tail(line)}
  PROVE  /\ Shortened(0) \/ Shortened(1)
         /\ \A f \in Frames : Count(line', f) \in Nat /\ Count(line', f) <= Count(line, f)
<1>1. line \in Seq(OnLine) /\ Len(line) \in Nat \ {0} /\ Damaged \in OnLine
  BY EmptySeq DEF TypeOK, OnLine
<1>2. \A f \in Frames : Count(line, f) \in Nat /\ f # Damaged
  <2>1. \A f \in Frames : Count(line, f) \in Nat
    BY <1>1, CountType
  <2>2. \A f \in Frames : f # Damaged
    BY DEF Frames, Damaged
  <2>3. QED
    BY <2>1, <2>2
<1>3. CASE line' = Tail(line)
  BY <1>2, <1>3, LineTail
<1>4. CASE line' = <<Damaged>> \o Tail(line)
  <2> DEFINE t == Tail(line)
  <2>1. /\ t \in Seq(OnLine) /\ Len(t) = Len(line) - 1
        /\ \A j \in 1..Len(t) : t[j] = line[j + 1]
    BY <1>1, HeadTailProperties
  <2>2. \A f \in Frames : Count(line, f) = Count(t, f) + IF Head(line) = f THEN 1 ELSE 0
    BY <1>1, CountTail
  <2> HIDE DEF t
  <2>3. line' = <<Damaged>> \o t
    BY <1>4 DEF t
  <2>4. /\ line' \in Seq(OnLine) /\ Len(line') = Len(t) + 1 /\ line'[1] = Damaged
        /\ \A j \in 1..Len(t) : line'[j + 1] = t[j]
    BY <1>1, <2>1, <2>3, FrontProperties
  <2>5. \A f \in Frames : Count(line', f) = Count(t, f) + IF Damaged = f THEN 1 ELSE 0
    BY <1>1, <2>1, <2>3, CountFront
  <2>6. \A f \in Frames : Count(t, f) \in Nat
    BY <2>1, CountType
  <2>7. \A f \in Frames : Count(line', f) \in Nat /\ Count(line', f) <= Count(line, f)
    BY <1>2, <2>2, <2>5, <2>6
  <2>8. ASSUME NEW j \in 1..Len(line')
        PROVE  j + 0 \in 1..Len(line) /\ line'[j] \in {line[j + 0], Damaged}
    <3>1. j + 0 = j /\ j \in 1..Len(line)
      BY <1>1, <2>1, <2>4
    <3>2. CASE j = 1
      BY <2>4, <3>1, <3>2
    <3>3. CASE j # 1
      <4>1. j - 1 \in 1..Len(t) /\ (j - 1) + 1 = j
        BY <1>1, <2>1, <2>4, <3>3
      <4>2. line'[j] = line[j]
        BY <2>1, <2>4, <4>1
      <4>3. QED
        BY <3>1, <4>2
    <3>4. QED
      BY <3>2, <3>3
  <2>9. Len(line') = Len(line) - 0
    BY <1>1, <2>1, <2>4
  <2>10. Shortened(0)
    BY <2>4, <2>8, <2>9 DEF Shortened
  <2>11. QED
    BY <2>7, <2>10
<1>5. QED
  BY <1>3, <1>4

LEMMA LineAppend ==
  ASSUME TypeOK, NEW e \in OnLine, line' = Append(line, e)
  PROVE  /\ line' \in Seq(OnLine) /\ Len(line') = Len(line) + 1
         /\ \A j \in 1..Len(line) : line'[j] = line[j]
         /\ line'[Len(line) + 1] = e
         /\ \A f \in Frames : Count(line', f) = Count(line, f) + IF e = f THEN 1 ELSE 0
         /\ \A f \in Frames : Count(line, f) \in Nat
<1>1. line \in Seq(OnLine)
  BY DEF TypeOK, OnLine
<1>2. \A f \in Frames : Count(line', f) = Count(line, f) + IF e = f THEN 1 ELSE 0
  BY <1>1, CountAppend
<1>3. \A f \in Frames : Count(line, f) \in Nat
  BY <1>1, CountType
<1>4. QED
  BY <1>1, <1>2, <1>3, AppendProperties

(* The board takes a frame.                                                *)
LEMMA GotAppend ==
  ASSUME TypeOK, NEW f \in Frames, got' = Append(got, f)
  PROVE  /\ got' \in Seq(Frames) /\ Len(got') = Len(got) + 1
         /\ \A i \in 1..Len(got) : got'[i] = got[i]
         /\ got'[Len(got) + 1] = f
         /\ \A e \in Frames : Copies(e)' = Copies(e) + IF f = e THEN 1 ELSE 0
         /\ Received \subseteq Received' /\ f \in Received'
<1>1. got \in Seq(Frames) /\ Len(got) \in Nat
  BY LenProperties DEF TypeOK
<1>2. /\ got' \in Seq(Frames) /\ Len(got') = Len(got) + 1
      /\ \A i \in 1..Len(got) : got'[i] = got[i]
      /\ got'[Len(got) + 1] = f
  BY <1>1, AppendProperties
<1>3. \A e \in Frames : Count(got', e) = Count(got, e) + IF f = e THEN 1 ELSE 0
  BY <1>1, CountAppend
<1>4. \A e \in Frames : Copies(e) = Count(got, e) /\ Copies(e)' = Count(got', e)
  BY DEF Copies, Count
<1>5. Len(got) + 1 \in 1..Len(got') /\ \A i \in 1..Len(got) : i \in 1..Len(got')
  BY <1>1, <1>2
<1>6. Received \subseteq Received' /\ f \in Received'
  BY <1>2, <1>5 DEF Received
<1>7. QED
  BY <1>2, <1>3, <1>4, <1>6

(* An answer is taken, given, or spoilt.                                   *)
LEMMA AnswersTail ==
  ASSUME TypeOK, answers # <<>>
  PROVE  /\ Tail(answers) \in Seq(Answers) /\ Len(Tail(answers)) = Len(answers) - 1
         /\ Head(answers) \in Answers /\ Head(answers) = answers[1]
         /\ \A i \in 1..Len(Tail(answers)) :
              i + 1 \in 1..Len(answers) /\ Tail(answers)[i] = answers[i + 1]
         /\ 1 \in 1..Len(answers)
         /\ Count(answers, "ack")
              = Count(Tail(answers), "ack") + IF Head(answers) = "ack" THEN 1 ELSE 0
         /\ Count(Tail(answers), "ack") \in Nat
<1>1. answers \in Seq(Answers) /\ Len(answers) \in Nat \ {0}
  BY EmptySeq DEF TypeOK
<1>2. /\ Tail(answers) \in Seq(Answers) /\ Len(Tail(answers)) = Len(answers) - 1
      /\ Head(answers) \in Answers /\ Head(answers) = answers[1]
      /\ \A i \in 1..Len(Tail(answers)) : Tail(answers)[i] = answers[i + 1]
  BY <1>1, HeadTailProperties
<1>3. \A i \in 1..Len(Tail(answers)) : i + 1 \in 1..Len(answers)
  BY <1>1, <1>2
<1>4. Count(answers, "ack")
        = Count(Tail(answers), "ack") + IF Head(answers) = "ack" THEN 1 ELSE 0
  BY <1>1, CountTail
<1>5. Count(Tail(answers), "ack") \in Nat
  BY <1>2, CountType
<1>6. 1 \in 1..Len(answers)
  BY <1>1
<1>7. QED
  BY <1>2, <1>3, <1>4, <1>5, <1>6

LEMMA AnswersAppend ==
  ASSUME TypeOK, NEW a \in Answers, answers' = Append(answers, a)
  PROVE  /\ answers' \in Seq(Answers) /\ Len(answers') = Len(answers) + 1
         /\ \A i \in 1..Len(answers) : answers'[i] = answers[i]
         /\ answers'[Len(answers) + 1] = a
         /\ Count(answers', "ack") = Count(answers, "ack") + IF a = "ack" THEN 1 ELSE 0
         /\ Count(answers, "ack") \in Nat
<1>1. answers \in Seq(Answers)
  BY DEF TypeOK
<1>2. Count(answers', "ack") = Count(answers, "ack") + IF a = "ack" THEN 1 ELSE 0
  BY <1>1, CountAppend
<1>3. Count(answers, "ack") \in Nat
  BY <1>1, CountType
<1>4. QED
  BY <1>1, <1>2, <1>3, AppendProperties

LEMMA BadInFront ==
  ASSUME NEW t \in Seq(Answers)
  PROVE  /\ <<"bad">> \o t \in Seq(Answers) /\ Len(<<"bad">> \o t) = Len(t) + 1
         /\ Count(<<"bad">> \o t, "ack") = Count(t, "ack")
         /\ \A i \in 1..Len(<<"bad">> \o t) :
              (<<"bad">> \o t)[i] = "ack" => \E k \in 1..Len(t) : t[k] = "ack"
<1> DEFINE s == <<"bad">> \o t
<1>1. "bad" \in Answers /\ Len(t) \in Nat
  BY LenProperties DEF Answers
<1>2. /\ s \in Seq(Answers) /\ Len(s) = Len(t) + 1 /\ s[1] = "bad"
      /\ \A i \in 1..Len(t) : s[i + 1] = t[i]
  BY <1>1, FrontProperties
<1>3. Count(s, "ack") = Count(t, "ack") + IF "bad" = "ack" THEN 1 ELSE 0
  BY <1>1, CountFront
<1>4. Count(t, "ack") \in Nat
  BY CountType
<1> HIDE DEF s
<1>5. ASSUME NEW i \in 1..Len(s), s[i] = "ack" PROVE \E k \in 1..Len(t) : t[k] = "ack"
  <2>1. i # 1
    BY <1>2, <1>5
  <2>2. i - 1 \in 1..Len(t) /\ (i - 1) + 1 = i
    BY <1>1, <1>2, <2>1
  <2>3. t[i - 1] = "ack"
    BY <1>2, <1>5, <2>2
  <2>4. QED
    BY <2>2, <2>3
<1>6. Count(s, "ack") = Count(t, "ack")
  BY <1>3, <1>4
<1>7. QED
  BY <1>2, <1>5, <1>6 DEF s

LEMMA AnswersNoise ==
  ASSUME TypeOK, answers # <<>>,
         answers' \in {Tail(answers), <<"bad">> \o Tail(answers),
                       <<"bad", "bad">> \o Tail(answers)}
  PROVE  /\ answers' \in Seq(Answers)
         /\ Count(answers', "ack") \in Nat
         /\ Count(answers', "ack") <= Count(answers, "ack")
         /\ answers' # <<"bad", "bad">> \o Tail(answers)
              => /\ Len(answers') <= Len(answers)
                 /\ \A i \in 1..Len(answers') :
                      answers'[i] = "ack" => \E k \in 1..Len(answers) : answers[k] = "ack"
<1> DEFINE t == Tail(answers)
           s == <<"bad">> \o t
<1>1. /\ t \in Seq(Answers) /\ Len(t) = Len(answers) - 1
      /\ \A i \in 1..Len(t) : i + 1 \in 1..Len(answers) /\ t[i] = answers[i + 1]
      /\ Count(t, "ack") \in Nat /\ Count(t, "ack") <= Count(answers, "ack")
      /\ Len(answers) \in Nat
  BY AnswersTail, LenProperties DEF TypeOK
<1>2. /\ s \in Seq(Answers) /\ Len(s) = Len(t) + 1
      /\ Count(s, "ack") = Count(t, "ack")
      /\ \A i \in 1..Len(s) : s[i] = "ack" => \E k \in 1..Len(t) : t[k] = "ack"
  BY <1>1, BadInFront
<1>3. <<"bad", "bad">> \o t = <<"bad">> \o s
  <2>1. <<"bad">> \in Seq(Answers) /\ <<"bad">> \o <<"bad">> = <<"bad", "bad">>
    <3>1. "bad" \in Answers /\ <<"bad">> \in Seq(Answers) /\ <<"bad", "bad">> \in Seq(Answers)
      BY DEF Answers
    <3>2. Append(<<"bad">>, "bad") = <<"bad">> \o <<"bad">>
      BY <3>1, AppendIsConcat
    <3>3. Append(<<"bad">>, "bad") = <<"bad", "bad">>
      <4> DEFINE a == Append(<<"bad">>, "bad")
                 b == <<"bad", "bad">>
      <4>1. Len(<<"bad">>) = 1 /\ <<"bad">>[1] = "bad"
        OBVIOUS
      <4>2. a \in Seq(Answers) /\ Len(a) = 2 /\ a[1] = "bad" /\ a[2] = "bad"
        BY <3>1, <4>1, AppendProperties
      <4>3. Len(b) = 2 /\ b[1] = "bad" /\ b[2] = "bad"
        OBVIOUS
      <4>4. \A i \in 1..2 : i = 1 \/ i = 2
        OBVIOUS
      <4> HIDE DEF a, b
      <4>5. \A i \in 1..Len(a) : a[i] = b[i]
        BY <4>2, <4>3, <4>4
      <4>6. b \in Seq(Answers)
        BY <3>1 DEF b
      <4>7. a = b
        BY <4>2, <4>3, <4>5, <4>6, SeqEqual
      <4>8. QED
        BY <4>7 DEF a, b
    <3>4. QED
      BY <3>1, <3>2, <3>3
  <2>2. (<<"bad">> \o <<"bad">>) \o t = <<"bad">> \o (<<"bad">> \o t)
    BY <1>1, <2>1, ConcatAssociative
  <2>3. QED
    BY <2>1, <2>2
<1>4. <<"bad">> \o s \in Seq(Answers) /\ Count(<<"bad">> \o s, "ack") = Count(s, "ack")
  BY <1>2, BadInFront
<1>5. \/ answers' = t \/ answers' = s
      \/ answers' = <<"bad">> \o s /\ answers' = <<"bad", "bad">> \o Tail(answers)
  BY <1>3
<1> HIDE DEF t, s
<1>6. (\E k \in 1..Len(t) : t[k] = "ack") => \E k \in 1..Len(answers) : answers[k] = "ack"
  BY <1>1
<1>7. CASE answers' = t
  BY <1>1, <1>6, <1>7
<1>8. CASE answers' = s
  BY <1>1, <1>2, <1>6, <1>8
<1>9. CASE answers' = <<"bad">> \o s /\ answers' = <<"bad", "bad">> \o Tail(answers)
  BY <1>1, <1>2, <1>4, <1>9
<1>10. QED
  BY <1>5, <1>7, <1>8, <1>9
-----------------------------------------------------------------------------
LEMMA InitIInv == Init => IInv
<1> SUFFICES ASSUME Init PROVE IInv
  OBVIOUS
<1>1. Len(line) = 0 /\ Len(answers) = 0 /\ Len(got) = 0
  BY EmptySeq DEF Init
<1>2. TypeOK
  <2>1. line \in Seq(Frames \cup {Damaged}) /\ answers \in Seq(Answers) /\ got \in Seq(Frames)
    BY EmptySeq DEF Init
  <2>2. frame \in 0..MaxFrames /\ err \in 0..(MaxErr - 1) /\ faults \in 0..MaxFaults
    BY DEF Init
  <2>3. QED
    BY <2>1, <2>2 DEF Init, TypeOK
<1>3. Called /\ InOrder
  BY <1>1 DEF Init, Called, InOrder
<1>4. FewCopies
  <2>1. \A f \in Frames : Count(got, f) = 0 /\ Count(line, f) = 0
    BY <1>1, CountNone
  <2>2. \A f \in Frames : Copies(f) = Count(got, f) /\ Written(f) >= 0
    BY DEF Copies, Count, Written, Init
  <2>3. QED
    BY <2>1, <2>2 DEF FewCopies
<1>5. OneAtATime /\ OkWhenTimely
  BY <1>1 DEF Init, OneAtATime, OkWhenTimely, OkMeansReceived
<1>6. Backed
  <2>1. Sent = {}
    BY DEF Init, Sent
  <2>2. Cardinality(Sent) = 0 /\ Count(answers, "ack") = 0
    BY <1>1, <2>1, CountNone, FS_EmptySet
  <2>3. QED
    BY <1>1, <2>2 DEF Backed
<1>7. QED
  BY <1>2, <1>3, <1>4, <1>5, <1>6 DEF IInv

(* Retry and Return, the two ends of an attempt.                           *)
LEMMA AttemptEnds ==
  ASSUME TypeOK, pc = "wait", frame \in Frames, Retry(err + 1) \/ Return("sent")
  PROVE  /\ err' \in 0..(MaxErr - 1)
         /\ \/ pc' = "write" /\ err' = err + 1 /\ result' = result
            \/ pc' = "idle" /\ result' = [result EXCEPT ![frame] = "failed"]
            \/ pc' = "idle" /\ result' = [result EXCEPT ![frame] = "sent"] /\ Return("sent")
<1>1. CASE Retry(err + 1)
  BY <1>1 DEF Retry, Return, TypeOK
<1>2. CASE Return("sent")
  BY <1>2 DEF Return, TypeOK
<1>3. QED
  BY <1>1, <1>2

LEMMA TypeStep ==
  ASSUME TypeOK, Called, [Next]_vars PROVE TypeOK'
<1> USE DEF TypeOK, Called
<1>1. CASE Call
  <2>1. frame' \in 0..MaxFrames /\ err' \in 0..(MaxErr - 1)
    BY <1>1 DEF Call
  <2>2. QED
    BY <1>1, <2>1 DEF Call
<1>2. CASE Write
  <2>1. frame \in OnLine /\ frame \in Frames
    BY <1>2 DEF Write, OnLine
  <2>2. line' \in Seq(Frames \cup {Damaged})
    BY <1>2, <2>1, LineAppend DEF Write, OnLine
  <2>3. QED
    BY <1>2, <2>2 DEF Write
<1>3. CASE WriteFails
  <2>1. line' \in Seq(Frames \cup {Damaged})
    BY <1>3, LineAppend DEF WriteFails, OnLine
  <2>2. result' \in [Frames -> {"none", "sent", "failed"}] /\ err' = err /\ pc' = "idle"
    BY <1>3 DEF WriteFails, Return
  <2>3. faults' \in 0..MaxFaults
    BY <1>3 DEF WriteFails
  <2>4. QED
    BY <1>3, <2>1, <2>2, <2>3 DEF WriteFails
<1>4. CASE Receive
  <2>1. Retry(err + 1) \/ Return("sent")
    BY <1>4 DEF Receive
  <2>2. /\ err' \in 0..(MaxErr - 1) /\ pc' \in {"idle", "write"}
        /\ result' \in [Frames -> {"none", "sent", "failed"}]
    BY <1>4, <2>1, AttemptEnds DEF Receive
  <2>3. answers' \in Seq(Answers)
    BY <1>4, AnswersTail DEF Receive
  <2>4. QED
    BY <1>4, <2>2, <2>3 DEF Receive
<1>5. CASE Timeout
  <2>1. /\ err' \in 0..(MaxErr - 1) /\ pc' \in {"idle", "write"}
        /\ result' \in [Frames -> {"none", "sent", "failed"}]
    BY <1>5, AttemptEnds DEF Timeout
  <2>2. late' \in BOOLEAN
    BY <1>5 DEF Timeout
  <2>3. QED
    BY <1>5, <2>1, <2>2 DEF Timeout
<1>6. CASE Board
  <2>1. line' \in Seq(Frames \cup {Damaged}) /\ Head(line) \in Frames \cup {Damaged}
    BY <1>6, LineTail DEF Board, Shortened, OnLine
  <2>2. answers' \in Seq(Answers)
    BY <1>6, AnswersAppend DEF Board, Answers
  <2>3. got' \in Seq(Frames)
    BY <1>6, <2>1, GotAppend DEF Board
  <2>4. QED
    BY <1>6, <2>1, <2>2, <2>3 DEF Board
<1>7. CASE Noise
  <2>1. UNCHANGED <<pc, frame, err, result, got>>
    BY <1>7 DEF Noise
  <2>2. faults' \in 0..MaxFaults
    <3>1. faults < MaxFaults /\ faults' = faults + 1
      BY <1>7 DEF Noise
    <3>2. QED
      BY <3>1
  <2>3. late' \in BOOLEAN
    <3>1. UNCHANGED late \/ late' = TRUE
      BY <1>7 DEF Noise
    <3>2. QED
      BY <3>1
  <2>4. CASE answers' = answers
    <3>1. line' \in Seq(Frames \cup {Damaged})
      BY <1>7, <2>4, LineNoise DEF Noise, Shortened, OnLine
    <3>2. QED
      BY <2>1, <2>4, <2>2, <2>3, <3>1
  <2>5. CASE line' = line
    <3>1. answers' \in Seq(Answers)
      BY <1>7, <2>5, AnswersNoise DEF Noise
    <3>2. QED
      BY <2>1, <2>5, <2>2, <2>3, <3>1
  <2>6. QED
    BY <1>7, <2>4, <2>5 DEF Noise
<1>8. CASE UNCHANGED vars
  BY <1>8 DEF vars
<1>9. QED
  BY <1>1, <1>2, <1>3, <1>4, <1>5, <1>6, <1>7, <1>8 DEF Next, Daemon

LEMMA CalledStep ==
  ASSUME TypeOK, Called, [Next]_vars PROVE Called'
<1> USE DEF TypeOK, Called
<1>1. CASE Call
  BY <1>1 DEF Call, Frames
<1>2. CASE Write \/ Board \/ Noise \/ UNCHANGED vars
  BY <1>2 DEF Write, Board, Noise, vars
<1>3. CASE WriteFails
  BY <1>3 DEF WriteFails, Return
<1>4. CASE Receive \/ Timeout
  BY <1>4 DEF Receive, Timeout
<1>5. QED
  BY <1>1, <1>2, <1>3, <1>4 DEF Next, Daemon

(* What the line keeps when it is shortened keeps its order.               *)
LEMMA OrderShortened ==
  ASSUME TypeOK, InOrder, NEW d \in Nat, Shortened(d), UNCHANGED <<got, frame>>
  PROVE  InOrder'
<1>1. /\ Len(line) \in Nat /\ Len(line') \in Nat /\ frame \in Nat
      /\ \A i \in 1..Len(line) : line[i] \in Nat
      /\ \A i \in 1..Len(got) : got[i] \in Nat
  BY FramesAreNumbers, LenProperties DEF TypeOK, Shortened
<1>2. \A j \in 1..Len(line') :
        j + d \in 1..Len(line) /\ line'[j] \in {line[j + d], Damaged}
  BY DEF Shortened
<1>3. ASSUME NEW i \in 1..Len(line'), NEW j \in 1..Len(line'), i < j
      PROVE  line'[i] <= line'[j] \/ line'[j] = Damaged
  <2>1. i + d < j + d
    BY <1>3
  <2>2. line[i + d] <= line[j + d] \/ line[j + d] = Damaged
    BY <1>2, <2>1 DEF InOrder
  <2>3. line[j + d] \in Nat
    BY <1>1, <1>2
  <2>4. line'[i] = line[i + d] \/ line'[i] = 0
    BY <1>2 DEF Damaged
  <2>5. line'[j] = line[j + d] \/ line'[j] = Damaged
    BY <1>2
  <2>6. QED
    BY <2>2, <2>3, <2>4, <2>5
<1>4. ASSUME NEW i \in 1..Len(got), NEW j \in 1..Len(line')
      PROVE  got[i] <= line'[j] \/ line'[j] = Damaged
  <2>1. got[i] <= line[j + d] \/ line[j + d] = Damaged
    BY <1>2 DEF InOrder
  <2>2. line'[j] = line[j + d] \/ line'[j] = Damaged
    BY <1>2
  <2>3. QED
    BY <2>1, <2>2
<1>5. ASSUME NEW j \in 1..Len(line') PROVE line'[j] <= frame
  <2>1. line[j + d] <= frame
    BY <1>2 DEF InOrder
  <2>2. line'[j] = line[j + d] \/ line'[j] = 0
    BY <1>2 DEF Damaged
  <2>3. QED
    BY <1>1, <2>1, <2>2
<1>6. QED
  BY <1>3, <1>4, <1>5 DEF InOrder

(* The present frame, or a damaged one, goes on the line behind the rest.  *)
LEMMA OrderAppend ==
  ASSUME TypeOK, InOrder, NEW e \in OnLine, e \in {frame, Damaged},
         line' = Append(line, e), UNCHANGED <<got, frame>>
  PROVE  InOrder'
<1>1. /\ Len(line) \in Nat /\ frame \in Nat
      /\ \A i \in 1..Len(line) : line[i] <= frame
      /\ \A i \in 1..Len(got) : got[i] <= frame
  BY FramesAreNumbers DEF TypeOK, InOrder
<1>2. /\ Len(line') = Len(line) + 1
      /\ \A j \in 1..Len(line) : line'[j] = line[j]
      /\ line'[Len(line) + 1] = e
  BY LineAppend
<1>3. \A j \in 1..Len(line') : j \in 1..Len(line) \/ j = Len(line) + 1
  BY <1>1, <1>2
<1>4. ASSUME NEW i \in 1..Len(line'), NEW j \in 1..Len(line'), i < j
      PROVE  line'[i] <= line'[j] \/ line'[j] = Damaged
  <2>1. i \in 1..Len(line)
    BY <1>1, <1>2, <1>4
  <2>2. CASE j \in 1..Len(line)
    BY <1>2, <1>4, <2>1, <2>2 DEF InOrder
  <2>3. CASE j = Len(line) + 1
    BY <1>1, <1>2, <2>1, <2>3
  <2>4. QED
    BY <1>3, <2>2, <2>3
<1>5. ASSUME NEW i \in 1..Len(got), NEW j \in 1..Len(line')
      PROVE  got[i] <= line'[j] \/ line'[j] = Damaged
  BY <1>1, <1>2, <1>3 DEF InOrder
<1>6. ASSUME NEW j \in 1..Len(line') PROVE line'[j] <= frame
  BY <1>1, <1>2, <1>3 DEF Damaged
<1>7. QED
  BY <1>4, <1>5, <1>6 DEF InOrder

(* The board gets the first of the line.                                   *)
LEMMA OrderBoard ==
  ASSUME TypeOK, InOrder, line # <<>>, line' = Tail(line), Head(line) # Damaged,
         got' = Append(got, Head(line)), UNCHANGED frame
  PROVE  InOrder'
<1> DEFINE f == Head(line)
<1>1. /\ Len(got) \in Nat /\ Len(line) \in Nat
      /\ \A i \in 1..Len(line) : line[i] \in Nat
      /\ \A i \in 1..Len(got) : got[i] \in Nat
  BY FramesAreNumbers
<1>2. Shortened(1) /\ f = line[1] /\ 1 \in 1..Len(line) /\ f \in Frames
  BY LineTail DEF OnLine
<1> HIDE DEF f
<1>3. /\ Len(got') = Len(got) + 1
      /\ \A i \in 1..Len(got) : got'[i] = got[i]
      /\ got'[Len(got) + 1] = f
  BY <1>2, GotAppend DEF f
<1>4. \A i \in 1..Len(got') : i \in 1..Len(got) \/ i = Len(got) + 1
  BY <1>1, <1>3
<1>5. f \in Nat /\ f # Damaged
  BY <1>1, <1>2 DEF f
<1>6. /\ \A i \in 1..Len(got) : got[i] <= f
      /\ f <= frame
      /\ \A j \in 1..Len(line) : 1 < j => f <= line[j] \/ line[j] = Damaged
  BY <1>2, <1>5 DEF InOrder
<1>7. /\ Len(line') = Len(line) - 1
      /\ \A j \in 1..Len(line') :
           j + 1 \in 1..Len(line) /\ line'[j] \in {line[j + 1], Damaged}
  BY <1>2 DEF Shortened
<1>8. ASSUME NEW i \in 1..Len(got'), NEW j \in 1..Len(got'), i < j PROVE got'[i] <= got'[j]
  <2>1. i \in 1..Len(got)
    BY <1>1, <1>3, <1>8
  <2>2. CASE j \in 1..Len(got)
    BY <1>3, <1>8, <2>1, <2>2 DEF InOrder
  <2>3. CASE j = Len(got) + 1
    BY <1>3, <1>6, <2>1, <2>3
  <2>4. QED
    BY <1>4, <2>2, <2>3
<1>9. ASSUME NEW i \in 1..Len(got'), NEW j \in 1..Len(line')
      PROVE  got'[i] <= line'[j] \/ line'[j] = Damaged
  <2>1. j + 1 \in 1..Len(line) /\ 1 < j + 1 /\ (line'[j] = line[j + 1] \/ line'[j] = Damaged)
    BY <1>1, <1>7
  <2>2. CASE i \in 1..Len(got)
    BY <1>3, <2>1, <2>2 DEF InOrder
  <2>3. CASE i = Len(got) + 1
    BY <1>3, <1>6, <2>1, <2>3
  <2>4. QED
    BY <1>4, <2>2, <2>3
<1>10. \A i \in 1..Len(got') : got'[i] <= frame
  BY <1>3, <1>4, <1>6 DEF InOrder
<1>11. ASSUME NEW i \in 1..Len(line'), NEW j \in 1..Len(line'), i < j
       PROVE  line'[i] <= line'[j] \/ line'[j] = Damaged
  <2>1. /\ i + 1 \in 1..Len(line) /\ line'[i] \in {line[i + 1], 0}
        /\ j + 1 \in 1..Len(line) /\ line'[j] \in {line[j + 1], Damaged}
        /\ i + 1 < j + 1
    BY <1>7, <1>11 DEF Damaged
  <2>2. line[i + 1] <= line[j + 1] \/ line[j + 1] = Damaged
    BY <2>1 DEF InOrder
  <2>3. line[j + 1] \in Nat
    BY <1>1, <2>1
  <2>4. QED
    BY <2>1, <2>2, <2>3
<1>12. ASSUME NEW j \in 1..Len(line') PROVE line'[j] <= frame
  <2>1. line'[j] = line[j + 1] \/ line'[j] = 0
    BY <1>7 DEF Damaged
  <2>2. line[j + 1] <= frame
    BY <1>7 DEF InOrder
  <2>3. frame \in Nat
    BY DEF TypeOK
  <2>4. QED
    BY <2>1, <2>2, <2>3
<1>13. QED
  BY <1>8, <1>9, <1>10, <1>11, <1>12 DEF InOrder

LEMMA InOrderStep ==
  ASSUME TypeOK, Called, InOrder, [Next]_vars PROVE InOrder'
<1>1. CASE Call
  <2>1. frame \in Nat /\ frame' = frame + 1 /\ UNCHANGED <<line, got>>
    BY <1>1 DEF Call, TypeOK
  <2>2. /\ \A i \in 1..Len(line) : line[i] \in Nat
        /\ \A i \in 1..Len(got) : got[i] \in Nat
    BY FramesAreNumbers
  <2>3. /\ \A i \in 1..Len(got) : got[i] <= frame'
        /\ \A i \in 1..Len(line) : line[i] <= frame'
    BY <2>1, <2>2 DEF InOrder
  <2>4. QED
    BY <2>1, <2>3 DEF InOrder
<1>2. CASE Write
  BY <1>2, OrderAppend DEF Write, Called, OnLine
<1>3. CASE WriteFails
  BY <1>3, OrderAppend DEF WriteFails, OnLine
<1>4. CASE Board
  <2>1. CASE Head(line) = Damaged
    BY <1>4, <2>1, LineTail, OrderShortened DEF Board
  <2>2. CASE Head(line) # Damaged
    BY <1>4, <2>2, OrderBoard DEF Board
  <2>3. QED
    BY <2>1, <2>2
<1>5. CASE Noise
  <2>1. UNCHANGED <<got, frame>>
    BY <1>5 DEF Noise
  <2>2. CASE UNCHANGED line
    BY <2>1, <2>2 DEF InOrder
  <2>3. CASE line # <<>> /\ line' \in {Tail(line), <<Damaged>> \o Tail(line)}
    <3>1. Shortened(0) \/ Shortened(1)
      BY <2>3, LineNoise
    <3>2. QED
      BY <2>1, <3>1, OrderShortened
  <2>4. QED
    BY <1>5, <2>2, <2>3 DEF Noise
<1>6. CASE Receive \/ Timeout \/ UNCHANGED vars
  <2>1. UNCHANGED <<line, got, frame>>
    BY <1>6 DEF Receive, Timeout, vars
  <2>2. QED
    BY <2>1 DEF InOrder
<1>7. QED
  BY <1>1, <1>2, <1>3, <1>4, <1>5, <1>6 DEF Next, Daemon
-----------------------------------------------------------------------------
(* How often a frame is written.                                           *)
LEMMA FewStep ==
  ASSUME TypeOK, Called, FewCopies, [Next]_vars PROVE FewCopies'
<1> SUFFICES ASSUME NEW f \in Frames
             PROVE  Copies(f)' + Count(line, f)' <= Written(f)'
  BY DEF FewCopies
<1>1. /\ Copies(f) \in Nat /\ Count(line, f) \in Nat
      /\ Copies(f) + Count(line, f) <= Written(f)
  <2>1. Count(got, f) \in Nat /\ Count(line, f) \in Nat
    BY CountType DEF TypeOK
  <2>2. Copies(f) = Count(got, f)
    BY DEF Copies, Count
  <2>3. QED
    BY <2>1, <2>2 DEF FewCopies
<1>2. frame \in Nat /\ err \in 0..(MaxErr - 1) /\ f \in Nat /\ f # Damaged
  BY DEF TypeOK, Frames, Damaged
<1>3. ASSUME UNCHANGED got PROVE Copies(f)' = Copies(f)
  BY <1>3 DEF Copies
<1>4. ASSUME UNCHANGED line PROVE Count(line, f)' = Count(line, f)
  BY <1>4
<1>5. CASE Call
  <2>1. Copies(f)' = Copies(f) /\ Count(line, f)' = Count(line, f)
    BY <1>3, <1>4, <1>5 DEF Call
  <2>2. Written(f) <= Written(f)' /\ Written(f) \in Nat /\ Written(f)' \in Nat
    <3>1. pc = "idle" /\ frame' = frame + 1 /\ pc' = "write" /\ err' = 0
      BY <1>5 DEF Call
    <3>2. CASE f <= frame
      <4>1. Written(f) = MaxErr
        BY <1>2, <3>1, <3>2 DEF Written
      <4>2. Written(f)' = MaxErr
        BY <1>2, <3>1, <3>2 DEF Written
      <4>3. QED
        BY <4>1, <4>2
    <3>3. CASE f > frame
      <4>1. Written(f) = 0
        BY <1>2, <3>3 DEF Written
      <4>2. Written(f)' = 0
        BY <1>2, <3>1, <3>3 DEF Written
      <4>3. QED
        BY <4>1, <4>2
    <3>4. QED
      BY <1>2, <3>2, <3>3
  <2>3. QED
    BY <1>1, <2>1, <2>2
<1>6. CASE Write
  <2>1. Copies(f)' = Copies(f) /\ frame \in OnLine
    BY <1>3, <1>6 DEF Write, Called, OnLine
  <2>2. Count(line, f)' = Count(line, f) + IF frame = f THEN 1 ELSE 0
    BY <1>6, <2>1, LineAppend DEF Write
  <2>3. Written(f)' = Written(f) + IF frame = f THEN 1 ELSE 0
    BY <1>2, <1>6 DEF Write, Written
  <2>4. Written(f) \in Nat
    BY <1>2 DEF Written
  <2>5. QED
    BY <1>1, <2>1, <2>2, <2>3, <2>4
<1>7. CASE WriteFails
  <2>1. Copies(f)' = Copies(f) /\ Damaged \in OnLine
    BY <1>3, <1>7 DEF WriteFails, OnLine
  <2>2. Count(line, f)' = Count(line, f)
    <3>1. Count(line', f) = Count(line, f) + IF Damaged = f THEN 1 ELSE 0
      BY <1>7, <2>1, LineAppend DEF WriteFails
    <3>2. QED
      BY <1>1, <1>2, <3>1
  <2>3. Written(f) <= Written(f)' /\ Written(f) \in Nat /\ Written(f)' \in Nat
    <3>1. frame' = frame /\ pc' = "idle" /\ pc = "write"
      BY <1>7 DEF WriteFails, Return
    <3>2. QED
      BY <1>2, <3>1 DEF Written
  <2>4. QED
    BY <1>1, <2>1, <2>2, <2>3
<1>8. CASE Receive \/ Timeout
  <2>1. Copies(f)' = Copies(f) /\ Count(line, f)' = Count(line, f)
    BY <1>3, <1>4, <1>8 DEF Receive, Timeout
  <2>2. /\ pc = "wait" /\ frame \in Frames /\ frame' = frame
        /\ Retry(err + 1) \/ Return("sent")
    BY <1>8 DEF Receive, Timeout, Called
  <2>3. (pc' = "write" /\ err' = err + 1) \/ pc' = "idle"
    BY <2>2, AttemptEnds
  <2>4. Written(f) <= Written(f)' /\ Written(f) \in Nat /\ Written(f)' \in Nat
    <3>1. CASE pc' = "write" /\ err' = err + 1
      BY <1>2, <2>2, <3>1 DEF Written
    <3>2. CASE pc' = "idle"
      BY <1>2, <2>2, <3>2 DEF Written
    <3>3. QED
      BY <2>3, <3>1, <3>2
  <2>5. QED
    BY <1>1, <2>1, <2>4
<1>9. CASE Board
  <2>1. Written(f)' = Written(f)
    BY <1>9 DEF Board, Written
  <2>2. /\ Count(line, f) = Count(line, f)' + IF Head(line) = f THEN 1 ELSE 0
        /\ Count(line, f)' \in Nat /\ Head(line) \in OnLine
    BY <1>9, LineTail DEF Board
  <2>3. Copies(f)' = Copies(f) + IF Head(line) = f THEN 1 ELSE 0
    <3>1. CASE Head(line) = Damaged
      BY <1>1, <1>2, <1>3, <1>9, <3>1 DEF Board
    <3>2. CASE Head(line) # Damaged
      BY <1>9, <2>2, <3>2, GotAppend DEF Board, OnLine
    <3>3. QED
      BY <3>1, <3>2
  <2>4. QED
    BY <1>1, <2>1, <2>2, <2>3
<1>10. CASE Noise
  <2>1. Written(f)' = Written(f) /\ Copies(f)' = Copies(f)
    BY <1>3, <1>10 DEF Noise, Written
  <2>2. Count(line, f)' \in Nat /\ Count(line, f)' <= Count(line, f)
    <3>1. CASE UNCHANGED line
      BY <1>1, <1>4, <3>1
    <3>2. CASE line # <<>> /\ line' \in {Tail(line), <<Damaged>> \o Tail(line)}
      BY <3>2, LineNoise
    <3>3. QED
      BY <1>10, <3>1, <3>2 DEF Noise
  <2>3. Written(f) \in Nat
    BY <1>2 DEF Written
  <2>4. QED
    BY <1>1, <2>1, <2>2, <2>3
<1>11. CASE UNCHANGED vars
  <2>1. Copies(f)' = Copies(f) /\ Count(line, f)' = Count(line, f) /\ Written(f)' = Written(f)
    BY <1>3, <1>4, <1>11 DEF vars, Written
  <2>2. QED
    BY <1>1, <2>1
<1>12. QED
  BY <1>5, <1>6, <1>7, <1>8, <1>9, <1>10, <1>11 DEF Next, Daemon

(* The calls that succeeded, against the frames the board has.             *)
LEMMA BackedStep ==
  ASSUME TypeOK, Called, Backed, [Next]_vars PROVE Backed'
<1> DEFINE S == Cardinality(Sent)
           A == Count(answers, "ack")
<1>1. IsFiniteSet(Sent) /\ S \in Nat
  <2>1. IsFiniteSet(Frames)
    BY FS_Interval DEF Frames
  <2>2. QED
    BY <2>1, FS_Subset, FS_CardinalityType DEF Sent
<1>2. A \in Nat /\ Len(got) \in Nat /\ S + A <= Len(got)
  BY CountType, FramesAreNumbers DEF Backed, TypeOK
<1>3. ASSUME NEW r, r # "sent", frame \in Frames, result' = [result EXCEPT ![frame] = r]
      PROVE  S' \in Nat /\ S' <= S
  <2>1. Sent' \in SUBSET Sent
    BY <1>3 DEF Sent, TypeOK
  <2>2. QED
    BY <1>1, <2>1, FS_Subset, FS_CardinalityType
<1>4. ASSUME UNCHANGED result PROVE S' = S
  BY <1>4 DEF Sent
<1>5. ASSUME UNCHANGED answers PROVE A' = A
  BY <1>5
<1>6. SUFFICES S' \in Nat /\ A' \in Nat /\ S' + A' <= Len(got')
  BY DEF Backed
<1> HIDE DEF S, A
<1>7. CASE Call \/ Write
  BY <1>1, <1>2, <1>4, <1>5, <1>7 DEF Call, Write
<1>8. CASE WriteFails
  <2>1. S' \in Nat /\ S' <= S
    BY <1>3, <1>8 DEF WriteFails, Return, Called
  <2>2. A' = A /\ got' = got
    BY <1>5, <1>8 DEF WriteFails
  <2>3. QED
    BY <1>1, <1>2, <2>1, <2>2
<1>9. CASE Receive
  <2>1. /\ Count(answers, "ack")
             = Count(answers', "ack") + IF Head(answers) = "ack" THEN 1 ELSE 0
        /\ Count(answers', "ack") \in Nat /\ got' = got
    BY <1>9, AnswersTail DEF Receive
  <2>2. A = A' + (IF Head(answers) = "ack" THEN 1 ELSE 0) /\ A' \in Nat
    BY <2>1 DEF A
  <2>3. pc = "wait" /\ frame \in Frames
    BY <1>9 DEF Receive, Called
  <2>4. CASE Head(answers) = "ack"
    <3>1. result' = [result EXCEPT ![frame] = "sent"]
      BY <1>9, <2>4 DEF Receive, Accepts, Return
    <3>2. Sent' = Sent \cup {frame}
      BY <2>3, <3>1 DEF Sent, TypeOK
    <3>3. S' \in Nat /\ S' <= S + 1
      BY <1>1, <3>2, FS_AddElement DEF S
    <3>4. QED
      BY <1>1, <1>2, <2>1, <2>2, <2>4, <3>3, SMTT(30)
  <2>5. CASE Head(answers) # "ack"
    <3>1. Retry(err + 1)
      BY <1>9, <2>5 DEF Receive, Accepts
    <3>2. result' = result \/ result' = [result EXCEPT ![frame] = "failed"]
      BY <3>1 DEF Retry, Return
    <3>3. S' \in Nat /\ S' <= S
      BY <1>1, <1>3, <1>4, <2>3, <3>2
    <3>4. QED
      BY <1>1, <1>2, <2>1, <2>2, <2>5, <3>3
  <2>6. QED
    BY <2>4, <2>5
<1>10. CASE Timeout
  <2>1. A' = A /\ got' = got /\ frame \in Frames
    BY <1>5, <1>10 DEF Timeout, Called
  <2>2. result' = result \/ result' = [result EXCEPT ![frame] = "failed"]
    BY <1>10 DEF Timeout, Retry, Return
  <2>3. S' \in Nat /\ S' <= S
    BY <1>1, <1>3, <1>4, <2>1, <2>2
  <2>4. QED
    BY <1>1, <1>2, <2>1, <2>3
<1>11. CASE Board
  <2>1. S' = S
    BY <1>4, <1>11 DEF Board
  <2>2. CASE Head(line) = Damaged
    <3>1. Count(answers', "ack") = Count(answers, "ack") + IF "eak" = "ack" THEN 1 ELSE 0
      BY <1>11, <2>2, AnswersAppend DEF Board, Answers
    <3>2. A' = A /\ got' = got
      BY <1>2, <1>11, <2>2, <3>1 DEF A, Board
    <3>3. QED
      BY <1>1, <1>2, <2>1, <3>2
  <2>3. CASE Head(line) # Damaged
    <3>1. Count(answers', "ack") = Count(answers, "ack") + IF "ack" = "ack" THEN 1 ELSE 0
      BY <1>11, <2>3, AnswersAppend DEF Board, Answers
    <3>2. Head(line) \in Frames
      BY <1>11, <2>3, LineTail DEF Board, OnLine
    <3>3. Len(got') = Len(got) + 1
      BY <1>11, <2>3, <3>2, GotAppend DEF Board
    <3>4. A' = A + 1
      BY <3>1 DEF A
    <3>5. QED
      BY <1>1, <1>2, <2>1, <3>3, <3>4
  <2>4. QED
    BY <2>2, <2>3
<1>12. CASE Noise
  <2>1. S' = S /\ got' = got
    BY <1>4, <1>12 DEF Noise
  <2>2. A' \in Nat /\ A' <= A
    <3>1. CASE UNCHANGED answers
      BY <1>2, <1>5, <3>1
    <3>2. CASE answers # <<>> /\ answers' \in {Tail(answers), <<"bad">> \o Tail(answers),
                                               <<"bad", "bad">> \o Tail(answers)}
      BY <3>2, AnswersNoise DEF A
    <3>3. QED
      BY <1>12, <3>1, <3>2 DEF Noise
  <2>3. QED
    BY <1>1, <1>2, <2>1, <2>2
<1>13. CASE UNCHANGED vars
  BY <1>1, <1>2, <1>4, <1>5, <1>13 DEF vars
<1>14. QED
  BY <1>7, <1>8, <1>9, <1>10, <1>11, <1>12, <1>13 DEF Next, Daemon
-----------------------------------------------------------------------------
(* One frame or its answer at a time, as long as nothing is late.          *)
Timely ==
  /\ OneAtATime
  /\ OkWhenTimely

LEMMA TimelyStep ==
  ASSUME TypeOK, Called, Timely, [Next]_vars PROVE Timely'
<1> SUFFICES ASSUME ~late'
             PROVE  /\ pc' # "wait" => Len(line') = 0 /\ Len(answers') = 0
                    /\ pc' = "wait" => Len(line') + Len(answers') <= 1
                    /\ \A i \in 1..Len(line') : line'[i] \in {frame', Damaged}
                    /\ \A i \in 1..Len(answers') : answers'[i] = "ack" => frame' \in Received'
                    /\ OkMeansReceived'
  BY DEF Timely, OneAtATime, OkWhenTimely
<1>1. Len(line) \in Nat /\ Len(answers) \in Nat
  BY FramesAreNumbers
<1>2. ~late
  BY DEF Next, Daemon, Call, Write, WriteFails, Receive, Timeout, Board, Noise, vars, TypeOK
<1>3. /\ pc # "wait" => Len(line) = 0 /\ Len(answers) = 0
      /\ pc = "wait" => Len(line) + Len(answers) <= 1
      /\ \A i \in 1..Len(line) : line[i] \in {frame, Damaged}
      /\ \A i \in 1..Len(answers) : answers[i] = "ack" => frame \in Received
      /\ OkMeansReceived
  BY <1>2 DEF Timely, OneAtATime, OkWhenTimely
<1>4. ASSUME UNCHANGED <<result, got>> PROVE OkMeansReceived'
  BY <1>3, <1>4 DEF OkMeansReceived, Received
<1>5. CASE Call
  <2>1. /\ pc = "idle" /\ pc' = "write" /\ UNCHANGED <<result, line, answers, got>>
    BY <1>5 DEF Call
  <2>2. Len(line') = 0 /\ Len(answers') = 0
    BY <1>3, <2>1
  <2>3. QED
    BY <1>4, <2>1, <2>2
<1>6. CASE Write
  <2>1. /\ pc = "write" /\ pc' = "wait" /\ line' = Append(line, frame)
        /\ UNCHANGED <<frame, result, answers, got>> /\ frame \in OnLine
    BY <1>6 DEF Write, Called, OnLine
  <2>2. Len(line) = 0 /\ Len(answers') = 0
    BY <1>3, <2>1
  <2>3. Len(line') = 1 /\ line'[1] = frame
    BY <2>1, <2>2, LineAppend
  <2>4. QED
    BY <1>4, <2>1, <2>2, <2>3
<1>7. CASE WriteFails
  BY <1>7 DEF WriteFails
<1>8. CASE Receive
  <2>1. /\ pc = "wait" /\ frame \in Frames /\ answers # <<>> /\ answers' = Tail(answers)
        /\ UNCHANGED <<frame, line, got>>
    BY <1>8 DEF Receive, Called
  <2>2. /\ Len(answers') = Len(answers) - 1 /\ Head(answers) = answers[1]
        /\ 1 \in 1..Len(answers)
    BY <2>1, AnswersTail
  <2>3. Len(answers') = 0 /\ Len(line') = 0
    BY <1>1, <1>3, <2>1, <2>2
  <2>4. CASE Head(answers) = "ack"
    <3>1. frame \in Received
      BY <1>3, <2>2, <2>4
    <3>2. pc' = "idle" /\ result' = [result EXCEPT ![frame] = "sent"]
      BY <1>8, <2>4 DEF Receive, Accepts, Return
    <3>3. \A f \in Frames : result'[f] = "sent" => f \in Received
      BY <1>3, <2>1, <3>1, <3>2 DEF OkMeansReceived, TypeOK
    <3>4. Received' = Received
      BY <2>1 DEF Received
    <3>5. OkMeansReceived'
      BY <3>3, <3>4 DEF OkMeansReceived
    <3>6. QED
      BY <2>3, <3>2, <3>5
  <2>5. CASE Head(answers) # "ack"
    <3>1. Retry(err + 1)
      BY <1>8, <2>5 DEF Receive, Accepts
    <3>2. /\ pc' # "wait"
          /\ result' = result \/ result' = [result EXCEPT ![frame] = "failed"]
      BY <3>1 DEF Retry, Return
    <3>3. \A f \in Frames : result'[f] = "sent" => result[f] = "sent"
      BY <2>1, <3>2 DEF TypeOK
    <3>4. Received' = Received
      BY <2>1 DEF Received
    <3>5. OkMeansReceived'
      BY <1>3, <3>3, <3>4 DEF OkMeansReceived
    <3>6. QED
      BY <2>3, <3>2, <3>5
  <2>6. QED
    BY <2>4, <2>5
<1>9. CASE Timeout
  <2>1. /\ pc = "wait" /\ frame \in Frames /\ answers = <<>> /\ line = <<>>
        /\ UNCHANGED <<frame, line, answers, got>> /\ Retry(err + 1)
    BY <1>9 DEF Timeout, Called
  <2>2. Len(answers') = 0 /\ Len(line') = 0
    BY <2>1, EmptySeq
  <2>3. /\ pc' # "wait"
        /\ result' = result \/ result' = [result EXCEPT ![frame] = "failed"]
    BY <2>1 DEF Retry, Return
  <2>4. \A f \in Frames : result'[f] = "sent" => result[f] = "sent"
    BY <2>1, <2>3 DEF TypeOK
  <2>5. Received' = Received
    BY <2>1 DEF Received
  <2>6. OkMeansReceived'
    BY <1>3, <2>4, <2>5 DEF OkMeansReceived
  <2>7. QED
    BY <2>2, <2>3, <2>6
<1>10. CASE Board
  <2>1. UNCHANGED <<pc, frame, result>>
    BY <1>10 DEF Board
  <2>2. /\ Len(line') = Len(line) - 1 /\ Head(line) = line[1] /\ 1 \in 1..Len(line)
        /\ Head(line) \in OnLine
    BY <1>10, LineTail DEF Board, Shortened
  <2>3. /\ pc = "wait" /\ Len(line') = 0 /\ Len(answers) = 0
    BY <1>1, <1>3, <2>2
  <2>4. Head(line) \in {frame, Damaged}
    BY <1>3, <2>2
  <2>5. CASE Head(line) = Damaged
    <3>1. answers' = Append(answers, "eak") /\ got' = got
      BY <1>10, <2>5 DEF Board
    <3>2. Len(answers') = 1 /\ answers'[1] = "eak"
      BY <2>3, <3>1, AnswersAppend DEF Answers
    <3>3. QED
      BY <1>4, <2>1, <2>3, <3>1, <3>2
  <2>6. CASE Head(line) # Damaged
    <3>1. answers' = Append(answers, "ack") /\ got' = Append(got, Head(line))
      BY <1>10, <2>6 DEF Board
    <3>2. Len(answers') = 1
      BY <2>3, <3>1, AnswersAppend DEF Answers
    <3>3. frame \in Frames /\ Head(line) = frame
      BY <2>2, <2>4, <2>6 DEF OnLine
    <3>4. frame \in Received' /\ Received \subseteq Received'
      BY <3>1, <3>3, GotAppend
    <3>5. OkMeansReceived'
      BY <1>3, <2>1, <3>4 DEF OkMeansReceived
    <3>6. Len(line') + Len(answers') <= 1 /\ pc' = "wait"
      BY <2>1, <2>3, <3>2
    <3>7. \A i \in 1..Len(line') : line'[i] \in {frame', Damaged}
      BY <2>3
    <3>8. frame' \in Received'
      BY <2>1, <3>4
    <3>9. QED
      BY <3>5, <3>6, <3>7, <3>8
  <2>7. QED
    BY <2>5, <2>6
<1>11. CASE Noise
  <2>1. UNCHANGED <<pc, frame, result, got>>
    BY <1>11 DEF Noise
  <2>2. Received' = Received /\ OkMeansReceived'
    BY <1>4, <2>1 DEF Received
  <2>3. CASE /\ line # <<>> /\ line' \in {Tail(line), <<Damaged>> \o Tail(line)}
             /\ UNCHANGED answers
    <3>1. PICK d \in {0, 1} : Shortened(d)
      BY <2>3, LineNoise
    <3>2. /\ Len(line') \in Nat /\ Len(line') <= Len(line)
          /\ \A j \in 1..Len(line') :
               j + d \in 1..Len(line) /\ line'[j] \in {line[j + d], Damaged}
      BY <1>1, <3>1, LenProperties DEF Shortened
    <3>3. \A j \in 1..Len(line') : line'[j] \in {frame, Damaged}
      BY <1>3, <3>2
    <3>4. \A i \in 1..Len(answers') : answers'[i] = "ack" => frame' \in Received'
      BY <1>3, <2>1, <2>2, <2>3
    <3>5. /\ pc' # "wait" => Len(line') = 0 /\ Len(answers') = 0
          /\ pc' = "wait" => Len(line') + Len(answers') <= 1
      BY <1>1, <1>3, <2>1, <2>3, <3>2
    <3>6. QED
      BY <2>1, <2>2, <3>3, <3>4, <3>5
  <2>4. CASE /\ answers # <<>> /\ answers' \in {Tail(answers), <<"bad">> \o Tail(answers)}
             /\ UNCHANGED line
    <3>1. /\ answers' \in Seq(Answers) /\ Len(answers') \in Nat
      BY <2>4, AnswersNoise, LenProperties
    <3>2. answers' # <<"bad", "bad">> \o Tail(answers)
      <4> DEFINE t == Tail(answers)
      <4>1. t \in Seq(Answers) /\ Len(t) \in Nat
        BY <2>4, AnswersTail, LenProperties
      <4> HIDE DEF t
      <4>2. <<"bad", "bad">> \in Seq(Answers) /\ Len(<<"bad", "bad">>) = 2
        BY DEF Answers
      <4>3. Len(<<"bad", "bad">> \o t) = 2 + Len(t)
        BY <4>1, <4>2, ConcatProperties
      <4>4. Len(<<"bad">> \o t) = Len(t) + 1
        BY <4>1, BadInFront
      <4>5. answers' = t \/ answers' = <<"bad">> \o t
        BY <2>4 DEF t
      <4>6. Len(answers') # Len(<<"bad", "bad">> \o t)
        BY <4>1, <4>3, <4>4, <4>5
      <4>7. QED
        BY <4>6 DEF t
    <3>3. /\ Len(answers') <= Len(answers)
          /\ \A i \in 1..Len(answers') :
               answers'[i] = "ack" => \E k \in 1..Len(answers) : answers[k] = "ack"
      BY <2>4, <3>2, AnswersNoise
    <3>4. \A i \in 1..Len(answers') : answers'[i] = "ack" => frame' \in Received'
      BY <1>3, <2>1, <2>2, <3>3
    <3>5. /\ pc' # "wait" => Len(line') = 0 /\ Len(answers') = 0
          /\ pc' = "wait" => Len(line') + Len(answers') <= 1
      BY <1>1, <1>3, <2>1, <2>4, <3>1, <3>3
    <3>6. QED
      BY <1>3, <2>1, <2>2, <2>4, <3>4, <3>5
  <2>5. QED
    BY <1>11, <2>3, <2>4 DEF Noise
<1>12. CASE UNCHANGED vars
  BY <1>3, <1>4, <1>12 DEF vars, Received
<1>13. QED
  BY <1>5, <1>6, <1>7, <1>8, <1>9, <1>10, <1>11, <1>12 DEF Next, Daemon

-----------------------------------------------------------------------------
(* The theorems.                                                           *)

LEMMA IInvStep == IInv /\ [Next]_vars => IInv'
BY TypeStep, CalledStep, InOrderStep, FewStep, TimelyStep, BackedStep DEF IInv, Timely

LEMMA IInvHolds == Spec => []IInv
BY InitIInv, IInvStep, PTL DEF Spec

(* Type correctness of the daemon, the line and the board.                 *)
THEOREM TypeCorrect == Spec => []TypeOK
<1>1. IInv => TypeOK
  BY DEF IInv
<1>2. QED
  BY <1>1, IInvHolds, PTL

(* The board gets the frames in the order of the calls, and each of them   *)
(* no more often than iec61850_send tries (d61850_protocol.c:94-113), for  *)
(* every number of attempts and whatever the line does.                    *)
THEOREM InOrderAtMostThriceHolds == Spec => []InOrderAtMostThrice
<1>1. ASSUME IInv PROVE InOrderAtMostThrice
  <2>1. \A i, j \in 1..Len(got) : i < j => got[i] <= got[j]
    BY <1>1 DEF IInv, InOrder
  <2>2. ASSUME NEW f \in Frames PROVE Copies(f) <= MaxErr
    <3>1. Count(got, f) \in Nat /\ Count(line, f) \in Nat
      BY <1>1, CountType DEF IInv, TypeOK
    <3>2. Copies(f) = Count(got, f)
      BY DEF Copies, Count
    <3>3. Copies(f) + Count(line, f) <= Written(f)
      BY <1>1 DEF IInv, FewCopies
    <3>4. Written(f) \in Nat /\ Written(f) <= MaxErr
      BY <1>1 DEF IInv, TypeOK, Written, Frames
    <3>5. QED
      BY <3>1, <3>2, <3>3, <3>4
  <2>3. QED
    BY <2>1, <2>2 DEF InOrderAtMostThrice
<1>2. IInv => InOrderAtMostThrice
  BY <1>1
<1>3. QED
  BY <1>2, IInvHolds, PTL

(* A call that returns success has its frame at the board, if no answer    *)
(* was late; and with late answers at least as many frames have arrived as *)
(* calls succeeded: an answer vouches for one call only.                   *)
THEOREM SuccessMeansReceivedHolds == Spec => []SuccessMeansReceived
<1>1. ASSUME IInv PROVE SuccessIsBacked
  <2>1. Cardinality(Sent) \in Nat
    <3>1. IsFiniteSet(Frames)
      BY FS_Interval DEF Frames
    <3>2. QED
      BY <3>1, FS_Subset, FS_CardinalityType DEF Sent
  <2>2. Count(answers, "ack") \in Nat /\ Len(got) \in Nat
    BY <1>1, CountType, FramesAreNumbers DEF IInv, TypeOK
  <2>3. Cardinality(Sent) + Count(answers, "ack") <= Len(got)
    BY <1>1 DEF IInv, Backed
  <2>4. Cardinality(Sent) <= Len(got)
    BY <2>1, <2>2, <2>3
  <2>5. QED
    BY <2>4 DEF Sent, SuccessIsBacked
<1>2. IInv => SuccessMeansReceived
  BY <1>1 DEF IInv, SuccessMeansReceived
<1>3. QED
  BY <1>2, IInvHolds, PTL
=============================================================================
