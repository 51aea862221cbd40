---------------------------- MODULE PtpModulesProofs ----------------------------
(***************************************************************************)
(* Proofs about PtpModules and OutputQuality, for every list of peers,     *)
(* every default setting and every number of commands, exchanges of the    *)
(* board, ends of the daemon and changes of the clock.                     *)
(***************************************************************************)
EXTENDS PtpModules, SequenceTheorems, TLAPS

-----------------------------------------------------------------------------
(* What d-output says of the clock (OutputQuality).                        *)

KnownType == [state : ClockStates, source : Sources \cup {"unset"}, traced : Sources,
              pre : Grades \cup {"09"}]
Outputs == [ssm : Grades, state : ClockStates, traced : Sources, pre : Grades \cup {"09"}]

(* The grade of a frequency source that is passed through.                 *)
Passed(traced) == IF traced = "mb" THEN grade ELSE input.grade
(* The grade the 2 Mbit output has by the state and the source.            *)
GradeIs(g, s, traced) ==
  /\ s = "free" => g = "0F"
  /\ s = "hold" => g = IF Rubidium THEN "04" ELSE "08"
  /\ s = "fast" /\ Flag[traced] = "both" => g = "04"
  /\ s = "lock" /\ Flag[traced] = "both" => g = "02"

(* What was said last is remembered, unless nothing was since the restart. *)
Remembered(o) == o.pre # "09" => o.ssm = o.pre

GradeSaid == known.source # "unset" => GradeIs(ssm, known.state, known.traced)
SaidIsKnown == known.pre # "09" => ssm = known.pre
RoundsSee == rounds > 0 => known.state = state /\ known.source = source
SecondRoundPasses ==
  rounds = 2 /\ Flag[known.traced] = "freq" /\ state \in Quick => ssm = Passed(known.traced)
SourceIsTraced == known.source \notin {"unset", "none"} => known.traced = known.source
TodFits == seconds => tod.pps \in TodStates
LooksCount == freeSets <= 1 /\ (thread.before # "free" => freeSets = 0)

QInv ==
  /\ QualityTypeOK /\ GradeSaid /\ SaidIsKnown /\ RoundsSee /\ SecondRoundPasses
  /\ SourceIsTraced /\ TodFits /\ LooksCount

LEMMA FlagFacts ==
  /\ Sources = {"gps", "mb", "mh", "ntp", "none"}
  /\ \A s \in Sources : Flag[s] \in {"both", "freq", "time", "invalid"}
  /\ Flag["none"] = "invalid"
BY DEF Sources, Flag

LEMMA SayFacts ==
  ASSUME NEW o \in Outputs, NEW g \in Grades
  PROVE  /\ Say(o, g) \in Outputs /\ Say(o, g).ssm = g /\ Say(o, g).pre = g
         /\ Say(o, g).state = o.state /\ Say(o, g).traced = o.traced
         /\ Remembered(Say(o, g))
BY DEF Say, Outputs, Remembered

LEMMA ThroughFacts ==
  ASSUME QualityTypeOK, NEW o \in Outputs, Remembered(o)
  PROVE  /\ Through(o) \in Outputs /\ Remembered(Through(o))
         /\ Through(o).state = o.state /\ Through(o).traced = o.traced
         /\ Flag[o.traced] = "freq" /\ o.state \in Quick => Through(o).ssm = Passed(o.traced)
         /\ ~(Flag[o.traced] = "freq" /\ o.state \in Quick) => Through(o) = o
<1>. DEFINE g == Passed(o.traced)
<1>1. g \in Grades /\ g # "09"
  BY DEF QualityTypeOK, Passed, Grades
<1>2. Through(o) = IF Flag[o.traced] = "freq" /\ o.state \in Quick /\ g # o.pre
                   THEN Say(o, g) ELSE o
  BY DEF Through, Passed
<1>. HIDE DEF g
<1>. QED
  BY <1>1, <1>2, SayFacts DEF Remembered, g

LEMMA GradedFacts ==
  ASSUME QualityTypeOK, NEW o \in Outputs, Remembered(o)
  PROVE  /\ Graded(o) \in Outputs /\ Remembered(Graded(o)) /\ Graded(o).traced = o.traced
         /\ GradeIs(Graded(o).ssm, state, o.traced)
<1>1. state \in {"free", "hold", "fast", "lock"}
  BY DEF QualityTypeOK, ClockStates
<1>2. ASSUME NEW g \in Grades, Graded(o) = Say(o, g), GradeIs(g, state, o.traced)
      PROVE  /\ Graded(o) \in Outputs /\ Remembered(Graded(o)) /\ Graded(o).traced = o.traced
             /\ GradeIs(Graded(o).ssm, state, o.traced)
  <2>1. /\ Say(o, g) \in Outputs /\ Remembered(Say(o, g)) /\ Say(o, g).traced = o.traced
        /\ Say(o, g).ssm = g
    BY SayFacts
  <2>. QED
    BY <1>2, <2>1, Zenon
<1>3. ASSUME Graded(o) = o, state \in Quick, Flag[o.traced] # "both"
      PROVE  /\ Graded(o) \in Outputs /\ Remembered(Graded(o)) /\ Graded(o).traced = o.traced
             /\ GradeIs(Graded(o).ssm, state, o.traced)
  BY <1>3 DEF GradeIs, Quick
<1>4. CASE state \in Quick /\ Flag[o.traced] # "both"
  BY <1>3, <1>4 DEF Graded, Quick
<1>5. CASE state \notin Quick \/ Flag[o.traced] = "both"
  <2>. DEFINE g == CASE state = "lock" -> "02" [] state = "fast" -> "04"
                     [] state = "hold" -> IF Rubidium THEN "04" ELSE "08"
                     [] OTHER -> "0F"
  <2>1. g \in Grades
    BY DEF Grades
  <2>2. Graded(o) = Say(o, g)
    BY <1>1, <1>5 DEF Graded, Quick
  <2>3. GradeIs(g, state, o.traced)
    BY <1>1, <1>5 DEF GradeIs
  <2>. HIDE DEF g
  <2>. QED
    BY <1>2, <2>1, <2>2, <2>3
<1>. QED
  BY <1>4, <1>5

(* A round of SetOutBoardClockClass.                                       *)
LEMMA RoundFacts ==
  ASSUME QInv, SetOutBoardClockClass
  PROVE  /\ QInv'
         /\ known'.state = state /\ known'.source = source
         /\ known'.traced = IF Changed THEN Traced(known) ELSE known.traced
<1>. DEFINE k == Output
            o == Through(k)
            p == [o EXCEPT !.traced = Traced(o)]
            n == IF Changed THEN Graded(p) ELSE o
<1>1. /\ ssm' = n.ssm
      /\ known' = [state |-> state, source |-> source, traced |-> n.traced, pre |-> n.pre]
      /\ rounds' = IF rounds < 2 THEN rounds + 1 ELSE 2
      /\ UNCHANGED <<clockVars, tod, thread, freeSets, seconds>>
  BY DEF SetOutBoardClockClass
<1>2. QualityTypeOK /\ known \in KnownType /\ ssm \in Grades /\ source \in Sources
      /\ state \in ClockStates /\ rounds \in 0..2
  BY DEF QInv, QualityTypeOK, KnownType
<1>3. k = [ssm |-> ssm, state |-> known.state, traced |-> known.traced, pre |-> known.pre]
  BY DEF Output
<1>. HIDE DEF k
<1>4. k \in Outputs /\ Remembered(k)
  BY <1>2, <1>3 DEF Outputs, KnownType, Remembered, QInv, SaidIsKnown
<1>5. /\ o \in Outputs /\ Remembered(o) /\ o.state = known.state /\ o.traced = known.traced
      /\ Flag[o.traced] = "freq" /\ o.state \in Quick => o.ssm = Passed(o.traced)
      /\ ~(Flag[o.traced] = "freq" /\ o.state \in Quick) => o = k
  BY <1>2, <1>3, <1>4, ThroughFacts
<1>. HIDE DEF o
<1>6. /\ p \in Outputs /\ Remembered(p) /\ p.traced = Traced(known)
  <2>1. Traced(o) = Traced(known) /\ Traced(o) \in Sources
    BY <1>2, <1>5 DEF Traced, Outputs
  <2>. QED
    BY <1>5, <2>1 DEF Outputs, Remembered
<1>. HIDE DEF p
<1>7. /\ n \in Outputs /\ Remembered(n)
      /\ n.traced = IF Changed THEN Traced(known) ELSE known.traced
      /\ Changed => GradeIs(n.ssm, state, n.traced)
      /\ ~Changed => n = o
  BY <1>2, <1>5, <1>6, GradedFacts
<1>. HIDE DEF n
<1>8. /\ known'.state = state /\ known'.source = source /\ known'.traced = n.traced
      /\ known'.pre = n.pre /\ known' \in KnownType
  BY <1>1, <1>2, <1>7 DEF KnownType, Outputs
<1>9. /\ clock' = clock /\ state' = state /\ source' = source /\ grade' = grade
      /\ input' = input /\ tod' = tod /\ thread' = thread /\ freeSets' = freeSets
      /\ seconds' = seconds
  BY <1>1 DEF clockVars
<1>10. QualityTypeOK'
  <2>1. ssm' \in Grades
    BY <1>1, <1>7 DEF Outputs
  <2>2. rounds' \in 0..2
    BY <1>1, <1>2
  <2>. QED
    BY <1>2, <1>8, <1>9, <2>1, <2>2 DEF QualityTypeOK, KnownType
<1>11. ~Changed => known.state = state /\ known.source = source
  BY DEF Changed
<1>12. GradeSaid'
  <2>. SUFFICES GradeIs(ssm', known'.state, known'.traced)
    BY DEF GradeSaid, GradeIs
  <2>1. CASE Changed
    BY <1>1, <1>7, <1>8, <2>1
  <2>2. CASE ~Changed
    <3>1. n = o /\ known.state = state /\ known.source = source /\ n.traced = known.traced
      BY <1>7, <1>11, <2>2
    <3>2. GradeIs(ssm, state, known.traced)
      BY <1>2, <3>1, FlagFacts DEF QInv, GradeSaid
    <3>3. ~(Flag[known.traced] = "freq" /\ state \in Quick) => o.ssm = ssm
      BY <1>3, <1>5, <3>1
    <3>4. CASE Flag[known.traced] = "freq" /\ state \in Quick
      BY <1>8, <3>1, <3>4 DEF GradeIs, Quick
    <3>5. CASE ~(Flag[known.traced] = "freq" /\ state \in Quick)
      BY <1>1, <1>8, <3>1, <3>2, <3>3, <3>5
    <3>. QED
      BY <3>4, <3>5
  <2>. QED
    BY <2>1, <2>2
<1>13. SaidIsKnown'
  BY <1>1, <1>7, <1>8 DEF SaidIsKnown, Remembered
<1>14. RoundsSee'
  BY <1>8, <1>9 DEF RoundsSee
<1>15. SecondRoundPasses'
  <2>. SUFFICES ASSUME rounds' = 2, Flag[known'.traced] = "freq", state \in Quick
                PROVE  ssm' = Passed(known'.traced)
    BY <1>9 DEF SecondRoundPasses, Passed
  <2>1. rounds > 0
    BY <1>1, <1>2
  <2>2. ~Changed
    BY <2>1 DEF Changed, QInv, RoundsSee
  <2>. QED
    BY <1>1, <1>5, <1>7, <1>8, <1>11, <2>2
<1>16. SourceIsTraced'
  <2>1. CASE Changed
    BY <1>7, <1>8, <2>1 DEF SourceIsTraced, Traced
  <2>2. CASE ~Changed
    BY <1>7, <1>8, <1>11, <2>2 DEF QInv, SourceIsTraced
  <2>. QED
    BY <2>1, <2>2
<1>17. TodFits' /\ LooksCount'
  BY <1>9 DEF QInv, TodFits, LooksCount, TodStates
<1>. QED
  BY <1>7, <1>8, <1>10, <1>12, <1>13, <1>14, <1>15, <1>16, <1>17 DEF QInv

LEMMA QualityStart ==
  ASSUME NEW found \in [clock : ClockStates, source : Sources, grade : Grades],
         QualityInit(found)
  PROVE  QInv
<1>1. known.source = "unset" /\ known.pre = "09" /\ ssm = "0F"
  BY DEF QualityInit
<1>2. QualityTypeOK
  <2>1. /\ known = [state |-> "free", source |-> "unset", traced |-> "none", pre |-> "09"]
        /\ "free" \in ClockStates /\ "none" \in Sources
    BY FlagFacts DEF QualityInit, ClockStates
  <2>2. known \in [state : ClockStates, source : Sources \cup {"unset"}, traced : Sources,
                   pre : Grades \cup {"09"}]
    BY <2>1
  <2>3. /\ clock \in ClockStates /\ state \in ClockStates /\ source \in Sources /\ grade \in Grades
        /\ ssm \in Grades
    BY DEF QualityInit, Grades
  <2>4. /\ input \in [stratum : {0, 1, 2, 255}, grade : Grades]
        /\ tod \in [pps : PpsStates, quality : {0, 4, 5, 6, 10, 15}]
    BY DEF QualityInit, PpsStates, Grades
  <2>5. thread \in [enabled : BOOLEAN, before : ClockStates]
    BY DEF QualityInit, ClockStates
  <2>6. freeSets \in Nat /\ rounds \in 0..2
    BY DEF QualityInit
  <2>7. seconds \in BOOLEAN
    BY DEF QualityInit
  <2>. QED
    BY <2>2, <2>3, <2>4, <2>5, <2>6, <2>7, Zenon DEF QualityTypeOK
<1>. QED
  BY <1>1, <1>2 DEF QualityInit, QInv, GradeSaid, SaidIsKnown, RoundsSee, SecondRoundPasses,
    SourceIsTraced, TodFits, LooksCount

(* What changes around d-output starts the rounds and the seconds anew.    *)
LEMMA AroundFacts ==
  ASSUME QInv, ClockChanges \/ write_clock_state \/ stratum_input_source
  PROVE  QInv' /\ UNCHANGED outputVars
<1>1. /\ known' = known /\ ssm' = ssm /\ tod' = tod /\ thread' = thread /\ freeSets' = freeSets
      /\ rounds' = 0 /\ seconds' = FALSE
  BY DEF ClockChanges, write_clock_state, stratum_input_source, Disturbed, outputVars
<1>2. QualityTypeOK'
  <2>1. clock' \in ClockStates /\ state' \in ClockStates /\ source' \in Sources /\ grade' \in Grades
    BY DEF ClockChanges, Ticks, write_clock_state, stratum_input_source, QInv, QualityTypeOK
  <2>2. input' \in [stratum : {0, 1, 2, 255}, grade : Grades]
    <3>1. CASE stratum_input_source
      <4>1. Strata[grade] \in {0, 1, 2, 255} /\ grade \in Grades
            /\ input \in [stratum : {0, 1, 2, 255}, grade : Grades]
        BY DEF QInv, QualityTypeOK, Strata
      <4>. QED
        BY <3>1, <4>1 DEF stratum_input_source
    <3>2. CASE ClockChanges \/ write_clock_state
      BY <3>2 DEF ClockChanges, write_clock_state, QInv, QualityTypeOK
    <3>. QED
      BY <3>1, <3>2
  <2>3. /\ known' \in KnownType /\ ssm' \in Grades
        /\ tod' \in [pps : PpsStates, quality : {0, 4, 5, 6, 10, 15}]
        /\ thread' \in [enabled : BOOLEAN, before : ClockStates] /\ freeSets' \in Nat
    BY <1>1 DEF QInv, QualityTypeOK, KnownType
  <2>4. rounds' \in 0..2
    BY <1>1
  <2>5. seconds' \in BOOLEAN
    BY <1>1
  <2>. QED
    BY <2>1, <2>2, <2>3, <2>4, <2>5, Zenon DEF QualityTypeOK, KnownType
<1>. QED
  BY <1>1, <1>2 DEF QInv, GradeSaid, SaidIsKnown, RoundsSee, SecondRoundPasses,
    SourceIsTraced, TodFits, LooksCount, outputVars

(* A second of the thread.                                                 *)
LEMMA SecondFacts ==
  ASSUME QInv, Second
  PROVE  QInv' /\ UNCHANGED <<clockVars, known, ssm, rounds>>
<1>1. /\ clock' = clock /\ state' = state /\ source' = source /\ grade' = grade
      /\ input' = input /\ known' = known /\ ssm' = ssm /\ rounds' = rounds /\ seconds' = TRUE
  BY DEF Second, clockVars
<1>2. PICK p \in TodStates : tod' = [pps |-> p, quality |-> TodQuality]
  BY DEF Second, china_mobile_miit_tod
<1>3. TodStates \in SUBSET PpsStates /\ TodQuality \in {0, 4, 5, 6, 10, 15}
  <2>1. TodStates \in SUBSET PpsStates
    BY DEF TodStates, PpsStates
  <2>2. TodQuality \in {0, 4, 5, 6, 10, 15}
    BY DEF TodQuality
  <2>. QED
    BY <2>1, <2>2
<1>4. /\ thread' \in [enabled : BOOLEAN, before : ClockStates] /\ freeSets' \in Nat /\ LooksCount'
  <2>1. /\ thread \in [enabled : BOOLEAN, before : ClockStates] /\ freeSets \in Nat
        /\ LooksCount /\ clock \in {"free", "hold", "fast", "lock"}
    BY DEF QInv, QualityTypeOK, ClockStates
  <2>2. CASE Look
    <3>1. PICK valid \in BOOLEAN :
            freeSets' = IF clock # "free" THEN 0
                        ELSE IF Enabled /\ valid THEN freeSets + 1 ELSE freeSets
      BY <2>2 DEF Look
    <3>2. thread' = [enabled |-> Enabled, before |-> clock]
      BY <2>2 DEF Look
    <3>3. Enabled \in BOOLEAN
      BY <2>1 DEF Enabled
    <3>4. clock = "free" /\ thread.before = "free" => ~Enabled
      BY DEF Enabled, Quick
    <3>5. freeSets' \in Nat /\ freeSets' <= 1 /\ (clock # "free" => freeSets' = 0)
      <4>1. CASE clock # "free"
        BY <3>1, <4>1
      <4>2. CASE clock = "free" /\ thread.before = "free"
        <5>1. freeSets' = freeSets
          BY <3>1, <3>4, <4>2
        <5>. QED
          BY <2>1, <4>2, <5>1 DEF LooksCount
      <4>3. CASE clock = "free" /\ thread.before # "free"
        <5>1. freeSets = 0
          BY <2>1, <4>3 DEF LooksCount
        <5>2. freeSets' = 0 \/ freeSets' = 0 + 1
          BY <3>1, <4>3, <5>1
        <5>. QED
          BY <4>3, <5>2
      <4>. QED
        BY <4>1, <4>2, <4>3
    <3>. QED
      BY <2>1, <3>2, <3>3, <3>5 DEF LooksCount, ClockStates
  <2>3. CASE UNCHANGED <<thread, freeSets>>
    BY <2>1, <2>3 DEF LooksCount
  <2>. QED
    BY <2>2, <2>3 DEF Second
<1>5. QualityTypeOK'
  BY <1>1, <1>2, <1>3, <1>4 DEF QInv, QualityTypeOK
<1>6. TodFits'
  BY <1>1, <1>2 DEF TodFits, TodStates
<1>. QED
  BY <1>1, <1>4, <1>5, <1>6 DEF QInv, GradeSaid, SaidIsKnown, RoundsSee, SecondRoundPasses,
    SourceIsTraced, Passed, clockVars

(* d-output forgets what it said when it ends.                             *)
LEMMA EndFacts ==
  ASSUME QInv, Fresh, NoThread, freeSets' = 0, Disturbed, UNCHANGED <<clockVars, ssm, tod>>
  PROVE  QInv' /\ known'.source = "unset"
<1>1. known' = [state |-> "free", source |-> "unset", traced |-> "none", pre |-> "09"]
  BY DEF Fresh
<1>2. known' \in [state : ClockStates, source : Sources \cup {"unset"}, traced : Sources,
                 pre : Grades \cup {"09"}]
  BY <1>1, FlagFacts DEF ClockStates
<1>3. QualityTypeOK'
  <2>1. thread' \in [enabled : BOOLEAN, before : ClockStates]
    BY DEF NoThread, ClockStates
  <2>2. rounds' \in 0..2 /\ freeSets' \in Nat
    BY DEF Disturbed
  <2>3. seconds' \in BOOLEAN
    BY DEF Disturbed
  <2>4. /\ clock' \in ClockStates /\ state' \in ClockStates /\ source' \in Sources
        /\ grade' \in Grades /\ input' \in [stratum : {0, 1, 2, 255}, grade : Grades]
        /\ ssm' \in Grades /\ tod' \in [pps : PpsStates, quality : {0, 4, 5, 6, 10, 15}]
    BY DEF clockVars, QInv, QualityTypeOK
  <2>. QED
    BY <1>2, <2>1, <2>2, <2>3, <2>4, Zenon DEF QualityTypeOK
<1>. QED
  BY <1>1, <1>3 DEF QInv, GradeSaid, SaidIsKnown, RoundsSee, SecondRoundPasses, SourceIsTraced,
    TodFits, LooksCount, Disturbed, NoThread

LEMMA QuietFacts ==
  ASSUME QInv, UNCHANGED qualityVars
  PROVE  QInv'
<1>1. /\ UNCHANGED <<clock, state, source, grade, input, known, ssm, tod, thread, freeSets>>
      /\ UNCHANGED <<rounds, seconds>>
  BY DEF qualityVars, clockVars, outputVars
<1>. QED
  BY <1>1 DEF QInv, QualityTypeOK, GradeSaid, SaidIsKnown, RoundsSee, SecondRoundPasses,
    SourceIsTraced, TodFits, LooksCount, TodStates, Passed

LEMMA QualityHolds ==
  ASSUME QInv
  PROVE  SsmFollows /\ FreeTimeOnce
<1>1. state \in {"free", "hold", "fast", "lock"} /\ known.traced \in Sources /\ source # "unset"
  BY FlagFacts DEF QInv, QualityTypeOK, ClockStates
<1>2. rounds = 2 => GradeIs(ssm, state, known.traced)
  BY <1>1 DEF QInv, RoundsSee, GradeSaid
<1>3. rounds = 2 /\ Flag[known.traced] = "freq" /\ state \in Quick => ssm = Passed(known.traced)
  BY DEF QInv, SecondRoundPasses
<1>4. SsmFollows
  BY <1>2, <1>3 DEF SsmFollows, GradeIs, Passed, Quick
<1>. QED
  BY <1>4 DEF QInv, FreeTimeOnce, LooksCount

-----------------------------------------------------------------------------
(* Dialogues: what is in a sequence of commands, and in what order.        *)

IsSeq(s) == s \in Seq(ToSet(s))

(* d must not come after c: nothing is told before the login, the engine   *)
(* does not stop again, an address that counts as sent is not sent again,  *)
(* and the peers told before are taken back first.                         *)
Wrong(c, d) ==
  \/ d[1] = "login"
  \/ /\ c[1] = "set" /\ c[2] = "engine" /\ c[3] = "on"
     /\ d[1] = "set" /\ d[2] = "engine" /\ d[3] = "off"
  \/ c[1] = "sent" /\ d[1] = "set" /\ d[2] = "net"
  \/ c[1] \in {"add", "remember"} /\ d[1] = "delete"
  \/ c[1] = "add" /\ d[1] = "remember" /\ d[2] = "oldMac"
  \/ c[1] = "remember" /\ c[2] = "ips" /\ d[1] = "add"
Orderly(s) == \A i, j \in DOMAIN s : i < j => ~Wrong(s[i], s[j])
Dialogue(s) == IsSeq(s) /\ Orderly(s)

LEMMA SeqFacts ==
  ASSUME NEW s, IsSeq(s)
  PROVE  /\ Len(s) \in Nat /\ DOMAIN s = 1..Len(s)
         /\ \A i \in 1..Len(s) : s[i] \in ToSet(s)
         /\ \A c \in ToSet(s) : \E i \in 1..Len(s) : c = s[i]
<1>1. Len(s) \in Nat /\ DOMAIN s = 1..Len(s)
  BY LenProperties DEF IsSeq
<1>. QED
  BY <1>1 DEF ToSet

LEMMA MakeSeq ==
  ASSUME NEW n \in Nat, NEW s, s = [i \in 1..n |-> s[i]]
  PROVE  IsSeq(s) /\ Len(s) = n /\ ToSet(s) = {s[i] : i \in 1..n}
<1>1. DOMAIN s = 1..n
  BY Zenon
<1>2. ToSet(s) = {s[i] : i \in 1..n}
  BY <1>1 DEF ToSet
<1>3. s \in [1..n -> ToSet(s)]
  BY <1>2
<1>4. s \in Seq(ToSet(s))
  BY <1>3, SeqDef
<1>5. Len(s) = n
  <2>1. Len(s) \in Nat /\ DOMAIN s = 1..Len(s)
    BY <1>4, LenProperties
  <2>. QED
    BY <1>1, <2>1
<1>. QED
  BY <1>2, <1>4, <1>5 DEF IsSeq

LEMMA SeqIsSeq ==
  ASSUME NEW S, NEW s \in Seq(S)
  PROVE  IsSeq(s) /\ ToSet(s) \subseteq S
<1>1. Len(s) \in Nat /\ DOMAIN s = 1..Len(s) /\ s \in [1..Len(s) -> S]
  BY LenProperties
<1>2. s = [i \in 1..Len(s) |-> s[i]]
  BY <1>1
<1>3. IsSeq(s)
  BY <1>1, <1>2, MakeSeq
<1>. QED
  BY <1>1, <1>3 DEF ToSet

LEMMA Join ==
  ASSUME NEW s, NEW t, Dialogue(s), Dialogue(t),
         \A c \in ToSet(s), d \in ToSet(t) : ~Wrong(c, d)
  PROVE  /\ Dialogue(s \o t) /\ ToSet(s \o t) = ToSet(s) \cup ToSet(t)
         /\ Len(s \o t) = Len(s) + Len(t)
         /\ s # <<>> => s \o t # <<>> /\ Head(s \o t) = Head(s)
<1>. DEFINE S == ToSet(s) \cup ToSet(t)
            m == Len(s)
            n == Len(t)
            u == s \o t
<1>1. /\ m \in Nat /\ DOMAIN s = 1..m /\ \A i \in 1..m : s[i] \in ToSet(s)
      /\ \A c \in ToSet(s) : \E i \in 1..m : c = s[i]
      /\ n \in Nat /\ DOMAIN t = 1..n /\ \A i \in 1..n : t[i] \in ToSet(t)
      /\ \A c \in ToSet(t) : \E i \in 1..n : c = t[i]
  BY SeqFacts DEF Dialogue
<1>2. s \in Seq(S) /\ t \in Seq(S)
  <2>1. s \in [1..m -> S] /\ t \in [1..n -> S]
    <3>1. s \in [1..m -> ToSet(s)] /\ t \in [1..n -> ToSet(t)]
      BY LenProperties DEF Dialogue, IsSeq
    <3>. QED
      BY <3>1
  <2>. QED
    BY <1>1, <2>1, SeqDef
<1>3. /\ u \in Seq(S) /\ Len(u) = m + n
      /\ \A i \in 1..(m + n) : u[i] = IF i <= m THEN s[i] ELSE t[i - m]
  BY <1>2, ConcatProperties
<1>4. IsSeq(u) /\ DOMAIN u = 1..(m + n)
  BY <1>3, SeqIsSeq, SeqFacts
<1>. HIDE DEF u
<1>5. ToSet(u) = S
  <2>1. ASSUME NEW c \in ToSet(u) PROVE c \in S
    <3>1. PICK i \in 1..(m + n) : c = u[i]
      BY <1>3, <1>4, SeqFacts
    <3>. QED
      BY <1>1, <1>3, <3>1
  <2>2. ASSUME NEW c \in ToSet(s) PROVE c \in ToSet(u)
    <3>1. PICK i \in 1..m : c = s[i]
      BY <1>1
    <3>2. i \in 1..(m + n) /\ u[i] = s[i]
      BY <1>1, <1>3
    <3>. QED
      BY <1>4, <3>1, <3>2 DEF ToSet
  <2>3. ASSUME NEW c \in ToSet(t) PROVE c \in ToSet(u)
    <3>1. PICK i \in 1..n : c = t[i]
      BY <1>1
    <3>2. i + m \in 1..(m + n) /\ u[i + m] = t[i]
      <4>1. i \in Nat /\ i + m \in 1..(m + n) /\ ~(i + m <= m) /\ (i + m) - m = i
        BY <1>1
      <4>. QED
        BY <1>3, <4>1
    <3>. QED
      BY <1>4, <3>1, <3>2 DEF ToSet
  <2>. QED
    BY <2>1, <2>2, <2>3
<1>6. Orderly(u)
  <2>. SUFFICES ASSUME NEW i \in 1..(m + n), NEW j \in 1..(m + n), i < j
                PROVE  ~Wrong(u[i], u[j])
    BY <1>4 DEF Orderly
  <2>1. CASE j <= m
    <3>1. i \in 1..m /\ j \in 1..m
      BY <1>1, <2>1
    <3>2. u[i] = s[i] /\ u[j] = s[j]
      BY <1>1, <1>3, <3>1
    <3>3. ~Wrong(s[i], s[j])
      BY <1>1, <3>1 DEF Dialogue, Orderly
    <3>. QED
      BY <3>2, <3>3
  <2>2. CASE i > m
    <3>1. i - m \in 1..n /\ j - m \in 1..n /\ i - m < j - m
      BY <1>1, <2>2
    <3>2. u[i] = t[i - m] /\ u[j] = t[j - m]
      BY <1>1, <1>3, <2>2
    <3>3. ~Wrong(t[i - m], t[j - m])
      BY <1>1, <3>1 DEF Dialogue, Orderly
    <3>. QED
      BY <3>2, <3>3
  <2>3. CASE i <= m /\ j > m
    <3>1. i \in 1..m /\ j - m \in 1..n /\ u[i] = s[i] /\ u[j] = t[j - m]
      BY <1>1, <1>3, <2>3
    <3>. QED
      BY <1>1, <3>1
  <2>. QED
    BY <1>1, <2>1, <2>2, <2>3
<1>7. s # <<>> => u # <<>> /\ Head(u) = Head(s)
  <2>. SUFFICES ASSUME s # <<>> PROVE u # <<>> /\ Head(u) = Head(s)
    OBVIOUS
  <2>1. m # 0
    BY <1>2, EmptySeq
  <2>2. Head(u) = u[1] /\ Head(s) = s[1]
    BY <1>2, <1>3
  <2>3. u[1] = s[1] /\ u # <<>>
    BY <1>1, <1>3, <2>1
  <2>. QED
    BY <2>2, <2>3
<1>. QED
  BY <1>3, <1>4, <1>5, <1>6, <1>7 DEF Dialogue, u

(* What is left of a dialogue when its first command was told.             *)
LEMMA Rest1 ==
  ASSUME NEW s, Dialogue(s), s # <<>>
  PROVE  /\ Dialogue(Tail(s)) /\ ToSet(s) = {Head(s)} \cup ToSet(Tail(s))
         /\ \A d \in ToSet(Tail(s)) : ~Wrong(Head(s), d)
<1>. DEFINE n == Len(s)
            t == Tail(s)
<1>1. /\ n \in Nat /\ DOMAIN s = 1..n /\ \A i \in 1..n : s[i] \in ToSet(s)
      /\ \A c \in ToSet(s) : \E i \in 1..n : c = s[i]
  BY SeqFacts DEF Dialogue
<1>2. /\ Head(s) = s[1] /\ t \in Seq(ToSet(s)) /\ Len(t) = n - 1
      /\ \A i \in 1..(n - 1) : t[i] = s[i + 1]
  BY HeadTailProperties DEF Dialogue, IsSeq
<1>3. n # 0
  BY EmptySeq DEF Dialogue, IsSeq
<1>4. IsSeq(t) /\ DOMAIN t = 1..(n - 1) /\ (\A c \in ToSet(t) : \E i \in 1..(n - 1) : c = t[i])
  <2>1. IsSeq(t)
    BY <1>2, SeqIsSeq
  <2>. HIDE DEF t
  <2>2. DOMAIN t = 1..Len(t) /\ (\A c \in ToSet(t) : \E i \in 1..Len(t) : c = t[i])
    BY <2>1, SeqFacts
  <2>3. Len(t) = n - 1
    BY <1>2
  <2>. QED
    BY <2>1, <2>2, <2>3
<1>. HIDE DEF t
<1>5. ToSet(s) = {Head(s)} \cup ToSet(t)
  <2>1. ASSUME NEW c \in ToSet(s) PROVE c \in {Head(s)} \cup ToSet(t)
    <3>1. PICK i \in 1..n : c = s[i]
      BY <1>1
    <3>2. CASE i = 1
      BY <1>2, <3>1, <3>2
    <3>3. CASE i # 1
      <4>1. i - 1 \in 1..(n - 1) /\ t[i - 1] = s[i]
        BY <1>1, <1>2, <3>3
      <4>. QED
        BY <1>4, <3>1, <4>1 DEF ToSet
    <3>. QED
      BY <3>2, <3>3
  <2>2. Head(s) \in ToSet(s)
    BY <1>1, <1>2, <1>3
  <2>3. ToSet(t) \subseteq ToSet(s)
    BY <1>2, SeqIsSeq
  <2>. QED
    BY <2>1, <2>2, <2>3
<1>6. Orderly(t)
  <2>. SUFFICES ASSUME NEW i \in 1..(n - 1), NEW j \in 1..(n - 1), i < j
                PROVE  ~Wrong(t[i], t[j])
    BY <1>4 DEF Orderly
  <2>1. i + 1 \in 1..n /\ j + 1 \in 1..n /\ i + 1 < j + 1
    BY <1>1
  <2>2. ~Wrong(s[i + 1], s[j + 1])
    BY <1>1, <2>1 DEF Dialogue, Orderly
  <2>. QED
    BY <1>2, <2>2
<1>7. ASSUME NEW d \in ToSet(t) PROVE ~Wrong(Head(s), d)
  <2>1. PICK i \in 1..(n - 1) : d = t[i]
    BY <1>4
  <2>2. i + 1 \in 1..n /\ 1 \in 1..n /\ 1 < i + 1 /\ d = s[i + 1]
    BY <1>1, <1>2, <1>3, <2>1
  <2>3. ~Wrong(s[1], s[i + 1])
    BY <1>1, <2>2 DEF Dialogue, Orderly
  <2>. QED
    BY <1>2, <2>2, <2>3
<1>. QED
  BY <1>4, <1>5, <1>6, <1>7 DEF Dialogue, t

(* A block of a dialogue, and what is in it.                               *)
RestOf(R, m) == {<<"rest", r, m.rest>> : r \in R}
EachOf(verb, S) == {<<verb, p>> : p \in S}
Block(s, S) == Dialogue(s) /\ ToSet(s) = S

LEMMA EmptyBlock == Block(<<>>, {})
<1>1. <<>> \in Seq({}) /\ DOMAIN <<>> = {}
  OBVIOUS
<1>2. IsSeq(<<>>) /\ ToSet(<<>>) = {}
  BY <1>1, SeqIsSeq
<1>. QED
  BY <1>1, <1>2 DEF Block, Dialogue, Orderly

LEMMA OneBlock ==
  ASSUME NEW c
  PROVE  Block(<<c>>, {c})
<1>. DEFINE s == <<c>>
<1>1. s \in Seq({c}) /\ DOMAIN s = 1..1 /\ s[1] = c
  OBVIOUS
<1>. HIDE DEF s
<1>2. IsSeq(s) /\ ToSet(s) = {c}
  BY <1>1, SeqIsSeq DEF ToSet
<1>3. Orderly(s)
  BY <1>1 DEF Orderly
<1>. QED
  BY <1>2, <1>3 DEF Block, Dialogue, s

LEMMA RestBlock ==
  ASSUME NEW R, NEW registers \in Seq(R), NEW m
  PROVE  Block(Rest(registers, m), RestOf(ToSet(registers), m))
<1>. DEFINE n == Len(registers)
            s == Rest(registers, m)
<1>1. n \in Nat /\ DOMAIN registers = 1..n
  BY LenProperties
<1>2. s = [i \in 1..n |-> <<"rest", registers[i], m.rest>>]
  BY <1>1 DEF Rest
<1>3. s = [i \in 1..n |-> s[i]] /\ \A i \in 1..n : s[i] = <<"rest", registers[i], m.rest>>
  BY <1>2
<1>. HIDE DEF s
<1>4. IsSeq(s) /\ Len(s) = n /\ ToSet(s) = {s[i] : i \in 1..n} /\ DOMAIN s = 1..n
  BY <1>1, <1>3, MakeSeq, SeqFacts
<1>5. ToSet(s) = RestOf(ToSet(registers), m)
  BY <1>1, <1>3, <1>4 DEF RestOf, ToSet
<1>6. Orderly(s)
  BY <1>3, <1>4 DEF Orderly, Wrong
<1>. QED
  BY <1>4, <1>5, <1>6 DEF Block, Dialogue, s

LEMMA EachBlock ==
  ASSUME NEW R, NEW list \in Seq(R), NEW verb, verb \in {"add", "delete"}
  PROVE  Block(Each(verb, list), EachOf(verb, ToSet(list)))
<1>. DEFINE n == Len(list)
            s == Each(verb, list)
<1>1. n \in Nat /\ DOMAIN list = 1..n
  BY LenProperties
<1>2. s = [i \in 1..n |-> <<verb, list[i]>>]
  BY <1>1 DEF Each
<1>3. s = [i \in 1..n |-> s[i]] /\ \A i \in 1..n : s[i] = <<verb, list[i]>>
  BY <1>2
<1>. HIDE DEF s
<1>4. IsSeq(s) /\ Len(s) = n /\ ToSet(s) = {s[i] : i \in 1..n} /\ DOMAIN s = 1..n
  BY <1>1, <1>3, MakeSeq, SeqFacts
<1>5. ToSet(s) = EachOf(verb, ToSet(list))
  BY <1>1, <1>3, <1>4 DEF EachOf, ToSet
<1>6. Orderly(s)
  BY <1>3, <1>4 DEF Orderly, Wrong
<1>. QED
  BY <1>4, <1>5, <1>6 DEF Block, Dialogue, s

LEMMA JoinBlocks ==
  ASSUME NEW s, NEW t, NEW S, NEW T, Block(s, S), Block(t, T),
         \A c \in S, d \in T : ~Wrong(c, d)
  PROVE  Block(s \o t, S \cup T)
BY Join DEF Block

(* What may come anywhere but before a login, and after anything.          *)
Plain(c) == c[1] = "rest" \/ (c[1] = "set" /\ c[2] \in {"layer", "cast", "fixed", "slave", "ntp"})
AllPlain(S) == \A c \in S : Plain(c)

LEMMA PlainAfter ==
  ASSUME NEW s, NEW t, NEW S, NEW T, Block(s, S), Block(t, T), AllPlain(T)
  PROVE  Block(s \o t, S \cup T)
<1>1. ASSUME NEW c \in S, NEW d \in T PROVE ~Wrong(c, d)
  <2>1. Plain(d)
    BY DEF AllPlain
  <2>. QED
    BY <2>1 DEF Plain, Wrong
<1>. QED
  BY <1>1, JoinBlocks

LEMMA PlainBefore ==
  ASSUME NEW s, NEW t, NEW S, NEW T, Block(s, S), Block(t, T), AllPlain(S),
         \A d \in T : d[1] # "login"
  PROVE  Block(s \o t, S \cup T)
<1>1. ASSUME NEW c \in S, NEW d \in T PROVE ~Wrong(c, d)
  <2>1. Plain(c)
    BY DEF AllPlain
  <2>. QED
    BY <2>1 DEF Plain, Wrong
<1>. QED
  BY <1>1, JoinBlocks

(* The peers come after the rest: what comes before names no peer.         *)
NoPeer(S) == \A c \in S : c[1] \notin {"add", "remember"}
NoLine(T) == \A d \in T : d[1] # "login" /\ (d[1] = "set" => d[2] \notin {"net", "engine"})

LEMMA PeersAfter ==
  ASSUME NEW s, NEW t, NEW S, NEW T, Block(s, S), Block(t, T), NoPeer(S), NoLine(T)
  PROVE  Block(s \o t, S \cup T)
<1>1. ASSUME NEW c \in S, NEW d \in T PROVE ~Wrong(c, d)
  BY DEF NoPeer, NoLine, Wrong
<1>. QED
  BY <1>1, JoinBlocks

(* What each dialogue says.                                                *)
One(r, v) == {<<"set", r, v>>}
LoginSet == {<<"login">>}
TimingSet(m) == RestOf({"delayType"}, m) \cup One("layer", m.layer) \cup RestOf({"step"}, m)
AddressesSet(m) ==
  EachOf("delete", ToSet(m.ips)) \cup EachOf("add", ToSet(m.peers)) \cup {<<"remember", "ips", m.peers>>}
MacSet(m) == {<<"delete", m.oldMac>>} \cup {<<"remember", "oldMac", m.mac>>} \cup {<<"add", m.mac>>}
EngineSet(m) ==
  IF Routed(m) THEN One("engine", "off") \cup One("net", m.net) \cup One("engine", "on")
               ELSE One("net", m.net)
Fixing == {<<"set", "fixed", TRUE>>}
FixedSet(m) == IF Routed(m) THEN Fixing ELSE {}
MastersSet(m) ==
  IF m.cast # "uni" THEN {} ELSE IF m.layer = 3 THEN AddressesSet(m) ELSE MacSet(m)
PtpInSet(m) ==
  LoginSet \cup EngineSet(m) \cup FixedSet(m) \cup TimingSet(m)
  \cup (One("cast", m.cast) \cup MastersSet(m))
  \cup RestOf({"sync", "announce", "delayReq", "pdelayReq", "region"}, m)
  \cup RestOf({"priority1", "priority2"}, m)

LEMMA SetBlock ==
  ASSUME NEW r, NEW v
  PROVE  Block(Set(r, v), One(r, v))
BY OneBlock DEF Set, One

LEMMA PlainSets ==
  /\ \A R, m : AllPlain(RestOf(R, m))
  /\ \A r, v : r \in {"layer", "cast", "fixed", "slave", "ntp"} => AllPlain(One(r, v))
  /\ AllPlain({})
  /\ \A S, T : AllPlain(S) /\ AllPlain(T) => AllPlain(S \cup T)
<1>1. \A R, m : AllPlain(RestOf(R, m))
  BY DEF AllPlain, Plain, RestOf
<1>2. \A r, v : r \in {"layer", "cast", "fixed", "slave", "ntp"} => AllPlain(One(r, v))
  BY DEF AllPlain, Plain, One
<1>. QED
  BY <1>1, <1>2 DEF AllPlain

LEMMA TimingBlock ==
  ASSUME NEW m
  PROVE  Block(Timing(m), TimingSet(m)) /\ AllPlain(TimingSet(m))
<1>1. Block(Rest(<<"delayType">>, m), RestOf({"delayType"}, m))
  <2>1. ToSet(<<"delayType">>) = {"delayType"} /\ <<"delayType">> \in Seq({"delayType"})
    BY DEF ToSet
  <2>. QED
    BY <2>1, RestBlock
<1>2. Block(Rest(<<"step">>, m), RestOf({"step"}, m))
  <2>1. ToSet(<<"step">>) = {"step"} /\ <<"step">> \in Seq({"step"})
    BY DEF ToSet
  <2>. QED
    BY <2>1, RestBlock
<1>3. Block(Layer(m), One("layer", m.layer))
  BY SetBlock DEF Layer
<1>4. AllPlain(RestOf({"delayType"}, m)) /\ AllPlain(One("layer", m.layer)) /\ AllPlain(RestOf({"step"}, m))
  BY PlainSets
<1>5. Block(Rest(<<"delayType">>, m) \o Layer(m), RestOf({"delayType"}, m) \cup One("layer", m.layer))
  BY <1>1, <1>3, <1>4, PlainAfter
<1>6. Block(Rest(<<"delayType">>, m) \o Layer(m) \o Rest(<<"step">>, m), TimingSet(m))
  BY <1>2, <1>4, <1>5, PlainAfter DEF TimingSet
<1>. QED
  BY <1>4, <1>6, PlainSets DEF Timing, TimingSet

LEMMA ListFacts ==
  ASSUME NEW m \in Memory
  PROVE  /\ m.peers \in Seq(Peers) /\ m.ips \in Seq(Peers) /\ m.peers \in Lists
         /\ ToSet(m.peers) \subseteq Peers /\ ToSet(m.ips) \subseteq Peers
         /\ m.mac \in Macs /\ m.oldMac \in Macs \cup {"none"}
<1>1. /\ m.peers \in Lists /\ m.ips \in Lists \cup {<<>>}
      /\ m.mac \in Macs /\ m.oldMac \in Macs \cup {"none"}
  BY DEF Memory, Values
<1>2. m.peers \in Seq(Peers) /\ m.ips \in Seq(Peers)
  <2>1. Lists \subseteq Seq(Peers)
    BY PtpModulesAssumption, Zenon
  <2>2. <<>> \in Seq(Peers)
    OBVIOUS
  <2>. QED
    BY <1>1, <2>1, <2>2
<1>. QED
  BY <1>1, <1>2, SeqIsSeq

LEMMA AddressesBlock ==
  ASSUME NEW m \in Memory
  PROVE  Block(Addresses(m), AddressesSet(m))
<1>. DEFINE D == EachOf("delete", ToSet(m.ips))
            A == EachOf("add", ToSet(m.peers))
            r == <<"remember", "ips", m.peers>>
<1>1. Block(Each("delete", m.ips), D) /\ Block(Each("add", m.peers), A)
  BY ListFacts, EachBlock
<1>2. Block(<<r>>, {r})
  BY OneBlock
<1>3. Block(Each("delete", m.ips) \o Each("add", m.peers), D \cup A)
  <2>1. \A c \in D, d \in A : ~Wrong(c, d)
    BY DEF EachOf, Wrong
  <2>. HIDE DEF D, A
  <2>. QED
    BY <1>1, <2>1, JoinBlocks
<1>4. \A c \in D \cup A : ~Wrong(c, r)
  BY DEF EachOf, Wrong
<1>5. Block(Each("delete", m.ips) \o Each("add", m.peers) \o <<r>>, D \cup A \cup {r})
  <2>. HIDE DEF D, A, r
  <2>. QED
    BY <1>2, <1>3, <1>4, JoinBlocks
<1>. QED
  BY <1>5 DEF Addresses, AddressesSet

LEMMA MacBlock ==
  ASSUME NEW m, m.layer # 3
  PROVE  Block(Masters(m), MacSet(m))
<1>. DEFINE d == <<"delete", m.oldMac>>
            r == <<"remember", "oldMac", m.mac>>
            a == <<"add", m.mac>>
            t == <<d, r, a>>
<1>2. ~Wrong(d, r) /\ ~Wrong(d, a) /\ ~Wrong(r, a)
  BY DEF Wrong
<1>3. Masters(m) = t
  BY DEF Masters
<1>4. t \in Seq({d, r, a}) /\ DOMAIN t = 1..3 /\ t[1] = d /\ t[2] = r /\ t[3] = a
  <2>. HIDE DEF d, r, a
  <2>. QED
    OBVIOUS
<1>. HIDE DEF d, r, a, t
<1>5. IsSeq(t) /\ ToSet(t) = {d} \cup {r} \cup {a}
  BY <1>4, SeqIsSeq DEF ToSet
<1>6. Orderly(t)
  <2>. SUFFICES ASSUME NEW i \in 1..3, NEW j \in 1..3, i < j PROVE ~Wrong(t[i], t[j])
    BY <1>4 DEF Orderly
  <2>1. (i = 1 /\ j = 2) \/ (i = 1 /\ j = 3) \/ (i = 2 /\ j = 3)
    OBVIOUS
  <2>. QED
    BY <1>2, <1>4, <2>1
<1>. QED
  BY <1>3, <1>5, <1>6 DEF Block, Dialogue, MacSet, d, r, a

LEMMA EngineBlock ==
  ASSUME NEW m
  PROVE  Block(Engine(m), EngineSet(m))
<1>. DEFINE off == <<"set", "engine", "off">>
            net == <<"set", "net", m.net>>
            on == <<"set", "engine", "on">>
<1>1. /\ Block(Set("engine", "off"), {off}) /\ Block(Net(m), {net}) /\ Block(Set("engine", "on"), {on})
      /\ One("engine", "off") = {off} /\ One("net", m.net) = {net} /\ One("engine", "on") = {on}
  BY SetBlock DEF Net, One
<1>2. ~Wrong(off, net) /\ ~Wrong(off, on) /\ ~Wrong(net, on)
  BY DEF Wrong
<1>. HIDE DEF off, net, on
<1>3. Block(Set("engine", "off") \o Net(m), {off} \cup {net})
  BY <1>1, <1>2, JoinBlocks
<1>4. \A c \in {off} \cup {net} : ~Wrong(c, on)
  BY <1>2
<1>5. Block(Set("engine", "off") \o Net(m) \o Set("engine", "on"), {off} \cup {net} \cup {on})
  BY <1>1, <1>3, <1>4, JoinBlocks
<1>. QED
  BY <1>1, <1>5 DEF Engine, EngineSet

LEMMA FixedBlock ==
  ASSUME NEW m
  PROVE  /\ Block(IF Routed(m) THEN Set("fixed", TRUE) ELSE <<>>, FixedSet(m))
         /\ AllPlain(FixedSet(m))
<1>1. CASE Routed(m)
  <2>1. Block(Set("fixed", TRUE), Fixing)
    BY OneBlock, Zenon DEF Set, Fixing
  <2>2. AllPlain(Fixing)
    BY DEF AllPlain, Plain, Fixing
  <2>. QED
    BY <1>1, <2>1, <2>2, Zenon DEF FixedSet
<1>2. CASE ~Routed(m)
  BY <1>2, EmptyBlock, PlainSets DEF FixedSet
<1>. QED
  BY <1>1, <1>2

LEMMA CastFacts ==
  ASSUME NEW m
  PROVE  Block(Cast(m), One("cast", m.cast)) /\ AllPlain(One("cast", m.cast))
BY SetBlock, PlainSets DEF Cast

LEMMA MastersBlock ==
  ASSUME NEW m \in Memory
  PROVE  Block(IF m.cast = "uni" THEN Masters(m) ELSE <<>>, MastersSet(m))
<1>1. CASE m.cast # "uni"
  BY <1>1, EmptyBlock DEF MastersSet
<1>2. CASE m.cast = "uni" /\ m.layer = 3
  BY <1>2, AddressesBlock DEF MastersSet, Masters
<1>3. CASE m.cast = "uni" /\ m.layer # 3
  BY <1>3, MacBlock DEF MastersSet
<1>. QED
  BY <1>1, <1>2, <1>3

LEMMA NoLines ==
  ASSUME NEW m
  PROVE  NoLine(MastersSet(m)) /\ NoLine(AddressesSet(m)) /\ NoLine(One("cast", m.cast))
<1>1. NoLine(AddressesSet(m))
  BY DEF NoLine, AddressesSet, EachOf
<1>2. NoLine(MacSet(m)) /\ NoLine({})
  BY DEF NoLine, MacSet
<1>3. NoLine(One("cast", m.cast))
  BY DEF NoLine, One
<1>. QED
  BY <1>1, <1>2, <1>3 DEF MastersSet

LEMMA NoPeers ==
  /\ \A S : AllPlain(S) => NoPeer(S)
  /\ \A r, v : NoPeer(One(r, v))
  /\ NoPeer(LoginSet) /\ NoPeer({})
  /\ \A S, T : NoPeer(S) /\ NoPeer(T) => NoPeer(S \cup T)
<1>1. \A S : AllPlain(S) => NoPeer(S)
  BY DEF AllPlain, Plain, NoPeer
<1>2. \A r, v : NoPeer(One(r, v))
  BY DEF NoPeer, One
<1>3. NoPeer(LoginSet)
  BY DEF NoPeer, LoginSet
<1>. QED
  BY <1>1, <1>2, <1>3 DEF NoPeer

LEMMA PtpInBlock ==
  ASSUME NEW m \in Memory
  PROVE  Block(PtpIn(m), PtpInSet(m))
<1>1. Block(Login, LoginSet)
  BY OneBlock DEF Login, LoginSet
<1>2. Block(Login \o Engine(m), LoginSet \cup EngineSet(m))
  <2>1. \A c \in LoginSet, d \in EngineSet(m) : ~Wrong(c, d)
    BY DEF LoginSet, EngineSet, One, Wrong
  <2>. QED
    BY <1>1, <2>1, EngineBlock, JoinBlocks
<1>3. Block(Beginning(m), LoginSet \cup EngineSet(m) \cup FixedSet(m))
  BY <1>2, FixedBlock, PlainAfter DEF Beginning
<1>. DEFINE S == LoginSet \cup EngineSet(m) \cup FixedSet(m)
<1>4. Block(Beginning(m) \o Timing(m), S \cup TimingSet(m))
  BY <1>3, TimingBlock, PlainAfter
<1>5. NoPeer(S \cup TimingSet(m))
  <2>1. NoPeer(EngineSet(m))
    BY NoPeers DEF EngineSet
  <2>. QED
    BY <2>1, NoPeers, FixedBlock, TimingBlock
<1>. DEFINE C == One("cast", m.cast) \cup MastersSet(m)
<1>6. Block(Casting(m), C) /\ NoLine(C)
  <2>1. \A d \in MastersSet(m) : d[1] # "login"
    BY NoLines DEF NoLine
  <2>2. Block(Casting(m), C)
    BY <2>1, CastFacts, MastersBlock, PlainBefore DEF Casting
  <2>. QED
    BY <2>2, NoLines DEF NoLine
<1>7. Block(Beginning(m) \o Timing(m) \o Casting(m), S \cup TimingSet(m) \cup C)
  <2>. HIDE DEF S, C
  <2>. QED
    BY <1>4, <1>5, <1>6, PeersAfter
<1>8. Block(Rest(<<"sync", "announce", "delayReq", "pdelayReq", "region">>, m), RestOf({"sync", "announce", "delayReq", "pdelayReq", "region"}, m))
  <2>1. ToSet(<<"sync", "announce", "delayReq", "pdelayReq", "region">>) = {"sync", "announce", "delayReq", "pdelayReq", "region"} /\ <<"sync", "announce", "delayReq", "pdelayReq", "region">> \in Seq({"sync", "announce", "delayReq", "pdelayReq", "region"})
    BY DEF ToSet
  <2>. QED
    BY <2>1, RestBlock
<1>9. Block(Rest(<<"priority1", "priority2">>, m), RestOf({"priority1", "priority2"}, m))
  <2>1. ToSet(<<"priority1", "priority2">>) = {"priority1", "priority2"} /\ <<"priority1", "priority2">> \in Seq({"priority1", "priority2"})
    BY DEF ToSet
  <2>. QED
    BY <2>1, RestBlock
<1>. QED
  <2>. HIDE DEF S, C
  <2>. DEFINE E == RestOf({"sync", "announce", "delayReq", "pdelayReq", "region"}, m)
              P == RestOf({"priority1", "priority2"}, m)
  <2>1. Block(Ending(m), E) /\ Block(Priorities(m), P) /\ AllPlain(E) /\ AllPlain(P)
    BY <1>8, <1>9, PlainSets DEF Ending, Priorities
  <2>. HIDE DEF E, P
  <2>2. Block(Beginning(m) \o Timing(m) \o Casting(m) \o Ending(m), S \cup TimingSet(m) \cup C \cup E)
    BY <1>7, <2>1, PlainAfter
  <2>3. Block(PtpIn(m), S \cup TimingSet(m) \cup C \cup E \cup P)
    BY <2>1, <2>2, PlainAfter DEF PtpIn
  <2>. QED
    BY <2>3 DEF PtpInSet, S, C, E, P

SentNetSet(m) == One("net", m.net) \cup {<<"sent", m.net>>}
LineSet(m) ==
  IF Routed(m)
  THEN One("engine", "off") \cup SentNetSet(m) \cup One("engine", "on") \cup Fixing
  ELSE IF m.net # sent THEN SentNetSet(m) ELSE {}
RoutedSet(m) == IF Routed(m) THEN AddressesSet(m) ELSE {}
ForeignSet(m) ==
  LoginSet \cup LineSet(m) \cup TimingSet(m) \cup (One("cast", m.cast) \cup RoutedSet(m))
  \cup RestOf({"sync", "announce", "pdelayReq", "region", "priority1", "priority2"}, m)
SlaveSet(m) == IF m.cast = "uni" /\ m.peers # <<>> THEN One("slave", Head(m.peers)) ELSE {}
CnSet(m) ==
  TimingSet(m) \cup (RestOf({"ssm"}, m) \cup One("cast", m.cast) \cup SlaveSet(m))
  \cup (RestOf({"sync", "announce", "pdelayReq", "region"}, m) \cup One("net", m.net)
          \cup RestOf({"mac", "priority1", "priority2"}, m))
SignalSet(m) ==
  CASE m.signal = "none" -> One("ntp", "off") \cup One("engine", "off")
    [] m.signal = "ntp" -> One("ntp", "on") \cup One("engine", "off")
    [] OTHER -> {}
PtpfSet(m) ==
  LoginSet \cup SignalSet(m) \cup TimingSet(m) \cup RestOf({"sync", "announce", "pdelayReq"}, m)
  \cup One("net", m.net)
SatSet == Fixing \cup {<<"rest", "mode", 3>>}

LEMMA LineBlock ==
  ASSUME NEW m
  PROVE  Block(IF Routed(m)
               THEN Set("engine", "off") \o SentNet(m) \o Set("engine", "on") \o Set("fixed", TRUE)
               ELSE IF m.net # sent THEN SentNet(m) ELSE <<>>, LineSet(m))
<1>. DEFINE off == <<"set", "engine", "off">>
            net == <<"set", "net", m.net>>
            told == <<"sent", m.net>>
            on == <<"set", "engine", "on">>
            fixed == <<"set", "fixed", TRUE>>
<1>1. /\ Block(Set("engine", "off"), {off}) /\ Block(Net(m), {net}) /\ Block(Set("engine", "on"), {on})
      /\ One("engine", "off") = {off} /\ One("net", m.net) = {net} /\ One("engine", "on") = {on}
  BY SetBlock DEF Net, One
<1>2. Block(Set("fixed", TRUE), {fixed}) /\ Fixing = {fixed}
  BY OneBlock, Zenon DEF Set, Fixing
<1>3. Block(<<told>>, {told})
  BY OneBlock
<1>4. /\ ~Wrong(net, told) /\ ~Wrong(off, net) /\ ~Wrong(off, told)
      /\ ~Wrong(off, on) /\ ~Wrong(net, on) /\ ~Wrong(told, on)
  BY DEF Wrong
<1>5. Plain(fixed)
  BY DEF Plain
<1>6. SentNet(m) = Net(m) \o <<told>> /\ SentNetSet(m) = {net} \cup {told}
  BY <1>1, Zenon DEF SentNet, SentNetSet
<1>. HIDE DEF off, net, told, on, fixed
<1>7. Block(SentNet(m), {net} \cup {told})
  BY <1>1, <1>3, <1>4, <1>6, JoinBlocks
<1>8. Block(Set("engine", "off") \o SentNet(m), {off} \cup ({net} \cup {told}))
  <2>1. \A d \in {net} \cup {told} : ~Wrong(off, d)
    BY <1>4
  <2>. QED
    BY <1>1, <1>7, <2>1, JoinBlocks
<1>9. Block(Set("engine", "off") \o SentNet(m) \o Set("engine", "on"),
            {off} \cup ({net} \cup {told}) \cup {on})
  <2>1. \A c \in {off} \cup ({net} \cup {told}) : ~Wrong(c, on)
    BY <1>4
  <2>. QED
    BY <1>1, <1>8, <2>1, JoinBlocks
<1>10. Block(Set("engine", "off") \o SentNet(m) \o Set("engine", "on") \o Set("fixed", TRUE),
             {off} \cup ({net} \cup {told}) \cup {on} \cup {fixed})
  <2>1. AllPlain({fixed})
    BY <1>5 DEF AllPlain
  <2>. QED
    BY <1>2, <1>9, <2>1, PlainAfter, Zenon
<1>11. CASE Routed(m)
  BY <1>1, <1>2, <1>6, <1>10, <1>11, Zenon DEF LineSet
<1>12. CASE ~Routed(m)
  BY <1>6, <1>7, <1>12, EmptyBlock, Zenon DEF LineSet
<1>. QED
  BY <1>11, <1>12

LEMMA LineFacts ==
  ASSUME NEW m
  PROVE  \A d \in LineSet(m) : d[1] \in {"set", "sent"}
<1>1. \A d \in Fixing : d[1] = "set"
  BY DEF Fixing
<1>2. (\A d \in SentNetSet(m) : d[1] \in {"set", "sent"}) /\ (\A r, v : \A d \in One(r, v) : d[1] = "set")
  BY DEF SentNetSet, One
<1>. QED
  BY <1>1, <1>2 DEF LineSet

LEMMA ForeignBlock ==
  ASSUME NEW m \in Memory
  PROVE  Block(Foreign(m), ForeignSet(m))
<1>1. Block(Login, LoginSet)
  BY OneBlock DEF Login, LoginSet
<1>2. Block(ForeignBeginning(m), LoginSet \cup LineSet(m))
  <2>1. \A c \in LoginSet, d \in LineSet(m) : ~Wrong(c, d)
    BY LineFacts DEF LoginSet, Wrong
  <2>. QED
    BY <1>1, <2>1, LineBlock, JoinBlocks DEF ForeignBeginning
<1>. DEFINE S == LoginSet \cup LineSet(m)
<1>3. Block(ForeignBeginning(m) \o Timing(m), S \cup TimingSet(m))
  BY <1>2, TimingBlock, PlainAfter
<1>4. NoPeer(S \cup TimingSet(m))
  <2>1. NoPeer(LineSet(m))
    BY LineFacts DEF NoPeer
  <2>. QED
    BY <2>1, NoPeers, TimingBlock
<1>. DEFINE C == One("cast", m.cast) \cup RoutedSet(m)
<1>5. Block(ForeignCasting(m), C) /\ NoLine(C)
  <2>1. NoLine(RoutedSet(m)) /\ Block(IF Routed(m) THEN Addresses(m) ELSE <<>>, RoutedSet(m))
    BY NoLines, EmptyBlock, AddressesBlock DEF NoLine, RoutedSet
  <2>2. \A d \in RoutedSet(m) : d[1] # "login"
    BY <2>1 DEF NoLine
  <2>3. Block(ForeignCasting(m), C)
    BY <2>1, <2>2, CastFacts, PlainBefore DEF ForeignCasting
  <2>. QED
    BY <2>1, <2>3, NoLines DEF NoLine
<1>6. Block(ForeignBeginning(m) \o Timing(m) \o ForeignCasting(m), S \cup TimingSet(m) \cup C)
  <2>. HIDE DEF S, C
  <2>. QED
    BY <1>3, <1>4, <1>5, PeersAfter
<1>7. Block(Rest(<<"sync", "announce", "pdelayReq", "region", "priority1", "priority2">>, m), RestOf({"sync", "announce", "pdelayReq", "region", "priority1", "priority2"}, m))
  <2>1. ToSet(<<"sync", "announce", "pdelayReq", "region", "priority1", "priority2">>) = {"sync", "announce", "pdelayReq", "region", "priority1", "priority2"} /\ <<"sync", "announce", "pdelayReq", "region", "priority1", "priority2">> \in Seq({"sync", "announce", "pdelayReq", "region", "priority1", "priority2"})
    BY DEF ToSet
  <2>. QED
    BY <2>1, RestBlock
<1>. QED
  <2>. HIDE DEF S, C
  <2>. DEFINE E == RestOf({"sync", "announce", "pdelayReq", "region", "priority1", "priority2"}, m)
  <2>1. Block(ForeignEnding(m), E) /\ AllPlain(E)
    BY <1>7, PlainSets DEF ForeignEnding
  <2>. HIDE DEF E
  <2>2. Block(Foreign(m), S \cup TimingSet(m) \cup C \cup E)
    BY <1>6, <2>1, PlainAfter DEF Foreign
  <2>. QED
    BY <2>2 DEF ForeignSet, S, C, E

LEMMA CnBlock ==
  ASSUME NEW m \in Memory
  PROVE  Block(Cn(m), CnSet(m))
<1>1. Block(Rest(<<"ssm">>, m), RestOf({"ssm"}, m))
  <2>1. ToSet(<<"ssm">>) = {"ssm"} /\ <<"ssm">> \in Seq({"ssm"})
    BY DEF ToSet
  <2>. QED
    BY <2>1, RestBlock
<1>2. Block(Rest(<<"sync", "announce", "pdelayReq", "region">>, m), RestOf({"sync", "announce", "pdelayReq", "region"}, m))
  <2>1. ToSet(<<"sync", "announce", "pdelayReq", "region">>) = {"sync", "announce", "pdelayReq", "region"} /\ <<"sync", "announce", "pdelayReq", "region">> \in Seq({"sync", "announce", "pdelayReq", "region"})
    BY DEF ToSet
  <2>. QED
    BY <2>1, RestBlock
<1>3. Block(Rest(<<"mac", "priority1", "priority2">>, m), RestOf({"mac", "priority1", "priority2"}, m))
  <2>1. ToSet(<<"mac", "priority1", "priority2">>) = {"mac", "priority1", "priority2"} /\ <<"mac", "priority1", "priority2">> \in Seq({"mac", "priority1", "priority2"})
    BY DEF ToSet
  <2>. QED
    BY <2>1, RestBlock
<1>4. /\ Block(IF m.cast = "uni" /\ m.peers # <<>> THEN Set("slave", Head(m.peers)) ELSE <<>>, SlaveSet(m))
      /\ AllPlain(SlaveSet(m))
  <2>1. CASE m.cast = "uni" /\ m.peers # <<>>
    BY <2>1, SetBlock, PlainSets DEF SlaveSet
  <2>2. CASE ~(m.cast = "uni" /\ m.peers # <<>>)
    BY <2>2, EmptyBlock, PlainSets DEF SlaveSet
  <2>. QED
    BY <2>1, <2>2
<1>. DEFINE A == RestOf({"ssm"}, m)
            B == RestOf({"sync", "announce", "pdelayReq", "region"}, m)
            C == RestOf({"mac", "priority1", "priority2"}, m)
            P == A \cup One("cast", m.cast) \cup SlaveSet(m)
            N == One("net", m.net)
<1>5. AllPlain(A) /\ AllPlain(B) /\ AllPlain(C)
  BY PlainSets
<1>6. Block(Net(m), N) /\ \A d \in N : d[1] # "login"
  BY SetBlock DEF Net, One
<1>. HIDE DEF A, B, C, N
<1>7. Block(CnCasting(m), P) /\ AllPlain(P)
  <2>1. Block(Rest(<<"ssm">>, m) \o Cast(m), A \cup One("cast", m.cast))
    BY <1>1, CastFacts, PlainAfter DEF A
  <2>2. Block(CnCasting(m), P)
    BY <1>4, <2>1, PlainAfter DEF CnCasting
  <2>. QED
    BY <1>4, <1>5, <2>2, CastFacts, PlainSets
<1>8. Block(CnEnding(m), B \cup N \cup C)
  <2>1. Block(Rest(<<"sync", "announce", "pdelayReq", "region">>, m) \o Net(m), B \cup N)
    BY <1>2, <1>5, <1>6, PlainBefore DEF B
  <2>. QED
    BY <1>3, <1>5, <2>1, PlainAfter DEF C, CnEnding
<1>9. Block(Timing(m) \o CnCasting(m), TimingSet(m) \cup P) /\ AllPlain(TimingSet(m) \cup P)
  BY <1>7, TimingBlock, PlainAfter, PlainSets
<1>10. \A d \in B \cup N \cup C : d[1] # "login"
  BY <1>5, <1>6 DEF AllPlain, Plain
<1>11. Block(Cn(m), TimingSet(m) \cup P \cup (B \cup N \cup C))
  <2>. HIDE DEF P
  <2>. QED
    BY <1>8, <1>9, <1>10, PlainBefore DEF Cn
<1>. QED
  BY <1>11 DEF CnSet, A, B, C, N

LEMMA SignalBlock ==
  ASSUME NEW m
  PROVE  Block(Signal(m), SignalSet(m)) /\ \A d \in SignalSet(m) : d[1] = "set" /\ d[2] \in {"ntp", "engine"}
<1>1. ASSUME NEW v
      PROVE  /\ Block(Set("ntp", v) \o Set("engine", "off"), One("ntp", v) \cup One("engine", "off"))
             /\ \A d \in One("ntp", v) \cup One("engine", "off") : d[1] = "set" /\ d[2] \in {"ntp", "engine"}
  <2>1. \A d \in One("engine", "off") : d[1] # "login"
    BY DEF One
  <2>2. AllPlain(One("ntp", v))
    BY PlainSets
  <2>3. \A d \in One("ntp", v) \cup One("engine", "off") : d[1] = "set" /\ d[2] \in {"ntp", "engine"}
    BY DEF One
  <2>. QED
    BY <2>1, <2>2, <2>3, SetBlock, PlainBefore
<1>2. CASE m.signal = "none"
  BY <1>1, <1>2 DEF Signal, SignalSet
<1>3. CASE m.signal = "ntp"
  BY <1>1, <1>3 DEF Signal, SignalSet
<1>4. CASE m.signal \notin {"none", "ntp"}
  BY <1>4, EmptyBlock DEF Signal, SignalSet
<1>. QED
  BY <1>2, <1>3, <1>4

LEMMA PtpfBlock ==
  ASSUME NEW m \in Memory
  PROVE  Block(Ptpf(m), PtpfSet(m))
<1>1. Block(Login, LoginSet)
  BY OneBlock DEF Login, LoginSet
<1>2. Block(Login \o Signal(m), LoginSet \cup SignalSet(m))
  <2>1. \A c \in LoginSet, d \in SignalSet(m) : ~Wrong(c, d)
    BY SignalBlock DEF LoginSet, Wrong
  <2>. QED
    BY <1>1, <2>1, SignalBlock, JoinBlocks
<1>3. Block(Rest(<<"sync", "announce", "pdelayReq">>, m), RestOf({"sync", "announce", "pdelayReq"}, m))
  <2>1. ToSet(<<"sync", "announce", "pdelayReq">>) = {"sync", "announce", "pdelayReq"} /\ <<"sync", "announce", "pdelayReq">> \in Seq({"sync", "announce", "pdelayReq"})
    BY DEF ToSet
  <2>. QED
    BY <2>1, RestBlock
<1>. DEFINE S == LoginSet \cup SignalSet(m)
            E == RestOf({"sync", "announce", "pdelayReq"}, m)
            N == One("net", m.net)
<1>4. \A c \in S \cup TimingSet(m) \cup E, d \in N : ~Wrong(c, d)
  <2>1. ASSUME NEW c, c \in S \/ Plain(c) PROVE c[1] \in {"login", "set", "rest"}
    BY <2>1, SignalBlock DEF LoginSet, Plain
  <2>2. AllPlain(TimingSet(m)) /\ AllPlain(E)
    BY TimingBlock, PlainSets
  <2>3. \A d \in N : d[1] = "set" /\ d[2] = "net"
    BY DEF One
  <2>. HIDE DEF S, E, N
  <2>. QED
    BY <2>1, <2>2, <2>3 DEF AllPlain, Wrong
<1>5. Block(Net(m), N) /\ AllPlain(E)
  BY SetBlock, PlainSets DEF Net
<1>. HIDE DEF S, E, N
<1>6. Block(Login \o Signal(m) \o Timing(m), S \cup TimingSet(m))
  BY <1>2, TimingBlock, PlainAfter DEF S
<1>7. Block(Login \o Signal(m) \o Timing(m) \o Rest(<<"sync", "announce", "pdelayReq">>, m),
            S \cup TimingSet(m) \cup E)
  BY <1>3, <1>5, <1>6, PlainAfter DEF E
<1>8. Block(Ptpf(m), S \cup TimingSet(m) \cup E \cup N)
  BY <1>4, <1>5, <1>7, JoinBlocks DEF Ptpf
<1>. QED
  BY <1>8 DEF PtpfSet, S, E, N

LEMMA SatBlocks ==
  ASSUME NEW m
  PROVE  Block(mode_set(m), RestOf({"mode"}, m)) /\ Block(SetSatMode, SatSet)
<1>1. Block(Rest(<<"mode">>, m), RestOf({"mode"}, m))
  <2>1. ToSet(<<"mode">>) = {"mode"} /\ <<"mode">> \in Seq({"mode"})
    BY DEF ToSet
  <2>. QED
    BY <2>1, RestBlock
<1>. DEFINE c == <<"set", "fixed", TRUE>>
            d == <<"rest", "mode", 3>>
<1>2. Block(Set("fixed", TRUE), {c}) /\ Fixing = {c} /\ Block(<<d>>, {d})
  BY OneBlock, Zenon DEF Set, Fixing
<1>3. ~Wrong(c, d)
  BY DEF Wrong
<1>4. SetSatMode = Set("fixed", TRUE) \o <<d>> /\ SatSet = {c} \cup {d}
  BY <1>2, Zenon DEF SetSatMode, SatSet
<1>. HIDE DEF c, d
<1>5. Block(SetSatMode, SatSet)
  BY <1>2, <1>3, <1>4, JoinBlocks
<1>. QED
  BY <1>1, <1>5 DEF mode_set

SetRegisters == {"engine", "ntp", "fixed", "net", "layer", "cast", "slave"}
HasPeers == kind \in {"ptpIn", "foreign"}
GivenBy(m) == IF m.layer = 3 THEN ToSet(m.peers) ELSE {m.mac}

(* What a dialogue for the settings m may tell.                            *)
SetFits(m, r, v) ==
  /\ r \in SetRegisters
  /\ r = "net" => v = m.net
  /\ r = "layer" => v = m.layer
  /\ r = "cast" => v = m.cast
  /\ r = "slave" => v = Head(m.peers)
  /\ r = "fixed" => v = TRUE
  /\ r = "engine" => /\ v \in {"on", "off"}
                     /\ HasPeers => Routed(m)
                     /\ ~HasPeers => v = "off"
  /\ r = "ntp" => v = IF m.signal = "ntp" THEN "on" ELSE "off"
RememberFits(m, f, v) ==
  \/ f = "ips" /\ v = m.peers /\ m.layer = 3
  \/ f = "oldMac" /\ v = m.mac /\ m.layer = 2
Fits(m, c) ==
  \/ c[1] = "login" /\ NeedsLogin
  \/ c[1] = "set" /\ SetFits(m, c[2], c[3])
  \/ c[1] = "rest" /\ c[2] \in RestRegisters /\ c[3] = m.rest
  \/ c[1] = "add" /\ HasPeers /\ c[2] \in GivenBy(m)
  \/ c[1] = "delete" /\ HasPeers
  \/ c[1] = "remember" /\ HasPeers /\ RememberFits(m, c[2], c[3])
  \/ c[1] = "sent" /\ kind = "foreign" /\ c[2] = m.net
AllFit(m, S) == \A c \in S : Fits(m, c)

IssueSet(m) ==
  CASE kind = "ptpIn" -> PtpInSet(m) [] kind = "foreign" -> ForeignSet(m) [] kind = "cn" -> CnSet(m)
    [] kind = "ptpf" -> PtpfSet(m) [] OTHER -> RestOf({"mode"}, m)

LEMMA IssueBlock ==
  ASSUME kind \in Kinds, NEW m \in Memory
  PROVE  Block(IssueConfig(m), IssueSet(m))
BY PtpInBlock, ForeignBlock, CnBlock, PtpfBlock, SatBlocks DEF IssueConfig, IssueSet, Kinds

LEMMA UnionFits ==
  ASSUME NEW m
  PROVE  /\ AllFit(m, {}) /\ \A S, T : AllFit(m, S) /\ AllFit(m, T) => AllFit(m, S \cup T)
         /\ \A R : (\A r \in R : r \in RestRegisters) => AllFit(m, RestOf(R, m))
         /\ \A r, v : SetFits(m, r, v) => AllFit(m, One(r, v))
         /\ AllFit(m, Fixing)
<1>1. AllFit(m, {}) /\ \A S, T : AllFit(m, S) /\ AllFit(m, T) => AllFit(m, S \cup T)
  BY DEF AllFit
<1>2. \A R : (\A r \in R : r \in RestRegisters) => AllFit(m, RestOf(R, m))
  BY DEF AllFit, Fits, RestOf
<1>3. ASSUME NEW r, NEW v, SetFits(m, r, v) PROVE AllFit(m, One(r, v))
  <2>. SUFFICES Fits(m, <<"set", r, v>>)
    BY DEF AllFit, One
  <2>. QED
    BY <1>3 DEF Fits
<1>4. AllFit(m, Fixing)
  <2>1. SetFits(m, "fixed", TRUE)
    BY Zenon DEF SetFits, SetRegisters
  <2>. SUFFICES Fits(m, <<"set", "fixed", TRUE>>)
    BY Zenon DEF AllFit, Fixing
  <2>. QED
    BY <2>1 DEF Fits
<1>. QED
  BY <1>1, <1>2, <1>3, <1>4

LEMMA PartsFit ==
  ASSUME NEW m \in Memory
  PROVE  /\ AllFit(m, TimingSet(m)) /\ AllFit(m, One("cast", m.cast)) /\ AllFit(m, One("net", m.net))
         /\ NeedsLogin => AllFit(m, LoginSet)
         /\ HasPeers => AllFit(m, EngineSet(m)) /\ AllFit(m, MastersSet(m)) /\ AllFit(m, RoutedSet(m))
         /\ AllFit(m, FixedSet(m))
         /\ kind = "foreign" => AllFit(m, LineSet(m))
         /\ AllFit(m, SlaveSet(m))
         /\ ~HasPeers => AllFit(m, SignalSet(m))
<1>1. SetFits(m, "layer", m.layer) /\ SetFits(m, "cast", m.cast) /\ SetFits(m, "net", m.net)
      /\ SetFits(m, "slave", Head(m.peers))
  BY DEF SetFits, SetRegisters
<1>2. AllFit(m, TimingSet(m))
  BY <1>1, UnionFits DEF TimingSet, RestRegisters
<1>3. NeedsLogin => AllFit(m, LoginSet)
  BY DEF AllFit, LoginSet, Fits
<1>4. ASSUME HasPeers, Routed(m)
      PROVE  AllFit(m, One("engine", "off")) /\ AllFit(m, One("engine", "on"))
  BY <1>4, UnionFits DEF SetFits, SetRegisters
<1>5. HasPeers => AllFit(m, EngineSet(m))
  BY <1>1, <1>4, UnionFits DEF EngineSet
<1>6. ASSUME HasPeers, m.layer = 3 PROVE AllFit(m, AddressesSet(m))
  BY <1>6 DEF AllFit, AddressesSet, EachOf, Fits, RememberFits, GivenBy
<1>7. ASSUME HasPeers, m.layer # 3 PROVE AllFit(m, MacSet(m))
  <2>1. m.layer = 2
    BY <1>7 DEF Memory, Values
  <2>. QED
    BY <1>7, <2>1 DEF AllFit, MacSet, Fits, RememberFits, GivenBy
<1>8. HasPeers => AllFit(m, MastersSet(m)) /\ AllFit(m, RoutedSet(m))
  BY <1>6, <1>7, UnionFits DEF MastersSet, RoutedSet, Routed
<1>9. AllFit(m, FixedSet(m)) /\ AllFit(m, SlaveSet(m))
  BY <1>1, UnionFits DEF FixedSet, SlaveSet
<1>10. ASSUME kind = "foreign" PROVE AllFit(m, LineSet(m))
  <2>1. AllFit(m, SentNetSet(m))
    <3>1. AllFit(m, {<<"sent", m.net>>})
      BY <1>10 DEF AllFit, Fits
    <3>. QED
      BY <1>1, <3>1, UnionFits DEF SentNetSet
  <2>2. HasPeers
    BY <1>10 DEF HasPeers
  <2>. QED
    BY <1>4, <2>1, <2>2, UnionFits DEF LineSet
<1>11. ASSUME ~HasPeers PROVE AllFit(m, SignalSet(m))
  <2>1. AllFit(m, One("engine", "off"))
    BY <1>11, UnionFits DEF SetFits, SetRegisters
  <2>2. m.signal = "ntp" => AllFit(m, One("ntp", "on"))
    BY UnionFits DEF SetFits, SetRegisters
  <2>3. m.signal # "ntp" => AllFit(m, One("ntp", "off"))
    BY UnionFits DEF SetFits, SetRegisters
  <2>. QED
    BY <2>1, <2>2, <2>3, UnionFits DEF SignalSet
<1>. QED
  BY <1>1, <1>2, <1>3, <1>5, <1>8, <1>9, <1>10, <1>11, UnionFits

LEMMA IssueFits ==
  ASSUME kind \in Kinds, NEW m \in Memory
  PROVE  AllFit(m, IssueSet(m))
<1>. USE UnionFits, PartsFit
<1>1. CASE kind = "ptpIn"
  <2>1. AllFit(m, RestOf({"sync", "announce", "delayReq", "pdelayReq", "region"}, m))
        /\ AllFit(m, RestOf({"priority1", "priority2"}, m))
    BY DEF RestRegisters
  <2>. QED
    BY <1>1, <2>1 DEF IssueSet, PtpInSet, HasPeers, NeedsLogin
<1>2. CASE kind = "foreign"
  <2>1. AllFit(m, RestOf({"sync", "announce", "pdelayReq", "region", "priority1", "priority2"}, m))
    BY DEF RestRegisters
  <2>. QED
    BY <1>2, <2>1 DEF IssueSet, ForeignSet, HasPeers, NeedsLogin
<1>3. CASE kind = "cn"
  <2>1. /\ AllFit(m, RestOf({"ssm"}, m)) /\ AllFit(m, RestOf({"sync", "announce", "pdelayReq", "region"}, m))
        /\ AllFit(m, RestOf({"mac", "priority1", "priority2"}, m))
    BY DEF RestRegisters
  <2>. QED
    BY <1>3, <2>1 DEF IssueSet, CnSet
<1>4. CASE kind = "ptpf"
  <2>1. AllFit(m, RestOf({"sync", "announce", "pdelayReq"}, m))
    BY DEF RestRegisters
  <2>. QED
    BY <1>4, <2>1 DEF IssueSet, PtpfSet, HasPeers, NeedsLogin
<1>5. CASE kind = "sat"
  BY <1>5 DEF IssueSet, RestRegisters
<1>. QED
  BY <1>1, <1>2, <1>3, <1>4, <1>5 DEF Kinds

Registers == {"login", "engine", "ntp", "fixed", "net", "layer", "cast", "peers", "slave", "rest", "class"}
ModuleType(h) ==
  /\ DOMAIN h = Registers /\ DOMAIN h.rest = RestRegisters
  /\ h.login \in BOOLEAN /\ h.engine \in {"on", "off"} /\ h.peers \subseteq Peerage
SameBut(h, g, r) == \A f \in Registers \ {r} : h[f] = g[f]
Hearing(h) == NeedsLogin => h.login

(* What a module makes of a command: h is g after it.                      *)
Effect(h, g, c) ==
  /\ DOMAIN h = Registers /\ DOMAIN h.rest = RestRegisters
  /\ c[1] = "login" => h.login = TRUE /\ SameBut(h, g, "login")
  /\ c[1] # "login" /\ ~Hearing(g) => h = g
  /\ c[1] = "set" /\ Hearing(g) => h[c[2]] = c[3] /\ SameBut(h, g, c[2])
  /\ c[1] = "rest" /\ Hearing(g) /\ c[2] \in RestRegisters =>
       h.rest[c[2]] = c[3] /\ (\A r \in RestRegisters \ {c[2]} : h.rest[r] = g.rest[r])
  /\ c[1] = "rest" /\ Hearing(g) => SameBut(h, g, "rest")
  /\ c[1] = "add" /\ Hearing(g) => h.peers = g.peers \cup {c[2]} /\ SameBut(h, g, "peers")
  /\ c[1] = "delete" /\ Hearing(g) => h.peers = g.peers \ {c[2]} /\ SameBut(h, g, "peers")
  /\ c[1] \notin {"login", "set", "rest", "add", "delete"} => h = g

LEMMA HearsFacts ==
  ASSUME NEW g, DOMAIN g = Registers, DOMAIN g.rest = RestRegisters, NEW c,
         c[1] = "set" => c[2] \in SetRegisters,
         NEW h, h = Hears(g, c)
  PROVE  Effect(h, g, c)
<1>. USE DEF Effect
<1>1. CASE c[1] # "login" /\ ~Hearing(g)
  <2>1. h = g
    BY <1>1 DEF Hears, Hearing
  <2>. QED
    BY <1>1, <2>1
<1>2. CASE c[1] = "login"
  <2>1. h = [g EXCEPT !.login = TRUE]
    BY <1>2 DEF Hears
  <2>. QED
    BY <1>2, <2>1 DEF SameBut, Registers
<1>3. CASE c[1] = "set" /\ Hearing(g)
  <2>1. h = [g EXCEPT ![c[2]] = c[3]]
    BY <1>3 DEF Hears, Hearing
  <2>2. DOMAIN h = Registers
    BY <2>1
  <2>3. c[2] \in Registers /\ c[2] # "rest"
    BY <1>3 DEF SetRegisters, Registers
  <2>4. h[c[2]] = c[3] /\ SameBut(h, g, c[2])
    BY <2>1, <2>3 DEF SameBut
  <2>5. h.rest = g.rest
    BY <2>3, <2>4 DEF SameBut, Registers
  <2>. QED
    BY <1>3, <2>2, <2>4, <2>5
<1>4. CASE c[1] = "rest" /\ Hearing(g)
  <2>1. h = [g EXCEPT !.rest[c[2]] = c[3]]
    BY <1>4 DEF Hears, Hearing
  <2>2. h.rest = [g.rest EXCEPT ![c[2]] = c[3]]
    BY <2>1 DEF Registers
  <2>3. DOMAIN h = Registers /\ SameBut(h, g, "rest")
    BY <2>1 DEF SameBut
  <2>. QED
    BY <1>4, <2>2, <2>3
<1>5. CASE c[1] = "add" /\ Hearing(g)
  <2>1. h = [g EXCEPT !.peers = @ \cup {c[2]}]
    BY <1>5 DEF Hears, Hearing
  <2>. QED
    BY <1>5, <2>1 DEF SameBut, Registers
<1>6. CASE c[1] = "delete" /\ Hearing(g)
  <2>1. h = [g EXCEPT !.peers = @ \ {c[2]}]
    BY <1>6 DEF Hears, Hearing
  <2>. QED
    BY <1>6, <2>1 DEF SameBut, Registers
<1>7. CASE c[1] \notin {"login", "set", "rest", "add", "delete"} /\ Hearing(g)
  <2>1. h = g
    BY <1>7 DEF Hears, Hearing
  <2>. QED
    BY <1>7, <2>1
<1>. QED
  BY <1>1, <1>2, <1>3, <1>4, <1>5, <1>6, <1>7

-----------------------------------------------------------------------------
(* Settings, with and without the peers told before.                       *)

SameSettings(m, n) ==
  /\ m.layer = n.layer /\ m.cast = n.cast /\ m.net = n.net /\ m.peers = n.peers
  /\ m.mac = n.mac /\ m.rest = n.rest /\ m.signal = n.signal

LEMMA FieldFacts ==
  /\ Fields = {"layer", "cast", "net", "peers", "mac", "rest", "signal"}
  /\ \A m : Kept(m) = [layer |-> m.layer, cast |-> m.cast, net |-> m.net, peers |-> m.peers,
                       mac |-> m.mac, rest |-> m.rest, signal |-> m.signal]
<1>1. Fields = {"layer", "cast", "net", "peers", "mac", "rest", "signal"}
  BY DEF Fields, Values
<1>. QED
  BY <1>1 DEF Kept

LEMMA KeptFacts ==
  ASSUME NEW m \in Memory
  PROVE  Kept(m) \in Settings /\ SameSettings(Kept(m), m)
<1>1. Kept(m) = [layer |-> m.layer, cast |-> m.cast, net |-> m.net, peers |-> m.peers,
                 mac |-> m.mac, rest |-> m.rest, signal |-> m.signal]
  BY FieldFacts
<1>. QED
  BY <1>1 DEF Settings, Memory, SameSettings

LEMMA ReadFacts ==
  ASSUME NEW s \in Settings
  PROVE  /\ Read(s) \in Memory /\ Kept(Read(s)) = s /\ SameSettings(Read(s), s)
         /\ Read(s).ips = <<>> /\ Read(s).oldMac = "none"
<1>1. Read(s) \in Memory /\ SameSettings(Read(s), s) /\ Read(s).ips = <<>> /\ Read(s).oldMac = "none"
  BY DEF Read, Memory, Settings, SameSettings
<1>2. Kept(Read(s)) = [layer |-> s.layer, cast |-> s.cast, net |-> s.net, peers |-> s.peers,
                       mac |-> s.mac, rest |-> s.rest, signal |-> s.signal]
  BY <1>1, FieldFacts DEF SameSettings
<1>3. s = [layer |-> s.layer, cast |-> s.cast, net |-> s.net, peers |-> s.peers,
           mac |-> s.mac, rest |-> s.rest, signal |-> s.signal]
  BY DEF Settings
<1>. QED
  BY <1>1, <1>2, <1>3

LEMMA SameKept ==
  ASSUME NEW m \in Memory, NEW n \in Memory, SameSettings(m, n)
  PROVE  Kept(m) = Kept(n)
BY FieldFacts DEF SameSettings

LEMMA OtherSetting ==
  ASSUME NEW m \in Memory, NEW f \in Fields, NEW v \in Values[f]
  PROVE  [m EXCEPT ![f] = v] \in Memory
<1>1. CASE f = "layer"
  BY <1>1 DEF Memory, Values
<1>2. CASE f = "cast"
  BY <1>2 DEF Memory, Values
<1>3. CASE f = "net"
  BY <1>3 DEF Memory, Values
<1>4. CASE f = "peers"
  BY <1>4 DEF Memory, Values
<1>5. CASE f = "mac"
  BY <1>5 DEF Memory, Values
<1>6. CASE f = "rest"
  BY <1>6 DEF Memory, Values
<1>7. CASE f = "signal"
  BY <1>7 DEF Memory, Values
<1>. QED
  BY <1>1, <1>2, <1>3, <1>4, <1>5, <1>6, <1>7, FieldFacts

(* What is remembered is not a setting.                                    *)
LEMMA RememberFacts ==
  ASSUME NEW m \in Memory, NEW f, NEW v, RememberFits(m, f, v)
  PROVE  LET n == [m EXCEPT ![f] = v] IN
         /\ n \in Memory /\ SameSettings(n, m)
         /\ f = "ips" => n.ips = m.peers /\ n.oldMac = m.oldMac
         /\ f = "oldMac" => n.oldMac = m.mac /\ n.ips = m.ips
<1>1. CASE f = "ips"
  BY <1>1 DEF Memory, SameSettings, RememberFits, Values
<1>2. CASE f = "oldMac"
  BY <1>2 DEF Memory, SameSettings, RememberFits, Values
<1>. QED
  BY <1>1, <1>2 DEF RememberFits

LEMMA FitsStays ==
  ASSUME kind' = kind, NEW m, NEW c, Fits(m, c), SameSettings(mem', m)
  PROVE  Fits(mem, c)'
<1>1. HasPeers' = HasPeers /\ NeedsLogin' = NeedsLogin /\ Routed(mem)' = Routed(m)
      /\ GivenBy(mem)' = GivenBy(m)
  BY DEF HasPeers, NeedsLogin, Routed, GivenBy, SameSettings
<1>2. c[1] = "set" /\ SetFits(m, c[2], c[3]) => c[1] = "set" /\ SetFits(mem, c[2], c[3])'
  BY <1>1 DEF SetFits, SameSettings
<1>3. RememberFits(m, c[2], c[3]) => RememberFits(mem, c[2], c[3])'
  BY DEF RememberFits, SameSettings
<1>. QED
  BY <1>1, <1>2, <1>3 DEF Fits, SameSettings

-----------------------------------------------------------------------------
(* Types, places and dialogues.                                            *)

SlotTypes == kind \in Kinds /\ board \in BOOLEAN /\ world \in Worlds /\ kind \in world.kinds
DaemonTypes ==
  /\ at \in Points /\ power \in BOOLEAN /\ old \in BOOLEAN /\ bid \in BOOLEAN
  /\ mem \in Memory /\ sent \in Values.net \cup {Factory}
  /\ message \in BOOLEAN /\ notified \in BOOLEAN
GivenTypes ==
  /\ saved \in Settings \cup {Nothing}
  /\ shown \in [bid : BOOLEAN, set : Memory] /\ queue \in Seq(Memory)
HistoryTypes ==
  /\ hist \in History /\ used \in [commands : Nat, swaps : Nat, kills : Nat, ticks : Nat]
Types == SlotTypes /\ ModuleType(module) /\ DaemonTypes /\ GivenTypes /\ HistoryTypes

(* Where the daemon may be with what in its hands.                         *)
Places ==
  /\ at \notin {"greet", "issue"} => todo = <<>>
  /\ message => at = "issue" /\ ~power
  /\ power => at \in {"look", "greet", "push", "issue"}
  /\ at = "issue" /\ ~message => bid
  /\ at = "greet" => kind = "sat" /\ power /\ bid
  /\ at = "off" => sent = Factory /\ ~power /\ ~bid /\ ~old
  /\ power /\ old => saved # Nothing
  /\ at \in {"look", "share", "class"} /\ ~power => old = bid
  /\ ~IsInput /\ (at \in {"msgs", "drain"} \/ message) => old = bid
  /\ ~board => module = NewModule
  /\ at = "issue" /\ saved # Nothing => saved = Kept(mem)

(* A dialogue is in order, and tells what the settings are.                *)
CommandsFit ==
  /\ at = "issue" => Dialogue(todo) /\ AllFit(mem, ToSet(todo))
  /\ at = "greet" => Dialogue(todo) /\ \A c \in ToSet(todo) : c \in SatSet

Structure == Types /\ Places /\ CommandsFit

LEMMA TypesGive ==
  ASSUME Types, QualityTypeOK
  PROVE  TypeOK
<1>1. DOMAIN NewModule = Registers
  BY DEF NewModule, Registers
<1>2. SlotTypes /\ ModuleType(module) /\ DaemonTypes /\ GivenTypes /\ HistoryTypes
  BY DEF Types
<1>. QED
  BY <1>1, <1>2, Zenon DEF TypeOK, SlotTypes, ModuleType, DaemonTypes, GivenTypes, HistoryTypes

LEMMA QualityStays ==
  ASSUME QInv, [Next]_vars
  PROVE  QInv'
<1>1. CASE UNCHANGED qualityVars
  BY <1>1, QuietFacts
<1>2. CASE TellClass
  BY <1>2, RoundFacts DEF TellClass
<1>3. CASE Dies
  BY <1>3, EndFacts DEF Dies
<1>4. CASE Clock \/ Alarm \/ Source
  BY <1>4, AroundFacts DEF Clock, Alarm, Source
<1>5. CASE Thread
  BY <1>5, SecondFacts DEF Thread
<1>6. CASE \/ Start \/ ReadBidFromFpga \/ Notify \/ Drained \/ Store \/ PushPull
           \/ Send \/ Issued \/ Share \/ Swap \/ Command \/ UNCHANGED vars
  <2>1. UNCHANGED qualityVars
    BY <1>6 DEF Start, ReadBidFromFpga, Notify, Drained, Store, PushPull, Send, Issued, Share,
      Swap, Command, vars
  <2>. QED
    BY <1>1, <2>1
<1>. QED
  BY <1>2, <1>3, <1>4, <1>5, <1>6 DEF Next, Daemon

LEMMA QualityBegins ==
  ASSUME Init
  PROVE  QInv
<1>1. world.found \in [clock : ClockStates, source : Sources, grade : Grades]
  BY PtpModulesAssumption DEF Init
<1>. QED
  BY <1>1, QualityStart DEF Init

(* Two rounds of d-output after the last change the 2 Mbit output has the  *)
(* grade of the table (dout_issue.c: SetOutBoardClockClass).               *)
THEOREM GradeFollows == Spec => []SsmFollows
<1>1. Init => QInv
  BY QualityBegins
<1>2. QInv /\ [Next]_vars => QInv'
  BY QualityStays
<1>3. QInv => SsmFollows
  BY QualityHolds
<1>. QED
  BY <1>1, <1>2, <1>3, PTL DEF Spec

(* The system gets the time of a clock in free run at most once            *)
(* (dout_time.c: thread_start_routine).                                    *)
THEOREM FreeRunSetsOnce == Spec => []FreeTimeOnce
<1>1. Init => QInv
  BY QualityBegins
<1>2. QInv /\ [Next]_vars => QInv'
  BY QualityStays
<1>3. QInv => FreeTimeOnce
  BY QualityHolds
<1>. QED
  BY <1>1, <1>2, <1>3, PTL DEF Spec

LEMMA NewFacts ==
  /\ ModuleType(NewModule) /\ NewModule.login = FALSE /\ NewModule.engine = "on"
  /\ NewModule.peers = {}
BY DEF ModuleType, NewModule, Registers, RestRegisters

LEMMA StructureBegins ==
  ASSUME Init
  PROVE  Structure
<1>1. SlotTypes
  BY PtpModulesAssumption DEF Init, SlotTypes
<1>2. Default \in Settings /\ world.saved \subseteq Settings \cup {Nothing}
  BY PtpModulesAssumption DEF Init, Nothing
<1>3. Read(Default) \in Memory
  BY <1>2, ReadFacts
<1>4. DaemonTypes
  BY <1>3 DEF Init, DaemonTypes, Points
<1>5. GivenTypes
  <2>1. shown \in [bid : BOOLEAN, set : Memory]
    BY <1>3 DEF Init
  <2>. QED
    BY <1>2, <2>1 DEF Init, GivenTypes
<1>6. HistoryTypes
  <2>1. hist \in History
    BY DEF Init, NoHistory, History
  <2>. QED
    BY <2>1 DEF Init, HistoryTypes
<1>7. Places
  BY DEF Init, Places
<1>8. CommandsFit
  BY DEF Init, CommandsFit
<1>. QED
  BY <1>1, <1>4, <1>5, <1>6, <1>7, <1>8, NewFacts DEF Structure, Types, Init

(* What stays when its variables do.                                       *)
LEMMA TypesStay ==
  ASSUME Types
  PROVE  /\ UNCHANGED <<kind, board, world>> => SlotTypes'
         /\ UNCHANGED module => ModuleType(module)'
         /\ UNCHANGED <<saved, shown, queue>> => GivenTypes'
         /\ UNCHANGED <<hist, used>> => HistoryTypes'
<1>1. UNCHANGED <<kind, board, world>> => SlotTypes'
  BY DEF Types, SlotTypes
<1>2. UNCHANGED module => ModuleType(module)'
  BY DEF Types, ModuleType
<1>3. UNCHANGED <<saved, shown, queue>> => GivenTypes'
  BY DEF Types, GivenTypes
<1>4. UNCHANGED <<hist, used>> => HistoryTypes'
  BY DEF Types, HistoryTypes
<1>. QED
  BY <1>1, <1>2, <1>3, <1>4

(* The daemon has nothing to tell.                                         *)
LEMMA NothingToTell ==
  ASSUME at' \notin {"greet", "issue"}
  PROVE  CommandsFit'
BY DEF CommandsFit

(* The dialogue for settings begins.                                       *)
LEMMA BeginsDialogue ==
  ASSUME kind \in Kinds, kind' = kind, NEW m \in Memory, mem' = m, Issue(m)
  PROVE  CommandsFit' /\ Block(todo', IssueSet(m)) /\ at' = "issue"
<1>1. Block(IssueConfig(m), IssueSet(m)) /\ AllFit(m, IssueSet(m))
  BY IssueBlock, IssueFits
<1>2. todo' = IssueConfig(m) /\ at' = "issue"
  BY DEF Issue
<1>3. SameSettings(mem', m)
  BY DEF SameSettings
<1>4. \A c \in IssueSet(m) : Fits(mem, c)'
  BY <1>1, <1>3, FitsStays DEF AllFit
<1>5. Dialogue(todo)' /\ ToSet(todo)' = IssueSet(m)
  BY <1>1, <1>2 DEF Block, Dialogue, Orderly, IsSeq
<1>6. AllFit(mem, ToSet(todo))'
  BY <1>4, <1>5 DEF AllFit
<1>. QED
  BY <1>1, <1>2, <1>5, <1>6 DEF CommandsFit

LEMMA StartStructure ==
  ASSUME Structure, Start
  PROVE  Structure'
<1>1. SlotTypes' /\ ModuleType(module)' /\ GivenTypes'
  BY TypesStay DEF Structure, Start, slotVars, givenVars
<1>2. HistoryTypes'
  <2>1. hist' \in History
    <3>1. hist \in History
      BY DEF Structure, Types, HistoryTypes
    <3>. QED
      BY <3>1 DEF Start, History
  <2>. QED
    BY <2>1 DEF Start, HistoryTypes, Structure, Types
<1>3. DaemonTypes'
  BY DEF Start, Structure, Types, DaemonTypes, Points
<1>4. Places'
  BY DEF Start, Structure, Places, slotVars, IsInput, givenVars
<1>. QED
  BY <1>1, <1>2, <1>3, <1>4, NothingToTell DEF Structure, Types, Start

LEMMA LookStructure ==
  ASSUME Structure, ReadBidFromFpga
  PROVE  Structure'
<1>1. /\ SlotTypes' /\ ModuleType(module)' /\ GivenTypes' /\ HistoryTypes'
      /\ UNCHANGED <<kind, board, module, power, old, mem, sent, message, notified, saved>>
      /\ bid' = board
  BY TypesStay DEF Structure, ReadBidFromFpga, slotVars, givenVars
<1>2. \/ at' = "greet" /\ kind = "sat" /\ power /\ board /\ todo' = SetSatMode
      \/ at' = "msgs" /\ IsInput /\ ~power /\ todo' = <<>>
      \/ at' = "push" /\ (~IsInput \/ power) /\ todo' = <<>>
  BY DEF ReadBidFromFpga, IsInput
<1>3. DaemonTypes'
  BY <1>1, <1>2 DEF Structure, Types, SlotTypes, DaemonTypes, Points
<1>4. Places'
  BY <1>1, <1>2 DEF Structure, Places, IsInput, ReadBidFromFpga
<1>5. CommandsFit'
  <2>1. CASE at' = "greet"
    <3>1. Block(todo', SatSet)
      BY <1>2, <2>1, SatBlocks
    <3>2. Dialogue(todo)' /\ \A c \in ToSet(todo') : c \in SatSet
      BY <3>1 DEF Block, Dialogue, Orderly, IsSeq
    <3>. QED
      BY <2>1, <3>2 DEF CommandsFit
  <2>2. CASE at' # "greet"
    BY <1>2, <2>2, NothingToTell
  <2>. QED
    BY <2>1, <2>2
<1>. QED
  BY <1>1, <1>3, <1>4, <1>5 DEF Structure, Types

LEMMA NotifyStructure ==
  ASSUME Structure, Notify \/ Drained
  PROVE  Structure'
<1>1. /\ SlotTypes' /\ ModuleType(module)' /\ GivenTypes' /\ HistoryTypes'
      /\ UNCHANGED <<kind, board, module, power, old, bid, mem, sent, todo, message, saved>>
      /\ notified' \in BOOLEAN
  BY TypesStay DEF Structure, Notify, Drained, slotVars, givenVars, Types, DaemonTypes
<1>2. at \in {"msgs", "drain"} /\ at' \in {"drain", "push", "look"} /\ (at' = "push" <=> at' # "drain" /\ IsInput)
  BY DEF Notify, Drained, AfterMessages
<1>3. DaemonTypes'
  BY <1>1, <1>2 DEF Structure, Types, DaemonTypes, Points
<1>4. Places'
  BY <1>1, <1>2 DEF Structure, Places, IsInput
<1>5. CommandsFit'
  BY <1>2, NothingToTell
<1>. QED
  BY <1>1, <1>3, <1>4, <1>5 DEF Structure, Types

LEMMA StoreStructure ==
  ASSUME Structure, Store
  PROVE  Structure'
<1>. DEFINE m == Head(queue)
<1>1. /\ at = "drain" /\ queue # <<>> /\ mem' = m /\ Issue(m) /\ Show(m)
      /\ saved' = IF saved = Nothing THEN Nothing ELSE Kept(m)
      /\ hist' = [hist EXCEPT !.unseen = FALSE, !.left = @ \cup Lost(mem, m)]
      /\ queue' = Tail(queue) /\ message' = TRUE
      /\ UNCHANGED <<kind, board, module, power, old, bid, sent, notified, used, world>>
  BY DEF Store, slotVars
<1>2. /\ SlotTypes /\ ModuleType(module) /\ DaemonTypes /\ GivenTypes /\ HistoryTypes
      /\ Places /\ CommandsFit
  BY DEF Structure, Types
<1>3. m \in Memory /\ queue' \in Seq(Memory)
  BY <1>1, <1>2 DEF GivenTypes
<1>. HIDE DEF m
<1>4. SlotTypes' /\ ModuleType(module)'
  BY <1>1, TypesStay DEF Structure
<1>5. CommandsFit' /\ at' = "issue"
  BY <1>1, <1>2, <1>3, BeginsDialogue DEF SlotTypes
<1>6. DaemonTypes'
  BY <1>1, <1>2, <1>3, <1>5 DEF DaemonTypes, Points
<1>7. GivenTypes'
  <2>1. saved' \in Settings \cup {Nothing}
    BY <1>1, <1>3, KeptFacts
  <2>2. shown' \in [bid : BOOLEAN, set : Memory]
    BY <1>1, <1>2, <1>3 DEF Show, GivenTypes, DaemonTypes
  <2>. QED
    BY <1>3, <2>1, <2>2 DEF GivenTypes
<1>8. HistoryTypes'
  <2>1. Lost(mem, m) \subseteq Peerage
    <3>1. ToSet(mem.ips) \subseteq Peers /\ mem.oldMac \in Macs \cup {"none"}
      BY <1>2, ListFacts DEF DaemonTypes
    <3>. QED
      BY <3>1 DEF Lost, Peerage
  <2>2. hist' \in History
    BY <1>1, <1>2, <2>1 DEF HistoryTypes, History
  <2>. QED
    BY <1>1, <1>2, <2>2 DEF HistoryTypes
<1>9. Places'
  BY <1>1, <1>2, <1>5 DEF Places, IsInput
<1>. QED
  BY <1>4, <1>5, <1>6, <1>7, <1>8, <1>9 DEF Structure, Types

LEMMA StructureParts ==
  ASSUME Structure
  PROVE  /\ SlotTypes /\ ModuleType(module) /\ DaemonTypes /\ GivenTypes /\ HistoryTypes
         /\ Places /\ CommandsFit
BY DEF Structure, Types

LEMMA PushFacts ==
  ASSUME Structure, PushPull
  PROVE  /\ at = "push" /\ todo = <<>> /\ ~message
         /\ UNCHANGED <<kind, board, module, bid, sent, message, notified, queue, used, world>>
         /\ Pulled \/ Pushed \/ PoweredUp \/ Same
BY DEF Structure, Places, PushPull, slotVars

LEMMA EndPushFacts ==
  ASSUME EndPush
  PROVE  /\ old' = bid /\ power' = FALSE /\ at' \in {"look", "share", "msgs", "class"}
         /\ at' \in {"look", "share"} <=> IsInput
BY DEF EndPush

LEMMA QuietPushStructure ==
  ASSUME Structure, PushPull, Pulled \/ Same
  PROVE  Structure'
<1>1. /\ at = "push" /\ todo = <<>> /\ ~message
      /\ UNCHANGED <<kind, board, module, bid, sent, message, notified, queue, used, world>>
      /\ Pulled \/ Pushed \/ PoweredUp \/ Same
  BY PushFacts
<1>2. UNCHANGED <<mem, todo, hist>> /\ EndPush /\ (saved' = Nothing \/ saved' = saved)
  BY DEF Pulled, Same
<1>3. /\ old' = bid /\ power' = FALSE /\ at' \in {"look", "share", "msgs", "class"}
      /\ at' \in {"look", "share"} <=> IsInput
  BY <1>2, EndPushFacts
<1>4. /\ SlotTypes /\ ModuleType(module) /\ DaemonTypes /\ GivenTypes /\ HistoryTypes
      /\ Places /\ CommandsFit
  BY StructureParts
<1>5. SlotTypes' /\ ModuleType(module)' /\ HistoryTypes'
  BY <1>1, <1>2, TypesStay DEF Structure
<1>6. DaemonTypes'
  BY <1>1, <1>2, <1>3, <1>4 DEF DaemonTypes, Points
<1>7. GivenTypes'
  <2>1. shown' \in [bid : BOOLEAN, set : Memory]
    BY <1>4 DEF Pulled, Same, Show, GivenTypes, DaemonTypes
  <2>. QED
    BY <1>1, <1>2, <1>4, <2>1 DEF GivenTypes
<1>8. Places'
  <2>1. /\ at' \notin {"greet", "issue", "off", "drain"} /\ todo' = <<>> /\ ~message' /\ ~power'
    BY <1>1, <1>2, <1>3
  <2>2. old' = bid'
    BY <1>1, <1>3
  <2>3. ~board' => module' = NewModule
    BY <1>1, <1>4 DEF Places
  <2>. QED
    BY <2>1, <2>2, <2>3 DEF Places
<1>9. CommandsFit'
  BY <1>3, NothingToTell
<1>. QED
  BY <1>5, <1>6, <1>7, <1>8, <1>9 DEF Structure, Types

(* What a board begins with that is pushed, or there when the daemon is.   *)
LEMMA ConfiguresFacts ==
  ASSUME Structure, PushPull, Pushed \/ PoweredUp
  PROVE  \E s \in Settings :
           /\ saved' = s /\ Configures(Read(s)) /\ bid
           /\ Pushed => s = Default /\ ~old
           /\ PoweredUp => s = saved /\ saved # Nothing /\ old /\ power
<1>1. CASE Pushed
  <2>1. Default \in Settings
    BY PtpModulesAssumption
  <2>. QED
    BY <1>1, <2>1 DEF Pushed, PoweredUp
<1>2. CASE PoweredUp
  <2>1. saved # Nothing /\ saved \in Settings /\ saved' = saved
    BY <1>2, StructureParts DEF PoweredUp, Places, GivenTypes
  <2>. QED
    BY <1>2, <2>1 DEF PoweredUp, Pushed
<1>. QED
  BY <1>1, <1>2

LEMMA ConfiguresStructure ==
  ASSUME Structure, PushPull, Pushed \/ PoweredUp
  PROVE  Structure'
<1>1. /\ at = "push" /\ todo = <<>> /\ ~message
      /\ UNCHANGED <<kind, board, module, bid, sent, message, notified, queue, used, world>>
  BY PushFacts
<1>2. PICK s \in Settings :
        /\ saved' = s /\ Configures(Read(s)) /\ bid
        /\ Pushed => s = Default /\ ~old
        /\ PoweredUp => s = saved /\ saved # Nothing /\ old /\ power
  BY ConfiguresFacts
<1>. DEFINE m == Read(s)
<1>3. m \in Memory /\ Kept(m) = s
  BY ReadFacts
<1>4. /\ mem' = m /\ Issue(m) /\ Show(m)
      /\ hist' = [hist EXCEPT !.unseen = FALSE, !.left = @ \cup module.peers]
      /\ UNCHANGED <<power, old>>
  BY <1>2 DEF Configures
<1>. HIDE DEF m
<1>5. /\ SlotTypes /\ ModuleType(module) /\ DaemonTypes /\ GivenTypes /\ HistoryTypes
      /\ Places /\ CommandsFit
  BY StructureParts
<1>6. SlotTypes' /\ ModuleType(module)'
  BY <1>1, TypesStay DEF Structure
<1>7. CommandsFit' /\ at' = "issue"
  BY <1>1, <1>3, <1>4, <1>5, BeginsDialogue DEF SlotTypes
<1>8. DaemonTypes'
  BY <1>1, <1>3, <1>4, <1>5, <1>7 DEF DaemonTypes, Points
<1>9. GivenTypes'
  <2>1. shown' \in [bid : BOOLEAN, set : Memory]
    BY <1>3, <1>4, <1>5 DEF Show, GivenTypes, DaemonTypes
  <2>. QED
    BY <1>1, <1>2, <1>5, <2>1 DEF GivenTypes
<1>10. HistoryTypes'
  <2>1. hist' \in History
    BY <1>4, <1>5 DEF HistoryTypes, History, ModuleType
  <2>. QED
    BY <1>1, <1>5, <2>1 DEF HistoryTypes
<1>11. Places'
  <2>1. /\ at' = "issue" /\ ~message' /\ bid' /\ saved' = Kept(mem')
        /\ power' = power /\ old' = old
    BY <1>1, <1>2, <1>3, <1>4, <1>7
  <2>2. power /\ old => saved' # Nothing
    BY <1>2
  <2>3. ~board' => module' = NewModule
    BY <1>1, <1>5 DEF Places
  <2>. QED
    BY <2>1, <2>2, <2>3 DEF Places
<1>. QED
  BY <1>6, <1>7, <1>8, <1>9, <1>10, <1>11 DEF Structure, Types

(* A command that is told: which one, and what is left of the dialogue.    *)
LEMMA SatCommands ==
  \A d \in SatSet : (d[1] = "set" /\ d[2] = "fixed" /\ d[3] = TRUE) \/ d[1] = "rest"
<1>1. ASSUME NEW d \in Fixing PROVE d[1] = "set" /\ d[2] = "fixed" /\ d[3] = TRUE
  <2>1. d = <<"set", "fixed", TRUE>>
    BY Zenon DEF Fixing
  <2>. QED
    BY <2>1
<1>2. ASSUME NEW d \in {<<"rest", "mode", 3>>} PROVE d[1] = "rest"
  OBVIOUS
<1>. QED
  BY <1>1, <1>2 DEF SatSet

LEMMA SendFacts ==
  ASSUME Structure, Send
  PROVE  LET c == Head(todo) IN
         /\ at \in {"greet", "issue"} /\ Dialogue(todo) /\ todo # <<>>
         /\ Dialogue(todo') /\ ToSet(todo) = {c} \cup ToSet(todo')
         /\ \A d \in ToSet(todo') : ~Wrong(c, d)
         /\ at = "issue" => Fits(mem, c)
         /\ at = "greet" => c \in SatSet
         /\ c[1] = "set" => c[2] \in SetRegisters
         /\ module' = Written(c)
         /\ UNCHANGED <<kind, board, at, power, old, bid, message, notified, saved, shown, queue,
                        hist, used, world, qualityVars>>
         /\ SameSettings(mem', mem) /\ mem' \in Memory
         /\ c[1] = "remember" => at = "issue" /\ mem' = [mem EXCEPT ![c[2]] = c[3]]
         /\ c[1] # "remember" => mem' = mem
         /\ sent' = IF c[1] = "sent" THEN c[2] ELSE sent
<1>. DEFINE c == Head(todo)
<1>1. /\ at \in {"greet", "issue"} /\ todo # <<>> /\ todo' = Tail(todo) /\ module' = Written(c)
      /\ mem' = IF c[1] = "remember" THEN [mem EXCEPT ![c[2]] = c[3]] ELSE mem
      /\ sent' = IF c[1] = "sent" THEN c[2] ELSE sent
      /\ UNCHANGED <<kind, board, at, power, old, bid, message, notified, saved, shown, queue,
                     hist, used, world, qualityVars>>
  BY DEF Send, givenVars
<1>2. Dialogue(todo) /\ (at = "issue" => AllFit(mem, ToSet(todo)))
      /\ (at = "greet" => \A d \in ToSet(todo) : d \in SatSet)
  BY <1>1, StructureParts DEF CommandsFit
<1>3. /\ Dialogue(todo') /\ ToSet(todo) = {c} \cup ToSet(todo')
      /\ \A d \in ToSet(todo') : ~Wrong(c, d)
  BY <1>1, <1>2, Rest1
<1>4. (at = "issue" => Fits(mem, c)) /\ (at = "greet" => c \in SatSet)
  BY <1>2, <1>3 DEF AllFit
<1>. HIDE DEF c
<1>5. \A d \in SatSet : (d[1] = "set" /\ d[2] = "fixed") \/ d[1] = "rest"
  BY SatCommands
<1>6. c[1] = "set" => c[2] \in SetRegisters
  BY <1>1, <1>4, <1>5 DEF Fits, SetFits, SetRegisters
<1>7. c[1] = "remember" => at = "issue" /\ RememberFits(mem, c[2], c[3])
  BY <1>1, <1>4, <1>5 DEF Fits
<1>8. SameSettings(mem', mem) /\ mem' \in Memory
  <2>1. mem \in Memory
    BY StructureParts DEF DaemonTypes
  <2>2. CASE c[1] = "remember"
    BY <1>1, <1>7, <2>1, <2>2, RememberFacts
  <2>3. CASE c[1] # "remember"
    BY <1>1, <2>1, <2>3 DEF SameSettings
  <2>. QED
    BY <2>2, <2>3
<1>. QED
  BY <1>1, <1>2, <1>3, <1>4, <1>6, <1>7, <1>8 DEF c

LEMMA SendStructure ==
  ASSUME Structure, Send
  PROVE  Structure'
<1>. DEFINE c == Head(todo)
<1>1. /\ at \in {"greet", "issue"} /\ Dialogue(todo') /\ ToSet(todo) = {c} \cup ToSet(todo')
      /\ at = "issue" => Fits(mem, c)
      /\ c[1] = "set" => c[2] \in SetRegisters
      /\ module' = Written(c)
      /\ UNCHANGED <<kind, board, at, power, old, bid, message, notified, saved, shown, queue,
                     hist, used, world, qualityVars>>
      /\ SameSettings(mem', mem) /\ mem' \in Memory
      /\ sent' = IF c[1] = "sent" THEN c[2] ELSE sent
      /\ at = "greet" => c \in SatSet
  BY SendFacts
<1>. HIDE DEF c
<1>2. /\ SlotTypes /\ ModuleType(module) /\ DaemonTypes /\ GivenTypes /\ HistoryTypes
      /\ Places /\ CommandsFit
  BY StructureParts
<1>3. SlotTypes' /\ GivenTypes' /\ HistoryTypes'
  BY <1>1, TypesStay DEF Structure
<1>4. \A d \in SatSet : (d[1] = "set" /\ d[2] = "fixed") \/ d[1] = "rest"
  BY SatCommands
<1>5. /\ c[1] = "set" /\ c[2] = "engine" => c[3] \in {"on", "off"}
      /\ c[1] = "add" => c[2] \in Peerage
  <2>1. c[1] = "add" => c[2] \in GivenBy(mem)
    BY <1>1, <1>4 DEF Fits
  <2>2. \A p \in GivenBy(mem) : p \in Peerage
    BY <1>2, ListFacts DEF DaemonTypes, GivenBy, Peerage
  <2>. QED
    BY <1>1, <1>4, <2>1, <2>2 DEF Fits, SetFits
<1>6. ModuleType(module)'
  <2>. DEFINE h == Hears(module, c)
  <2>1. DOMAIN module = Registers /\ DOMAIN module.rest = RestRegisters
    BY <1>2 DEF ModuleType
  <2>0. h = Hears(module, c)
    OBVIOUS
  <2>. HIDE DEF h
  <2>2. Effect(h, module, c)
    <3>1. c[1] = "set" => c[2] \in SetRegisters
      BY <1>1
    <3>. QED
      BY <2>0, <2>1, <3>1, HearsFacts
  <2>3. h.login = TRUE \/ h.login = module.login
    BY <1>1, <2>2 DEF Effect, SameBut, Registers, SetRegisters
  <2>4. h.engine \in {"on", "off"}
    BY <1>1, <1>2, <1>5, <2>2 DEF Effect, SameBut, Registers, SetRegisters, ModuleType
  <2>5. h.peers = module.peers \/ (c[1] = "add" /\ h.peers = module.peers \cup {c[2]})
        \/ h.peers = module.peers \ {c[2]}
    BY <1>1, <2>2 DEF Effect, SameBut, Registers, SetRegisters
  <2>6. h.peers \subseteq Peerage
    BY <1>2, <1>5, <2>5 DEF ModuleType
  <2>7. h.login \in BOOLEAN
    BY <1>2, <2>3 DEF ModuleType
  <2>8. ModuleType(h)
    BY <2>2, <2>4, <2>6, <2>7 DEF Effect, ModuleType
  <2>9. module' = h \/ module' = module
    BY <1>1 DEF Written, h
  <2>. QED
    BY <1>2, <2>8, <2>9
<1>7. DaemonTypes'
  <2>1. sent' \in Values.net \cup {Factory}
    <3>1. c[1] = "sent" => c[2] = mem.net
      BY <1>1, <1>4 DEF Fits
    <3>2. mem.net \in Values.net
      BY <1>2 DEF DaemonTypes, Memory
    <3>. QED
      BY <1>1, <1>2, <3>1, <3>2 DEF DaemonTypes
  <2>. QED
    BY <1>1, <1>2, <2>1 DEF DaemonTypes
<1>8. Places'
  <2>1. Kept(mem') = Kept(mem)
    BY <1>1, <1>2, SameKept DEF DaemonTypes
  <2>2. ~board => module' = module
    BY <1>1 DEF Written
  <2>. QED
    BY <1>1, <1>2, <2>1, <2>2 DEF Places, IsInput
<1>9. CommandsFit'
  <2>1. CASE at = "issue"
    <3>1. AllFit(mem, ToSet(todo))
      BY <1>2, <2>1 DEF CommandsFit
    <3>2. \A d \in ToSet(todo') : Fits(mem, d)'
      BY <1>1, <3>1, FitsStays DEF AllFit
    <3>3. AllFit(mem, ToSet(todo))'
      BY <3>2 DEF AllFit
    <3>4. Dialogue(todo)'
      BY <1>1 DEF Dialogue, Orderly, IsSeq
    <3>. QED
      BY <1>1, <2>1, <3>3, <3>4 DEF CommandsFit
  <2>2. CASE at = "greet"
    <3>1. \A d \in ToSet(todo') : d \in SatSet
      BY <1>1, <1>2, <2>2 DEF CommandsFit
    <3>2. Dialogue(todo)'
      BY <1>1 DEF Dialogue, Orderly, IsSeq
    <3>. QED
      BY <1>1, <2>2, <3>1, <3>2 DEF CommandsFit
  <2>. QED
    BY <1>1, <2>1, <2>2
<1>. QED
  BY <1>3, <1>6, <1>7, <1>8, <1>9 DEF Structure, Types

LEMMA IssuedFacts ==
  ASSUME Structure, Issued
  PROVE  /\ at \in {"greet", "issue"} /\ todo = <<>> /\ todo' = <<>> /\ message' = FALSE
         /\ UNCHANGED <<kind, board, module, bid, mem, sent, notified, saved, queue, hist, used, world>>
         /\ \/ at = "greet" /\ at' = "push" /\ UNCHANGED <<old, power, shown>>
            \/ at = "issue" /\ message /\ at' = "drain" /\ Show(mem) /\ UNCHANGED <<old, power>>
            \/ at = "issue" /\ ~message /\ EndPush /\ Show(mem)
<1>1. /\ at \in {"greet", "issue"} /\ todo = <<>> /\ todo' = <<>> /\ message' = FALSE
      /\ UNCHANGED <<kind, board, module, bid, mem, sent, notified, saved, queue, hist, used, world>>
  BY DEF Issued, slotVars
<1>2. CASE at = "greet"
  BY <1>1, <1>2 DEF Issued
<1>3. CASE at = "issue" /\ message
  BY <1>1, <1>3 DEF Issued
<1>4. CASE at = "issue" /\ ~message
  BY <1>1, <1>4 DEF Issued
<1>. QED
  BY <1>1, <1>2, <1>3, <1>4

LEMMA IssuedStructure ==
  ASSUME Structure, Issued
  PROVE  Structure'
<1>1. /\ at \in {"greet", "issue"} /\ todo = <<>> /\ todo' = <<>> /\ message' = FALSE
      /\ UNCHANGED <<kind, board, module, bid, mem, sent, notified, saved, queue, hist, used, world>>
      /\ \/ at = "greet" /\ at' = "push" /\ UNCHANGED <<old, power, shown>>
         \/ at = "issue" /\ message /\ at' = "drain" /\ Show(mem) /\ UNCHANGED <<old, power>>
         \/ at = "issue" /\ ~message /\ EndPush /\ Show(mem)
  BY IssuedFacts
<1>2. /\ SlotTypes /\ ModuleType(module) /\ DaemonTypes /\ GivenTypes /\ HistoryTypes
      /\ Places /\ CommandsFit
  BY StructureParts
<1>3. SlotTypes' /\ ModuleType(module)' /\ HistoryTypes'
  BY <1>1, TypesStay DEF Structure
<1>4. GivenTypes'
  <2>1. shown' \in [bid : BOOLEAN, set : Memory]
    BY <1>1, <1>2 DEF Show, GivenTypes, DaemonTypes
  <2>. QED
    BY <1>1, <1>2, <2>1 DEF GivenTypes
<1>5. CASE at = "greet" /\ at' = "push" /\ UNCHANGED <<old, power, shown>>
  <2>1. DaemonTypes'
    BY <1>1, <1>2, <1>5 DEF DaemonTypes, Points
  <2>2. Places'
    BY <1>1, <1>2, <1>5 DEF Places
  <2>. QED
    BY <1>3, <1>4, <1>5, <2>1, <2>2, NothingToTell DEF Structure, Types
<1>6. CASE at = "issue" /\ message /\ at' = "drain" /\ UNCHANGED <<old, power>>
  <2>1. DaemonTypes'
    BY <1>1, <1>2, <1>6 DEF DaemonTypes, Points
  <2>2. Places'
    BY <1>1, <1>2, <1>6 DEF Places, IsInput
  <2>. QED
    BY <1>3, <1>4, <1>6, <2>1, <2>2, NothingToTell DEF Structure, Types
<1>7. CASE EndPush
  <2>1. /\ old' = bid /\ power' = FALSE /\ at' \in {"look", "share", "msgs", "class"}
        /\ at' \in {"look", "share"} <=> IsInput
    BY <1>7, EndPushFacts
  <2>2. DaemonTypes'
    BY <1>1, <1>2, <2>1 DEF DaemonTypes, Points
  <2>3. Places'
    <3>1. /\ at' \notin {"greet", "issue", "off", "drain"} /\ todo' = <<>> /\ ~message' /\ ~power'
          /\ old' = bid'
      BY <1>1, <2>1
    <3>2. ~board' => module' = NewModule
      BY <1>1, <1>2 DEF Places
    <3>. QED
      BY <3>1, <3>2 DEF Places
  <2>. QED
    BY <1>3, <1>4, <2>1, <2>2, <2>3, NothingToTell DEF Structure, Types
<1>. QED
  BY <1>1, <1>5, <1>6, <1>7

LEMMA ShareStructure ==
  ASSUME Structure, Share
  PROVE  Structure'
<1>1. /\ at = "share" /\ at' = "look" /\ shown' = [bid |-> bid, set |-> mem]
      /\ UNCHANGED <<kind, board, module, power, old, bid, mem, sent, todo, message, notified, saved,
                     queue, hist, used, world>>
  BY DEF Share, slotVars
<1>2. /\ SlotTypes /\ ModuleType(module) /\ DaemonTypes /\ GivenTypes /\ HistoryTypes
      /\ Places /\ CommandsFit
  BY StructureParts
<1>3. SlotTypes' /\ ModuleType(module)' /\ HistoryTypes'
  BY <1>1, TypesStay DEF Structure
<1>4. GivenTypes'
  BY <1>1, <1>2 DEF GivenTypes, DaemonTypes
<1>5. DaemonTypes'
  BY <1>1, <1>2 DEF DaemonTypes, Points
<1>6. Places'
  BY <1>1, <1>2 DEF Places, IsInput
<1>. QED
  BY <1>1, <1>3, <1>4, <1>5, <1>6, NothingToTell DEF Structure, Types

LEMMA TellClassFacts ==
  ASSUME Structure, TellClass
  PROVE  /\ at = "class" /\ at' = "msgs"
         /\ UNCHANGED <<kind, board, power, old, bid, mem, sent, todo, message, notified, saved,
                        shown, queue, used, world>>
         /\ SameBut(module', module, "class") /\ DOMAIN module' = Registers
         /\ hist' \in History /\ hist'.unseen = hist.unseen /\ hist'.later = hist.later
         /\ hist'.left = hist.left /\ hist'.halted = hist.halted
         /\ IF HearsClass /\ board THEN module'.class = Class(known) /\ hist'.heard = TRUE
                                   ELSE UNCHANGED <<module, hist>>
<1>1. ModuleType(module) /\ hist \in History
  BY StructureParts DEF HistoryTypes
<1>2. CASE HearsClass /\ board
  <2>1. /\ module' = [module EXCEPT !.class = Class(known)]
        /\ hist' = [hist EXCEPT !.heard = TRUE]
    BY <1>2 DEF TellClass
  <2>2. module'.class = Class(known) /\ SameBut(module', module, "class") /\ DOMAIN module' = Registers
    BY <1>1, <2>1 DEF ModuleType, SameBut, Registers
  <2>3. /\ hist' \in History /\ hist'.unseen = hist.unseen /\ hist'.later = hist.later
        /\ hist'.left = hist.left /\ hist'.halted = hist.halted /\ hist'.heard = TRUE
    BY <1>1, <2>1 DEF History
  <2>. QED
    BY <1>2, <2>2, <2>3 DEF TellClass, givenVars
<1>3. CASE ~(HearsClass /\ board)
  <2>1. UNCHANGED <<module, hist>>
    BY <1>3 DEF TellClass
  <2>. QED
    BY <1>1, <1>3, <2>1 DEF TellClass, givenVars, ModuleType, SameBut
<1>. QED
  BY <1>2, <1>3

LEMMA TellClassStructure ==
  ASSUME Structure, TellClass
  PROVE  Structure'
<1>1. /\ at = "class" /\ at' = "msgs"
      /\ UNCHANGED <<kind, board, power, old, bid, mem, sent, todo, message, notified, saved,
                     shown, queue, used, world>>
      /\ SameBut(module', module, "class") /\ DOMAIN module' = Registers
      /\ hist' \in History
      /\ ~board => UNCHANGED module
  BY TellClassFacts
<1>2. /\ SlotTypes /\ ModuleType(module) /\ DaemonTypes /\ GivenTypes /\ HistoryTypes
      /\ Places /\ CommandsFit
  BY StructureParts
<1>3. SlotTypes' /\ GivenTypes'
  BY <1>1, TypesStay DEF Structure
<1>4. ModuleType(module)'
  BY <1>1, <1>2 DEF ModuleType, SameBut, Registers
<1>5. HistoryTypes' /\ DaemonTypes'
  BY <1>1, <1>2 DEF HistoryTypes, DaemonTypes, Points
<1>6. Places'
  BY <1>1, <1>2 DEF Places, IsInput
<1>. QED
  BY <1>1, <1>3, <1>4, <1>5, <1>6, NothingToTell DEF Structure, Types

LEMMA DiesStructure ==
  ASSUME Structure, Dies
  PROVE  Structure'
<1>1. /\ at' = "off" /\ power' = FALSE /\ old' = FALSE /\ bid' = FALSE
      /\ mem' = Read(Default) /\ sent' = Factory /\ todo' = <<>>
      /\ message' = FALSE /\ notified' = FALSE
      /\ used' = [used EXCEPT !.kills = @ + 1]
      /\ UNCHANGED <<kind, board, module, saved, shown, queue, world>>
  BY DEF Dies, slotVars, givenVars
<1>2. /\ SlotTypes /\ ModuleType(module) /\ DaemonTypes /\ GivenTypes /\ HistoryTypes
      /\ Places /\ CommandsFit
  BY StructureParts
<1>3. SlotTypes' /\ ModuleType(module)' /\ GivenTypes'
  BY <1>1, TypesStay DEF Structure
<1>4. DaemonTypes'
  <2>1. Read(Default) \in Memory
    BY PtpModulesAssumption, ReadFacts
  <2>. QED
    BY <1>1, <2>1 DEF DaemonTypes, Points
<1>5. HistoryTypes'
  <2>1. hist \in History /\ used \in [commands : Nat, swaps : Nat, kills : Nat, ticks : Nat]
    BY <1>2 DEF HistoryTypes
  <2>2. used' \in [commands : Nat, swaps : Nat, kills : Nat, ticks : Nat]
    BY <1>1, <2>1
  <2>. DEFINE b == hist.halted \/ (module.engine = "off" /\ saved = Nothing)
  <2>3. hist' = [hist EXCEPT !.halted = b] /\ b \in BOOLEAN
    BY DEF Dies
  <2>. HIDE DEF b
  <2>4. hist' \in History
    BY <2>1, <2>3 DEF History
  <2>. QED
    BY <2>2, <2>4 DEF HistoryTypes
<1>6. Places'
  <2>1. ~board' => module' = NewModule
    BY <1>1, <1>2 DEF Places
  <2>. QED
    BY <1>1, <2>1 DEF Places
<1>. QED
  BY <1>1, <1>3, <1>4, <1>5, <1>6, NothingToTell DEF Structure, Types

LEMMA SwapFacts ==
  ASSUME Structure, Swap
  PROVE  /\ board' = ~board /\ module' = NewModule
         /\ hist' \in History
         /\ hist'.unseen = (at # "off" /\ bid /\ board') /\ hist'.later = (at # "off")
         /\ hist'.left = {} /\ hist'.heard = FALSE /\ hist'.halted = FALSE
         /\ used' \in [commands : Nat, swaps : Nat, kills : Nat, ticks : Nat]
         /\ UNCHANGED <<kind, at, power, old, bid, mem, sent, todo, message, notified, saved, shown,
                        queue, world, qualityVars>>
<1>. DEFINE u == at # "off" /\ bid /\ board'
            l == at # "off"
<1>1. hist' = [NoHistory EXCEPT !.unseen = u, !.later = l] /\ u \in BOOLEAN /\ l \in BOOLEAN
  BY StructureParts DEF Swap, DaemonTypes
<1>2. hist'.unseen = u /\ hist'.later = l /\ hist' \in History
      /\ hist'.left = {} /\ hist'.heard = FALSE /\ hist'.halted = FALSE
  <2>. HIDE DEF u, l
  <2>. QED
    BY <1>1 DEF NoHistory, History
<1>3. used' \in [commands : Nat, swaps : Nat, kills : Nat, ticks : Nat]
  BY StructureParts DEF Swap, HistoryTypes
<1>. QED
  BY <1>2, <1>3 DEF Swap, daemonVars, givenVars

LEMMA SwapStructure ==
  ASSUME Structure, Swap
  PROVE  Structure'
<1>1. /\ board' = ~board /\ module' = NewModule
      /\ hist' \in History
      /\ used' \in [commands : Nat, swaps : Nat, kills : Nat, ticks : Nat]
      /\ UNCHANGED <<kind, at, power, old, bid, mem, sent, todo, message, notified, saved, shown,
                     queue, world>>
  BY SwapFacts
<1>2. /\ SlotTypes /\ ModuleType(module) /\ DaemonTypes /\ GivenTypes /\ HistoryTypes
      /\ Places /\ CommandsFit
  BY StructureParts
<1>3. SlotTypes' /\ GivenTypes' /\ ModuleType(module)'
  <2>1. SlotTypes'
    BY <1>1, <1>2 DEF SlotTypes
  <2>2. ModuleType(module)'
    BY <1>1, NewFacts DEF ModuleType
  <2>. QED
    BY <1>1, <2>1, <2>2, TypesStay DEF Structure
<1>4. HistoryTypes' /\ DaemonTypes'
  BY <1>1, <1>2 DEF HistoryTypes, DaemonTypes
<1>5. Places'
  BY <1>1, <1>2 DEF Places, IsInput
<1>6. CommandsFit'
  <2>1. ASSUME at = "issue" PROVE Dialogue(todo)' /\ AllFit(mem, ToSet(todo))'
    <3>1. Dialogue(todo) /\ AllFit(mem, ToSet(todo)) /\ SameSettings(mem', mem)
      BY <1>1, <1>2, <2>1 DEF CommandsFit, SameSettings
    <3>2. \A d \in ToSet(todo') : Fits(mem, d)'
      BY <1>1, <3>1, FitsStays DEF AllFit
    <3>. QED
      BY <1>1, <3>1, <3>2 DEF AllFit, Dialogue, Orderly, IsSeq
  <2>2. ASSUME at = "greet" PROVE Dialogue(todo)' /\ \A c \in ToSet(todo') : c \in SatSet
    BY <1>1, <1>2, <2>2 DEF CommandsFit, Dialogue, Orderly, IsSeq
  <2>. QED
    BY <1>1, <2>1, <2>2 DEF CommandsFit
<1>. QED
  BY <1>1, <1>3, <1>4, <1>5, <1>6 DEF Structure, Types

(* Nothing of the daemon changes but what is notified.                     *)
LEMMA OutsideStructure ==
  ASSUME Structure, GivenTypes', HistoryTypes', notified' \in BOOLEAN,
         UNCHANGED <<kind, board, module, world, at, power, old, bid, mem, sent, todo, message, saved>>
  PROVE  Structure'
<1>2. /\ SlotTypes /\ ModuleType(module) /\ DaemonTypes /\ Places /\ CommandsFit
  BY StructureParts
<1>3. SlotTypes' /\ ModuleType(module)'
  BY TypesStay DEF Structure
<1>4. DaemonTypes'
  BY <1>2 DEF DaemonTypes
<1>5. Places'
  BY <1>2 DEF Places, IsInput
<1>6. CommandsFit'
  <2>1. ASSUME at = "issue" PROVE Dialogue(todo)' /\ AllFit(mem, ToSet(todo))'
    <3>1. Dialogue(todo) /\ AllFit(mem, ToSet(todo)) /\ SameSettings(mem', mem)
      BY <1>2, <2>1 DEF CommandsFit, SameSettings
    <3>2. \A d \in ToSet(todo') : Fits(mem, d)'
      BY <3>1, FitsStays DEF AllFit
    <3>. QED
      BY <3>1, <3>2 DEF AllFit, Dialogue, Orderly, IsSeq
  <2>2. ASSUME at = "greet" PROVE Dialogue(todo)' /\ \A c \in ToSet(todo') : c \in SatSet
    BY <1>2, <2>2 DEF CommandsFit, Dialogue, Orderly, IsSeq
  <2>. QED
    BY <2>1, <2>2 DEF CommandsFit
<1>. QED
  BY <1>3, <1>4, <1>5, <1>6 DEF Structure, Types

LEMMA CommandStructure ==
  ASSUME Structure, Command
  PROVE  Structure'
<1>1. GivenTypes /\ HistoryTypes
  BY StructureParts
<1>2. PICK f \in FieldsOf : \E v \in Values[f] \ {shown.set[f]} :
        queue' = Append(queue, [shown.set EXCEPT ![f] = v])
  BY DEF Command
<1>3. f \in Fields
  BY <1>2, FieldFacts DEF FieldsOf
<1>4. PICK v \in Values[f] : queue' = Append(queue, [shown.set EXCEPT ![f] = v])
  BY <1>2
<1>5. queue' \in Seq(Memory)
  <2>1. [shown.set EXCEPT ![f] = v] \in Memory
    BY <1>1, <1>3, <1>4, OtherSetting DEF GivenTypes
  <2>. QED
    BY <1>1, <1>4, <2>1 DEF GivenTypes
<1>6. UNCHANGED <<kind, board, module, world, at, power, old, bid, mem, sent, todo, message, saved,
                  shown, hist>>
  BY DEF Command, slotVars
<1>7. GivenTypes' /\ HistoryTypes'
  <2>1. used' \in [commands : Nat, swaps : Nat, kills : Nat, ticks : Nat]
    BY <1>1 DEF Command, HistoryTypes
  <2>. QED
    BY <1>1, <1>5, <1>6, <2>1 DEF GivenTypes, HistoryTypes
<1>8. notified' \in BOOLEAN
  BY DEF Command
<1>. QED
  BY <1>6, <1>7, <1>8, OutsideStructure

LEMMA ClockStructure ==
  ASSUME Structure, Clock \/ Alarm \/ Source \/ Thread \/ UNCHANGED vars
  PROVE  Structure'
<1>1. GivenTypes /\ HistoryTypes /\ DaemonTypes
  BY StructureParts
<1>2. /\ UNCHANGED <<kind, board, module, world, at, power, old, bid, mem, sent, todo, message, saved,
                     shown, queue, notified, hist>>
      /\ used' = used \/ used' = [used EXCEPT !.ticks = @ + 1]
  BY DEF Clock, Alarm, Source, Thread, Unconcerned, vars, slotVars, daemonVars, givenVars
<1>3. GivenTypes' /\ HistoryTypes' /\ notified' \in BOOLEAN
  <2>1. used' \in [commands : Nat, swaps : Nat, kills : Nat, ticks : Nat]
    BY <1>1, <1>2 DEF HistoryTypes
  <2>. QED
    BY <1>1, <1>2, <2>1 DEF GivenTypes, HistoryTypes, DaemonTypes
<1>. QED
  BY <1>2, <1>3, OutsideStructure

LEMMA StructureStays ==
  ASSUME Structure, [Next]_vars
  PROVE  Structure'
<1>1. CASE Start \/ ReadBidFromFpga \/ Notify \/ Drained \/ Store
  BY <1>1, StartStructure, LookStructure, NotifyStructure, StoreStructure
<1>2. CASE PushPull
  BY <1>2, QuietPushStructure, ConfiguresStructure DEF PushPull
<1>3. CASE Send \/ Issued \/ Share \/ TellClass
  BY <1>3, SendStructure, IssuedStructure, ShareStructure, TellClassStructure
<1>4. CASE Dies \/ Swap \/ Command
  BY <1>4, DiesStructure, SwapStructure, CommandStructure
<1>5. CASE Clock \/ Alarm \/ Source \/ Thread \/ UNCHANGED vars
  BY <1>5, ClockStructure
<1>. QED
  BY <1>1, <1>2, <1>3, <1>4, <1>5 DEF Next, Daemon

(* Every state is well formed, and a dialogue tells only registers there   *)
(* are, the values of the settings it is for, and peers that were given.   *)
THEOREM TypeCorrect == Spec => []TypeOK
<1>1. Init => Structure /\ QInv
  BY StructureBegins, QualityBegins
<1>2. (Structure /\ QInv) /\ [Next]_vars => (Structure /\ QInv)'
  BY StructureStays, QualityStays
<1>3. Structure /\ QInv => TypeOK
  BY TypesGive DEF Structure, QInv
<1>. QED
  BY <1>1, <1>2, <1>3, PTL DEF Spec

-----------------------------------------------------------------------------
(* The class a PTP board was told is that of the state and the source      *)
(* d-output saw last.                                                      *)

ClassIs(c, s, traced) ==
  /\ s = "lock" => c = IF Flag[traced] = "freq" THEN 7 ELSE 6
  /\ s = "hold" /\ Rubidium => c = 8
  /\ s = "hold" /\ ~Rubidium /\ Flag[traced] # "freq" => c = 52
  /\ s \in {"free", "fast"} => c = 255
ClassIsHeard ==
  /\ hist.heard => kind \in {"cn", "foreign"}
  /\ hist.heard /\ board /\ at \notin {"off", "look"} => bid
  /\ hist.heard /\ board /\ known.source # "unset" => ClassIs(module.class, known.state, known.traced)

(* What a module makes of a command that is told to it.                    *)
LEMMA WrittenFacts ==
  ASSUME Structure, NEW c, c[1] = "set" => c[2] \in SetRegisters, module' = Written(c)
  PROVE  /\ board => Effect(module', module, c)
         /\ ~board => module' = module
<1>. DEFINE h == Hears(module, c)
<1>1. DOMAIN module = Registers /\ DOMAIN module.rest = RestRegisters
  BY StructureParts DEF ModuleType
<1>2. h = Hears(module, c)
  OBVIOUS
<1>3. (board => module' = h) /\ (~board => module' = module)
  BY DEF Written
<1>. HIDE DEF h
<1>4. Effect(h, module, c)
  BY <1>1, <1>2, HearsFacts
<1>. QED
  BY <1>3, <1>4

(* No step of the class, of the board or of the history.                   *)
LEMMA ClassStays ==
  ASSUME ClassIsHeard, kind' = kind, board' = board,
         known' = known \/ known'.source = "unset",
         hist'.heard = hist.heard, module'.class = module.class,
         at' \in {"off", "look"} \/ bid' = board \/ (at \notin {"off", "look"} /\ bid' = bid)
  PROVE  ClassIsHeard'
<1>1. (hist.heard => kind \in {"cn", "foreign"})'
  BY DEF ClassIsHeard
<1>2. (hist.heard /\ board /\ at \notin {"off", "look"} => bid)'
  BY DEF ClassIsHeard
<1>3. (hist.heard /\ board /\ known.source # "unset" => ClassIs(module.class, known.state, known.traced))'
  BY DEF ClassIsHeard, ClassIs
<1>. QED
  BY <1>1, <1>2, <1>3 DEF ClassIsHeard

LEMMA ClassTold ==
  ASSUME Structure, QInv, ClassIsHeard, TellClass
  PROVE  ClassIsHeard'
<1>1. /\ at = "class" /\ UNCHANGED <<kind, board, bid>>
      /\ IF HearsClass /\ board THEN module'.class = Class(known) /\ hist'.heard = TRUE
                                ELSE UNCHANGED <<module, hist>>
  BY TellClassFacts
<1>2. /\ known'.state = state /\ known'.source = source
      /\ known'.traced = IF Changed THEN Traced(known) ELSE known.traced
  BY RoundFacts DEF TellClass
<1>3. state \in {"free", "hold", "fast", "lock"} /\ source # "unset"
  BY FlagFacts DEF QInv, QualityTypeOK, ClockStates
<1>4. CASE HearsClass /\ board
  <2>1. ClassIs(Class(known), state, Traced(known))
    BY <1>3 DEF ClassIs, Class
  <2>2. ClassIs(module'.class, known'.state, known'.traced)
    BY <1>1, <1>2, <1>4, <2>1 DEF HearsClass
  <2>. QED
    BY <1>1, <1>4, <2>2 DEF ClassIsHeard, HearsClass, ClassIs
<1>5. CASE ~(HearsClass /\ board)
  <2>1. UNCHANGED <<module, hist>>
    BY <1>1, <1>5
  <2>2. hist.heard /\ board => ~Changed
    BY <1>1, <1>5 DEF ClassIsHeard, HearsClass
  <2>3. hist.heard /\ board => ClassIs(module.class, state, known.traced)
    BY <1>3, <2>2 DEF Changed, ClassIsHeard
  <2>. QED
    BY <1>1, <1>2, <2>1, <2>2, <2>3 DEF ClassIsHeard, ClassIs
<1>. QED
  BY <1>4, <1>5

LEMMA ClassStaysHeard ==
  ASSUME Structure, QInv, ClassIsHeard, [Next]_vars
  PROVE  ClassIsHeard'
<1>0. hist \in History /\ DOMAIN module = Registers
  BY StructureParts DEF HistoryTypes, ModuleType
<1>1. CASE Start
  BY <1>0, <1>1, ClassStays DEF Start, slotVars, qualityVars, outputVars, History
<1>2. CASE ReadBidFromFpga
  BY <1>2, ClassStays DEF ReadBidFromFpga, slotVars, qualityVars, outputVars
<1>3. CASE Notify \/ Drained
  BY <1>3, ClassStays DEF Notify, Drained, slotVars, qualityVars, outputVars, AfterMessages
<1>4. CASE Store
  <2>1. hist'.heard = hist.heard
    BY <1>0, <1>4 DEF Store, History
  <2>. QED
    BY <1>4, <2>1, ClassStays DEF Store, slotVars, qualityVars, outputVars
<1>5. CASE PushPull
  <2>1. hist'.heard = hist.heard
    BY <1>0, <1>5 DEF PushPull, Pulled, Pushed, PoweredUp, Same, Configures, History
  <2>2. UNCHANGED known
    BY <1>5 DEF PushPull, qualityVars, outputVars
  <2>. QED
    BY <1>5, <2>1, <2>2, PushFacts, ClassStays
<1>6. CASE Send
  <2>. DEFINE c == Head(todo)
  <2>1. /\ at \in {"greet", "issue"} /\ (c[1] = "set" => c[2] \in SetRegisters) /\ module' = Written(c)
        /\ UNCHANGED <<kind, board, at, bid, hist, qualityVars>>
    BY <1>6, SendFacts
  <2>. HIDE DEF c
  <2>2. (board => Effect(module', module, c)) /\ (~board => module' = module)
    BY <2>1, WrittenFacts
  <2>3. module'.class = module.class
    BY <2>1, <2>2 DEF Effect, SameBut, Registers, SetRegisters
  <2>4. UNCHANGED known
    BY <2>1 DEF qualityVars, outputVars
  <2>. QED
    BY <2>1, <2>3, <2>4, ClassStays
<1>7. CASE Issued
  <2>1. UNCHANGED known
    BY <1>7 DEF Issued, qualityVars, outputVars
  <2>. QED
    BY <1>7, <2>1, IssuedFacts, ClassStays
<1>8. CASE Share
  BY <1>8, ClassStays DEF Share, slotVars, qualityVars, outputVars
<1>9. CASE TellClass
  BY <1>9, ClassTold
<1>10. CASE Dies
  <2>1. hist'.heard = hist.heard
    BY <1>0, <1>10 DEF Dies, History
  <2>2. known'.source = "unset"
    BY <1>10, EndFacts DEF Dies
  <2>. QED
    BY <1>10, <2>1, <2>2, ClassStays DEF Dies, slotVars
<1>11. CASE Swap
  BY <1>11, SwapFacts DEF ClassIsHeard
<1>12. CASE Command \/ Clock \/ Alarm \/ Source \/ Thread \/ UNCHANGED vars
  <2>1. UNCHANGED <<kind, board, module, at, bid, hist>>
    BY <1>12 DEF Command, Clock, Alarm, Source, Thread, Unconcerned, vars, slotVars, daemonVars
  <2>2. UNCHANGED known
    BY <1>12 DEF Command, Clock, Alarm, Source, Thread, vars, qualityVars, outputVars, ClockChanges,
      write_clock_state, stratum_input_source, Second, Look
  <2>. QED
    BY <2>1, <2>2, ClassStays DEF ClassIsHeard
<1>. QED
  BY <1>1, <1>2, <1>3, <1>4, <1>5, <1>6, <1>7, <1>8, <1>9, <1>10, <1>11, <1>12 DEF Next, Daemon

LEMMA HeardAgrees ==
  ASSUME QInv, ClassIsHeard
  PROVE  OutputsAgree
<1>. SUFFICES ASSUME hist.heard, board, rounds > 0, seconds, state = clock
     PROVE  CASE clock = "lock" ->
                   \/ source = "none" \/ Flag[source] = "time"
                   \/ tod.pps = IF module.class = 7 THEN "frequency" ELSE "locked"
              [] clock = "hold" ->
                   \/ ~Rubidium /\ "freq" \in {Flag[source], Flag[known.traced]}
                   \/ tod.pps = IF module.class = 8 THEN "rubidium" ELSE "crystal"
              [] OTHER -> module.class = 255 /\ tod.pps = "unusable"
  BY DEF OutputsAgree
<1>1. clock \in {"free", "hold", "fast", "lock"} /\ source \in Sources /\ source # "unset"
  BY FlagFacts DEF QInv, QualityTypeOK, ClockStates
<1>2. known.state = clock /\ known.source = source
  BY DEF QInv, RoundsSee
<1>3. source # "none" => known.traced = source
  BY <1>1, <1>2 DEF QInv, SourceIsTraced
<1>4. ClassIs(module.class, clock, known.traced)
  BY <1>1, <1>2 DEF ClassIsHeard
<1>5. tod.pps \in TodStates
  BY DEF QInv, TodFits
<1>6. CASE clock = "lock"
  <2>1. ASSUME source # "none", Flag[source] # "time"
        PROVE  tod.pps = IF module.class = 7 THEN "frequency" ELSE "locked"
    <3>1. Flag[source] = "both" \/ Flag[source] = "freq"
      BY <1>1, <2>1 DEF Sources, Flag
    <3>2. Flag[source] = "both" => tod.pps = "locked" /\ module.class = 6
      BY <1>3, <1>4, <1>5, <1>6, <2>1 DEF TodStates, ClassIs
    <3>3. Flag[source] = "freq" => tod.pps = "frequency" /\ module.class = 7
      BY <1>3, <1>4, <1>5, <1>6, <2>1 DEF TodStates, ClassIs
    <3>. QED
      BY <3>1, <3>2, <3>3
  <2>. QED
    BY <1>6, <2>1
<1>7. CASE clock = "hold"
  <2>1. ASSUME ~(~Rubidium /\ "freq" \in {Flag[source], Flag[known.traced]})
        PROVE  tod.pps = IF module.class = 8 THEN "rubidium" ELSE "crystal"
    BY <1>4, <1>5, <1>7, <2>1 DEF TodStates, ClassIs
  <2>. QED
    BY <1>7, <2>1
<1>8. CASE clock \in {"free", "fast"}
  BY <1>4, <1>5, <1>8 DEF TodStates, ClassIs
<1>. QED
  BY <1>1, <1>6, <1>7, <1>8

(* The class of the PTP boards and the time of day message agree, once     *)
(* both had their turn, whatever the clock did in between, whenever the    *)
(* daemon ended and whatever board was pushed.                             *)
THEOREM ClassAndTodAgree == Spec => []OutputsAgree
<1>1. Init => Structure /\ QInv /\ ClassIsHeard
  <2>1. Init => ClassIsHeard
    BY DEF Init, NoHistory, ClassIsHeard
  <2>. QED
    BY <2>1, StructureBegins, QualityBegins
<1>2. (Structure /\ QInv /\ ClassIsHeard) /\ [Next]_vars => (Structure /\ QInv /\ ClassIsHeard)'
  BY StructureStays, QualityStays, ClassStaysHeard
<1>3. Structure /\ QInv /\ ClassIsHeard => OutputsAgree
  BY HeardAgrees
<1>. QED
  BY <1>1, <1>2, <1>3, PTL DEF Spec

-----------------------------------------------------------------------------
(* What a set of commands tells.                                           *)

Tell(S, v, r) == \E c \in S : c[1] = v /\ c[2] = r
Tells(S, v) == \E c \in S : c[1] = v
Switches(S, v) == \E c \in S : c[1] = "set" /\ c[2] = "engine" /\ c[3] = v

LEMMA TellSet ==
  ASSUME NEW q, NEW w
  PROVE  /\ \A v, r : Tell(One(q, w), v, r) <=> v = "set" /\ r = q
         /\ \A v : Tells(One(q, w), v) <=> v = "set"
         /\ \A v : Switches(One(q, w), v) <=> q = "engine" /\ v = w
BY DEF Tell, Tells, Switches, One

LEMMA TellRest ==
  ASSUME NEW R, NEW m
  PROVE  /\ \A v, r : Tell(RestOf(R, m), v, r) <=> v = "rest" /\ r \in R
         /\ \A v : Tells(RestOf(R, m), v) => v = "rest"
         /\ \A v : ~Switches(RestOf(R, m), v)
<1>1. \A c \in RestOf(R, m) : c[1] = "rest" /\ c[2] \in R
  BY DEF RestOf
<1>2. ASSUME NEW r \in R PROVE Tell(RestOf(R, m), "rest", r)
  <2>. DEFINE c == <<"rest", r, m.rest>>
  <2>1. c \in RestOf(R, m)
    BY DEF RestOf
  <2>2. c[1] = "rest" /\ c[2] = r
    OBVIOUS
  <2>. HIDE DEF c
  <2>. QED
    BY <2>1, <2>2 DEF Tell
<1>. QED
  BY <1>1, <1>2 DEF Tell, Tells, Switches

LEMMA TellEach ==
  ASSUME NEW w, NEW S
  PROVE  /\ \A v, r : Tell(EachOf(w, S), v, r) <=> v = w /\ r \in S
         /\ \A v : Tells(EachOf(w, S), v) => v = w
         /\ w # "set" => \A v : ~Switches(EachOf(w, S), v)
<1>1. \A c \in EachOf(w, S) : c[1] = w /\ c[2] \in S
  BY DEF EachOf
<1>2. ASSUME NEW r \in S PROVE Tell(EachOf(w, S), w, r)
  <2>. DEFINE c == <<w, r>>
  <2>1. c \in EachOf(w, S)
    BY DEF EachOf
  <2>2. c[1] = w /\ c[2] = r
    OBVIOUS
  <2>. HIDE DEF c
  <2>. QED
    BY <2>1, <2>2 DEF Tell
<1>. QED
  BY <1>1, <1>2 DEF Tell, Tells, Switches

LEMMA TellOther ==
  /\ \A w, q, v, r : Tell({<<w, q>>}, v, r) <=> v = w /\ r = q
  /\ \A w, q, x, v, r : Tell({<<w, q, x>>}, v, r) <=> v = w /\ r = q
  /\ \A w, q, v : Tells({<<w, q>>}, v) <=> v = w
  /\ \A w, q, x, v : Tells({<<w, q, x>>}, v) <=> v = w
  /\ \A w, q, v : w # "set" => ~Switches({<<w, q>>}, v)
  /\ \A w, q, x, v : w # "set" => ~Switches({<<w, q, x>>}, v)
BY DEF Tell, Tells, Switches

LEMMA TellFixing ==
  /\ \A v, r : Tell(Fixing, v, r) <=> v = "set" /\ r = "fixed"
  /\ \A v : Tells(Fixing, v) <=> v = "set"
  /\ \A v : ~Switches(Fixing, v)
<1>1. \A c \in Fixing : c[1] = "set" /\ c[2] = "fixed"
  <2>. SUFFICES ASSUME NEW c \in Fixing PROVE c[1] = "set" /\ c[2] = "fixed"
    OBVIOUS
  <2>1. c = <<"set", "fixed", TRUE>>
    BY Zenon DEF Fixing
  <2>. QED
    BY <2>1
<1>2. \E c : c \in Fixing
  BY Zenon DEF Fixing
<1>. QED
  BY <1>1, <1>2 DEF Tell, Tells, Switches

LEMMA TellLogin ==
  /\ \A v, r : Tell(LoginSet, v, r) => v = "login"
  /\ \A v : Tells(LoginSet, v) <=> v = "login"
  /\ \A v : ~Switches(LoginSet, v)
BY DEF Tell, Tells, Switches, LoginSet

(* What the parts of the dialogues tell.                                   *)
LEMMA TimingTells ==
  ASSUME NEW m
  PROVE  /\ \A v, r : Tell(TimingSet(m), v, r) <=>
              (v = "set" /\ r = "layer") \/ (v = "rest" /\ r \in {"delayType", "step"})
         /\ \A v : ~Switches(TimingSet(m), v)
         /\ ~Tells(TimingSet(m), "login")
<1>. DEFINE A == RestOf({"delayType"}, m)
            B == One("layer", m.layer)
            C == RestOf({"step"}, m)
<1>1. ASSUME NEW v, NEW r
      PROVE  /\ Tell(A, v, r) <=> v = "rest" /\ r \in {"delayType"}
             /\ Tell(B, v, r) <=> v = "set" /\ r = "layer"
             /\ Tell(C, v, r) <=> v = "rest" /\ r \in {"step"}
  BY TellSet, TellRest
<1>2. ~Tells(A, "login") /\ ~Tells(B, "login") /\ ~Tells(C, "login")
  BY TellSet, TellRest
<1>3. \A v : ~Switches(A, v) /\ ~Switches(B, v) /\ ~Switches(C, v)
  BY TellSet, TellRest
<1>4. TimingSet(m) = (A \cup B) \cup C
  BY DEF TimingSet
<1>. HIDE DEF A, B, C
<1>5. ASSUME NEW v, NEW r
      PROVE  Tell(TimingSet(m), v, r) <=> Tell(A, v, r) \/ Tell(B, v, r) \/ Tell(C, v, r)
  BY <1>4 DEF Tell
<1>6. ~Tells(TimingSet(m), "login")
  BY <1>2, <1>4 DEF Tells
<1>7. ASSUME NEW v PROVE ~Switches(TimingSet(m), v)
  BY <1>3, <1>4 DEF Switches
<1>. QED
  BY <1>1, <1>5, <1>6, <1>7

LEMMA AddressesTell ==
  ASSUME NEW m
  PROVE  /\ \A v, r : Tell(AddressesSet(m), v, r) <=>
              \/ v = "delete" /\ r \in ToSet(m.ips)
              \/ v = "add" /\ r \in ToSet(m.peers)
              \/ v = "remember" /\ r = "ips"
         /\ \A v : ~Switches(AddressesSet(m), v)
<1>. DEFINE A == EachOf("delete", ToSet(m.ips))
            B == EachOf("add", ToSet(m.peers))
            C == {<<"remember", "ips", m.peers>>}
<1>1. ASSUME NEW v, NEW r
      PROVE  /\ Tell(A, v, r) <=> v = "delete" /\ r \in ToSet(m.ips)
             /\ Tell(B, v, r) <=> v = "add" /\ r \in ToSet(m.peers)
             /\ Tell(C, v, r) <=> v = "remember" /\ r = "ips"
  <2>1. Tell(A, v, r) <=> v = "delete" /\ r \in ToSet(m.ips)
    BY TellEach
  <2>2. Tell(B, v, r) <=> v = "add" /\ r \in ToSet(m.peers)
    BY TellEach
  <2>3. Tell(C, v, r) <=> v = "remember" /\ r = "ips"
    BY DEF Tell
  <2>. QED
    BY <2>1, <2>2, <2>3
<1>2. \A v : ~Switches(A, v) /\ ~Switches(B, v) /\ ~Switches(C, v)
  <2>1. \A v : ~Switches(A, v) /\ ~Switches(B, v)
    BY TellEach
  <2>2. \A v : ~Switches(C, v)
    BY TellOther
  <2>. QED
    BY <2>1, <2>2
<1>3. AddressesSet(m) = (A \cup B) \cup C
  BY DEF AddressesSet
<1>. HIDE DEF A, B, C
<1>4. ASSUME NEW v, NEW r
      PROVE  Tell(AddressesSet(m), v, r) <=> Tell(A, v, r) \/ Tell(B, v, r) \/ Tell(C, v, r)
  BY <1>3 DEF Tell
<1>5. ASSUME NEW v PROVE ~Switches(AddressesSet(m), v)
  BY <1>2, <1>3 DEF Switches
<1>. QED
  BY <1>1, <1>4, <1>5

LEMMA MacTells ==
  ASSUME NEW m
  PROVE  /\ \A v, r : Tell(MacSet(m), v, r) <=>
              \/ v = "delete" /\ r = m.oldMac
              \/ v = "add" /\ r = m.mac
              \/ v = "remember" /\ r = "oldMac"
         /\ \A v : ~Switches(MacSet(m), v)
<1>. DEFINE A == {<<"delete", m.oldMac>>}
            B == {<<"remember", "oldMac", m.mac>>}
            C == {<<"add", m.mac>>}
<1>1. ASSUME NEW v, NEW r
      PROVE  /\ Tell(A, v, r) <=> v = "delete" /\ r = m.oldMac
             /\ Tell(B, v, r) <=> v = "remember" /\ r = "oldMac"
             /\ Tell(C, v, r) <=> v = "add" /\ r = m.mac
  <2>1. Tell(A, v, r) <=> v = "delete" /\ r = m.oldMac
    BY DEF Tell
  <2>2. Tell(B, v, r) <=> v = "remember" /\ r = "oldMac"
    BY DEF Tell
  <2>3. Tell(C, v, r) <=> v = "add" /\ r = m.mac
    BY DEF Tell
  <2>. QED
    BY <2>1, <2>2, <2>3
<1>2. \A v : ~Switches(A, v) /\ ~Switches(B, v) /\ ~Switches(C, v)
  BY TellOther
<1>3. MacSet(m) = (A \cup B) \cup C
  BY DEF MacSet
<1>. HIDE DEF A, B, C
<1>4. ASSUME NEW v, NEW r
      PROVE  Tell(MacSet(m), v, r) <=> Tell(A, v, r) \/ Tell(B, v, r) \/ Tell(C, v, r)
  BY <1>3 DEF Tell
<1>5. ASSUME NEW v PROVE ~Switches(MacSet(m), v)
  BY <1>2, <1>3 DEF Switches
<1>. QED
  BY <1>1, <1>4, <1>5

LEMMA EngineTells ==
  ASSUME NEW m
  PROVE  /\ Tell(EngineSet(m), "set", "net")
         /\ \A v \in {"on", "off"} : Switches(EngineSet(m), v) <=> Routed(m)
         /\ ~Tells(EngineSet(m), "add") /\ ~Tells(EngineSet(m), "remember")
<1>. DEFINE A == One("engine", "off")
            B == One("net", m.net)
            C == One("engine", "on")
<1>1. /\ Tell(B, "set", "net")
      /\ \A v : ~Switches(B, v) /\ (Switches(A, v) <=> v = "off") /\ (Switches(C, v) <=> v = "on")
      /\ ~Tells(A, "add") /\ ~Tells(A, "remember") /\ ~Tells(B, "add") /\ ~Tells(B, "remember")
      /\ ~Tells(C, "add") /\ ~Tells(C, "remember")
  BY TellSet
<1>2. Routed(m) => EngineSet(m) = (A \cup B) \cup C
  BY DEF EngineSet
<1>3. ~Routed(m) => EngineSet(m) = B
  BY DEF EngineSet
<1>. HIDE DEF A, B, C
<1>4. CASE Routed(m)
  <2>1. Tell(EngineSet(m), "set", "net")
    BY <1>1, <1>2, <1>4 DEF Tell
  <2>2. ASSUME NEW v \in {"on", "off"} PROVE Switches(EngineSet(m), v)
    BY <1>1, <1>2, <1>4 DEF Switches
  <2>3. ~Tells(EngineSet(m), "add") /\ ~Tells(EngineSet(m), "remember")
    BY <1>1, <1>2, <1>4 DEF Tells
  <2>. QED
    BY <1>4, <2>1, <2>2, <2>3
<1>5. CASE ~Routed(m)
  BY <1>1, <1>3, <1>5
<1>. QED
  BY <1>4, <1>5

(* Of a module from abroad: the net, and what was sent, go together.       *)
LEMMA LineTells ==
  ASSUME NEW m
  PROVE  /\ Tell(LineSet(m), "set", "net") <=> Routed(m) \/ m.net # sent
         /\ Tell(LineSet(m), "sent", m.net) <=> Routed(m) \/ m.net # sent
         /\ Routed(m) => Tell(LineSet(m), "set", "fixed")
         /\ \A v \in {"on", "off"} : Switches(LineSet(m), v) <=> Routed(m)
         /\ ~Tells(LineSet(m), "add") /\ ~Tells(LineSet(m), "remember")
<1>. DEFINE A == One("engine", "off")
            B == One("net", m.net)
            C == {<<"sent", m.net>>}
            D == One("engine", "on")
            N == B \cup C
<1>1. /\ Tell(B, "set", "net") /\ Tell(C, "sent", m.net) /\ Tell(Fixing, "set", "fixed")
      /\ \A v : ~Switches(B, v) /\ ~Switches(C, v) /\ ~Switches(Fixing, v)
      /\ \A v : (Switches(A, v) <=> v = "off") /\ (Switches(D, v) <=> v = "on")
  BY TellSet, TellOther, TellFixing
<1>2. /\ ~Tells(A, "add") /\ ~Tells(A, "remember") /\ ~Tells(B, "add") /\ ~Tells(B, "remember")
      /\ ~Tells(C, "add") /\ ~Tells(C, "remember") /\ ~Tells(D, "add") /\ ~Tells(D, "remember")
      /\ ~Tells(Fixing, "add") /\ ~Tells(Fixing, "remember")
  BY TellSet, TellOther, TellFixing
<1>3. Routed(m) => LineSet(m) = ((A \cup N) \cup D) \cup Fixing
  BY DEF LineSet, SentNetSet
<1>4. ~Routed(m) => LineSet(m) = IF m.net # sent THEN N ELSE {}
  BY DEF LineSet, SentNetSet
<1>. HIDE DEF A, B, C, D
<1>5. CASE Routed(m)
  <2>1. /\ Tell(LineSet(m), "set", "net") /\ Tell(LineSet(m), "sent", m.net)
        /\ Tell(LineSet(m), "set", "fixed")
    BY <1>1, <1>3, <1>5 DEF Tell
  <2>2. ASSUME NEW v \in {"on", "off"} PROVE Switches(LineSet(m), v)
    BY <1>1, <1>3, <1>5 DEF Switches
  <2>3. ~Tells(LineSet(m), "add") /\ ~Tells(LineSet(m), "remember")
    BY <1>2, <1>3, <1>5 DEF Tells
  <2>. QED
    BY <1>5, <2>1, <2>2, <2>3
<1>6. CASE ~Routed(m)
  <2>1. /\ m.net # sent => Tell(N, "set", "net") /\ Tell(N, "sent", m.net)
        /\ ~Tell({}, "set", "net") /\ ~Tell({}, "sent", m.net)
    BY <1>1 DEF Tell
  <2>2. \A v : ~Switches(N, v) /\ ~Switches({}, v)
    BY <1>1 DEF Switches
  <2>3. ~Tells(N, "add") /\ ~Tells(N, "remember") /\ ~Tells({}, "add") /\ ~Tells({}, "remember")
    BY <1>2 DEF Tells
  <2>. HIDE DEF N
  <2>4. LineSet(m) = N \/ LineSet(m) = {}
    BY <1>4, <1>6
  <2>5. /\ Tell(LineSet(m), "set", "net") <=> m.net # sent
        /\ Tell(LineSet(m), "sent", m.net) <=> m.net # sent
    BY <1>4, <1>6, <2>1
  <2>. QED
    BY <1>6, <2>2, <2>3, <2>4, <2>5
<1>. QED
  BY <1>5, <1>6

(* What belongs to a part is told by the whole.                            *)
LEMMA TellMore ==
  ASSUME NEW S, NEW T, S \subseteq T
  PROVE  /\ \A v, r : Tell(S, v, r) => Tell(T, v, r)
         /\ \A v : Switches(S, v) => Switches(T, v)
BY DEF Tell, Switches

Five == {"delayType", "step", "sync", "announce", "pdelayReq"}

(* What a dialogue for m tells of the registers.                           *)
RegistersTold(S, m) ==
  /\ kind # "sat" => Tell(S, "set", "layer")
  /\ kind \in {"ptpIn", "cn", "ptpf"} => Tell(S, "set", "net")
  /\ kind \in {"ptpIn", "foreign", "cn"} =>
       Tell(S, "set", "cast") /\ \A r \in RestOfForeign : Tell(S, "rest", r)
  /\ HasPeers /\ Routed(m) => Tell(S, "set", "fixed")
  /\ kind = "ptpIn" => Tell(S, "rest", "delayReq")
  /\ kind = "cn" => Tell(S, "rest", "ssm") /\ Tell(S, "rest", "mac")
  /\ kind = "cn" /\ m.cast = "uni" /\ m.peers # <<>> => Tell(S, "set", "slave")
  /\ kind = "ptpf" => \A r \in Five : Tell(S, "rest", r)
  /\ kind = "ptpf" /\ m.signal # "ptp" => Tell(S, "set", "engine") /\ Tell(S, "set", "ntp")
  /\ kind = "sat" => Tell(S, "rest", "mode")
(* The engine of a module with peers, and the address of one from abroad.  *)
EngineTold(S, m) ==
  /\ NeedsLogin => <<"login">> \in S
  /\ HasPeers => \A v \in {"on", "off"} : Switches(S, v) <=> Routed(m)
  /\ kind = "foreign" =>
       /\ Tell(S, "set", "net") <=> Routed(m) \/ m.net # sent
       /\ Tell(S, "sent", m.net) <=> Routed(m) \/ m.net # sent
(* The peers.                                                              *)
Memo(m) == IF m.layer = 3 THEN "ips" ELSE "oldMac"
PeersTold(S, m) ==
  /\ HasPeers /\ m.cast = "uni" /\ (kind = "ptpIn" \/ m.layer = 3) =>
       Tell(S, "remember", Memo(m)) /\ \A p \in GivenBy(m) : Tell(S, "add", p)
  /\ HasPeers /\ Tells(S, "add") => Tell(S, "remember", Memo(m))
  /\ HasPeers /\ Tell(S, "remember", "ips") => \A p \in ToSet(m.ips) : Tell(S, "delete", p)
  /\ HasPeers /\ Tell(S, "remember", "oldMac") => Tell(S, "delete", m.oldMac)

LEMMA TimingTold ==
  ASSUME NEW S, NEW m, TimingSet(m) \subseteq S
  PROVE  Tell(S, "set", "layer") /\ Tell(S, "rest", "delayType") /\ Tell(S, "rest", "step")
BY TimingTells, TellMore

LEMMA RestTold ==
  ASSUME NEW S, NEW m, NEW R, RestOf(R, m) \subseteq S
  PROVE  \A r \in R : Tell(S, "rest", r)
BY TellRest, TellMore

LEMMA SetTold ==
  ASSUME NEW S, NEW q, NEW w, One(q, w) \subseteq S
  PROVE  Tell(S, "set", q)
BY TellSet, TellMore

LEMMA PtpInTells ==
  ASSUME kind = "ptpIn", NEW m
  PROVE  RegistersTold(PtpInSet(m), m) /\ EngineTold(PtpInSet(m), m)
<1>. DEFINE S == PtpInSet(m)
            E == RestOf({"sync", "announce", "delayReq", "pdelayReq", "region"}, m)
            P == RestOf({"priority1", "priority2"}, m)
            O == One("cast", m.cast)
<1>1. S = LoginSet \cup EngineSet(m) \cup FixedSet(m) \cup TimingSet(m) \cup (O \cup MastersSet(m)) \cup E \cup P
  BY DEF PtpInSet
<1>2. /\ LoginSet \subseteq S /\ EngineSet(m) \subseteq S /\ FixedSet(m) \subseteq S
      /\ TimingSet(m) \subseteq S /\ O \subseteq S /\ E \subseteq S /\ P \subseteq S
  BY <1>1
<1>. HIDE DEF S
<1>3. RegistersTold(S, m)
  <2>1. Tell(S, "set", "layer") /\ Tell(S, "rest", "delayType") /\ Tell(S, "rest", "step")
    BY <1>2, TimingTold
  <2>2. Tell(S, "set", "net")
    BY <1>2, EngineTells, TellMore
  <2>3. Tell(S, "set", "cast")
    BY <1>2, SetTold
  <2>4. \A r \in {"sync", "announce", "delayReq", "pdelayReq", "region"} : Tell(S, "rest", r)
    BY <1>2, RestTold
  <2>5. \A r \in {"priority1", "priority2"} : Tell(S, "rest", r)
    BY <1>2, RestTold
  <2>6. Routed(m) => Tell(S, "set", "fixed")
    BY <1>2, TellFixing, TellMore DEF FixedSet
  <2>7. \A r \in RestOfForeign : Tell(S, "rest", r)
    BY <2>1, <2>4, <2>5 DEF RestOfForeign
  <2>8. Tell(S, "rest", "delayReq")
    BY <2>4
  <2>. QED
    BY <2>1, <2>2, <2>3, <2>6, <2>7, <2>8 DEF RegistersTold
<1>4. EngineTold(S, m)
  <2>1. <<"login">> \in S
    BY <1>2 DEF LoginSet
  <2>2. ASSUME NEW v \in {"on", "off"} PROVE Switches(S, v) <=> Routed(m)
    <3>1. ~Switches(LoginSet, v) /\ ~Switches(TimingSet(m), v) /\ ~Switches(O, v)
          /\ ~Switches(E, v) /\ ~Switches(P, v)
      BY TellLogin, TimingTells, TellSet, TellRest
    <3>2. ~Switches(FixedSet(m), v)
      BY TellFixing DEF FixedSet, Switches
    <3>3. ~Switches(MastersSet(m), v)
      BY AddressesTell, MacTells DEF MastersSet, Switches
    <3>4. Switches(EngineSet(m), v) <=> Routed(m)
      BY EngineTells
    <3>. HIDE DEF O, E, P
    <3>5. Switches(S, v) <=> \/ Switches(LoginSet, v) \/ Switches(EngineSet(m), v)
                             \/ Switches(FixedSet(m), v) \/ Switches(TimingSet(m), v)
                             \/ Switches(O, v) \/ Switches(MastersSet(m), v)
                             \/ Switches(E, v) \/ Switches(P, v)
      BY <1>1 DEF Switches
    <3>. QED
      BY <3>1, <3>2, <3>3, <3>4, <3>5
  <2>. QED
    BY <2>1, <2>2 DEF EngineTold
<1>. QED
  BY <1>3, <1>4 DEF S

LEMMA PtpInPeers ==
  ASSUME kind = "ptpIn", NEW m \in Memory
  PROVE  PeersTold(PtpInSet(m), m)
<1>. DEFINE S == PtpInSet(m)
            E == RestOf({"sync", "announce", "delayReq", "pdelayReq", "region"}, m)
            P == RestOf({"priority1", "priority2"}, m)
            O == One("cast", m.cast)
            M == MastersSet(m)
<1>1. S = LoginSet \cup EngineSet(m) \cup FixedSet(m) \cup TimingSet(m) \cup (O \cup M) \cup E \cup P
  BY DEF PtpInSet
<1>2. M \subseteq S
  BY <1>1
<1>3. /\ \A v \in {"add", "remember"} :
           /\ ~Tells(LoginSet, v) /\ ~Tells(EngineSet(m), v) /\ ~Tells(O, v)
           /\ ~Tells(E, v) /\ ~Tells(P, v)
  BY TellLogin, EngineTells, TellSet, TellRest
<1>4. ~Tells(FixedSet(m), "add") /\ ~Tells(FixedSet(m), "remember")
  BY TellFixing DEF FixedSet, Tells
<1>5. ~Tells(TimingSet(m), "add") /\ ~Tells(TimingSet(m), "remember")
  <2>1. \A v, r : v \in {"add", "remember"} => ~Tell(TimingSet(m), v, r)
    BY TimingTells
  <2>. QED
    BY <2>1 DEF Tell, Tells
<1>. HIDE DEF S, O, E, P, M
<1>6. /\ Tells(S, "add") => Tells(M, "add")
      /\ \A r : Tell(S, "remember", r) => Tell(M, "remember", r)
  BY <1>1, <1>3, <1>4, <1>5 DEF Tell, Tells
<1>7. M = IF m.cast # "uni" THEN {} ELSE IF m.layer = 3 THEN AddressesSet(m) ELSE MacSet(m)
  BY DEF M, MastersSet
<1>8. PeersTold(M, m)
  <2>1. CASE m.cast # "uni"
    BY <1>7, <2>1 DEF PeersTold, Tell, Tells
  <2>2. CASE m.cast = "uni" /\ m.layer = 3
    BY <1>7, <2>2, AddressesTell DEF PeersTold, GivenBy, Memo
  <2>3. CASE m.cast = "uni" /\ m.layer # 3
    BY <1>7, <2>3, MacTells DEF PeersTold, GivenBy, Memo
  <2>. QED
    BY <2>1, <2>2, <2>3
<1>9. \A v, r : Tell(M, v, r) => Tell(S, v, r)
  BY <1>2, TellMore
<1>. QED
  BY <1>6, <1>8, <1>9 DEF PeersTold, S

LEMMA ForeignTells ==
  ASSUME kind = "foreign", NEW m
  PROVE  /\ RegistersTold(ForeignSet(m), m) /\ EngineTold(ForeignSet(m), m)
         /\ PeersTold(ForeignSet(m), m)
<1>. DEFINE S == ForeignSet(m)
            E == RestOf({"sync", "announce", "pdelayReq", "region", "priority1", "priority2"}, m)
            O == One("cast", m.cast)
            L == LineSet(m)
            A == RoutedSet(m)
            N == TimingSet(m)
<1>1. S = LoginSet \cup L \cup N \cup (O \cup A) \cup E
  BY DEF ForeignSet
<1>2. LoginSet \subseteq S /\ L \subseteq S /\ N \subseteq S /\ O \subseteq S /\ A \subseteq S /\ E \subseteq S
  BY <1>1
<1>3. RegistersTold(S, m)
  <2>. HIDE DEF S
  <2>1. Tell(S, "set", "layer") /\ Tell(S, "rest", "delayType") /\ Tell(S, "rest", "step")
    BY <1>2, TimingTold
  <2>2. Tell(S, "set", "cast")
    BY <1>2, SetTold
  <2>3. \A r \in {"sync", "announce", "pdelayReq", "region", "priority1", "priority2"} : Tell(S, "rest", r)
    BY <1>2, RestTold
  <2>4. Routed(m) => Tell(S, "set", "fixed")
    BY <1>2, LineTells, TellMore
  <2>5. \A r \in RestOfForeign : Tell(S, "rest", r)
    BY <2>1, <2>3 DEF RestOfForeign
  <2>. QED
    BY <2>1, <2>2, <2>4, <2>5 DEF RegistersTold
<1>4. A = IF Routed(m) THEN AddressesSet(m) ELSE {}
  BY DEF RoutedSet
<1>5. /\ \A v, r : Tell(A, v, r) => v \in {"add", "delete", "remember"}
      /\ \A v : ~Switches(A, v)
  BY <1>4, AddressesTell DEF Tell, Switches
<1>6. EngineTold(S, m)
  <2>1. <<"login">> \in S
    BY <1>2 DEF LoginSet
  <2>2. ASSUME NEW v \in {"on", "off"} PROVE Switches(S, v) <=> Routed(m)
    <3>1. ~Switches(LoginSet, v) /\ ~Switches(N, v) /\ ~Switches(O, v) /\ ~Switches(E, v) /\ ~Switches(A, v)
      BY <1>5, TellLogin, TimingTells, TellSet, TellRest
    <3>2. Switches(L, v) <=> Routed(m)
      BY LineTells
    <3>. HIDE DEF S, O, E, A, L, N
    <3>3. Switches(S, v) <=> \/ Switches(LoginSet, v) \/ Switches(L, v) \/ Switches(N, v)
                             \/ Switches(O, v) \/ Switches(A, v) \/ Switches(E, v)
      BY <1>1 DEF Switches
    <3>. QED
      BY <3>1, <3>2, <3>3
  <2>3. ~Tell(LoginSet, "set", "net") /\ ~Tell(N, "set", "net") /\ ~Tell(O, "set", "net")
        /\ ~Tell(E, "set", "net") /\ ~Tell(A, "set", "net")
    BY <1>5, TellLogin, TimingTells, TellSet, TellRest
  <2>4. ~Tell(LoginSet, "sent", m.net) /\ ~Tell(N, "sent", m.net) /\ ~Tell(O, "sent", m.net)
        /\ ~Tell(E, "sent", m.net) /\ ~Tell(A, "sent", m.net)
    BY <1>5, TellLogin, TimingTells, TellSet, TellRest
  <2>5. /\ Tell(L, "set", "net") <=> Routed(m) \/ m.net # sent
        /\ Tell(L, "sent", m.net) <=> Routed(m) \/ m.net # sent
    BY LineTells
  <2>. HIDE DEF S, O, E, A, L, N
  <2>6. Tell(S, "set", "net") <=> Tell(L, "set", "net")
    BY <1>1, <2>3 DEF Tell
  <2>7. Tell(S, "sent", m.net) <=> Tell(L, "sent", m.net)
    BY <1>1, <2>4 DEF Tell
  <2>. QED
    BY <2>1, <2>2, <2>5, <2>6, <2>7 DEF EngineTold
<1>7. PeersTold(S, m)
  <2>1. /\ \A v \in {"add", "remember"} :
             /\ ~Tells(LoginSet, v) /\ ~Tells(L, v) /\ ~Tells(O, v) /\ ~Tells(E, v)
    BY TellLogin, LineTells, TellSet, TellRest
  <2>2. ~Tells(N, "add") /\ ~Tells(N, "remember")
    <3>1. \A v, r : v \in {"add", "remember"} => ~Tell(N, v, r)
      BY TimingTells
    <3>. QED
      BY <3>1 DEF Tell, Tells
  <2>. HIDE DEF S, O, E, A, L, N
  <2>3. /\ Tells(S, "add") => Tells(A, "add")
        /\ \A r : Tell(S, "remember", r) => Tell(A, "remember", r)
    BY <1>1, <2>1, <2>2 DEF Tell, Tells
  <2>4. PeersTold(A, m)
    <3>1. CASE Routed(m)
      BY <1>4, <3>1, AddressesTell DEF PeersTold, GivenBy, Memo, Routed
    <3>2. CASE ~Routed(m)
      BY <1>4, <3>2 DEF PeersTold, Tell, Tells, Routed
    <3>. QED
      BY <3>1, <3>2
  <2>5. \A v, r : Tell(A, v, r) => Tell(S, v, r)
    BY <1>2, TellMore
  <2>. QED
    BY <2>3, <2>4, <2>5 DEF PeersTold
<1>. QED
  BY <1>3, <1>6, <1>7 DEF S

LEMMA CnTells ==
  ASSUME kind = "cn", NEW m
  PROVE  RegistersTold(CnSet(m), m)
<1>. DEFINE S == CnSet(m)
            A == RestOf({"ssm"}, m)
            O == One("cast", m.cast)
            E == RestOf({"sync", "announce", "pdelayReq", "region"}, m)
            N == One("net", m.net)
            P == RestOf({"mac", "priority1", "priority2"}, m)
<1>1. /\ TimingSet(m) \subseteq S /\ A \subseteq S /\ O \subseteq S /\ SlaveSet(m) \subseteq S
      /\ E \subseteq S /\ N \subseteq S /\ P \subseteq S
  BY DEF CnSet
<1>. HIDE DEF S
<1>2. Tell(S, "set", "layer") /\ Tell(S, "rest", "delayType") /\ Tell(S, "rest", "step")
  BY <1>1, TimingTold
<1>3. Tell(S, "set", "cast") /\ Tell(S, "set", "net")
  BY <1>1, SetTold
<1>4. \A r \in {"ssm"} : Tell(S, "rest", r)
  BY <1>1, RestTold
<1>5. \A r \in {"sync", "announce", "pdelayReq", "region"} : Tell(S, "rest", r)
  BY <1>1, RestTold
<1>6. \A r \in {"mac", "priority1", "priority2"} : Tell(S, "rest", r)
  BY <1>1, RestTold
<1>7. m.cast = "uni" /\ m.peers # <<>> => Tell(S, "set", "slave")
  BY <1>1, SetTold DEF SlaveSet
<1>8. \A r \in RestOfForeign : Tell(S, "rest", r)
  BY <1>2, <1>5, <1>6 DEF RestOfForeign
<1>. QED
  BY <1>2, <1>3, <1>4, <1>6, <1>7, <1>8 DEF RegistersTold, HasPeers, S

LEMMA PtpfTells ==
  ASSUME kind = "ptpf", NEW m \in Memory
  PROVE  RegistersTold(PtpfSet(m), m) /\ EngineTold(PtpfSet(m), m)
<1>. DEFINE S == PtpfSet(m)
            E == RestOf({"sync", "announce", "pdelayReq"}, m)
            N == One("net", m.net)
<1>1. /\ LoginSet \subseteq S /\ SignalSet(m) \subseteq S /\ TimingSet(m) \subseteq S
      /\ E \subseteq S /\ N \subseteq S
  BY DEF PtpfSet
<1>. HIDE DEF S
<1>2. Tell(S, "set", "layer") /\ Tell(S, "rest", "delayType") /\ Tell(S, "rest", "step")
  BY <1>1, TimingTold
<1>3. Tell(S, "set", "net")
  BY <1>1, SetTold
<1>4. \A r \in {"sync", "announce", "pdelayReq"} : Tell(S, "rest", r)
  BY <1>1, RestTold
<1>5. m.signal # "ptp" => Tell(S, "set", "engine") /\ Tell(S, "set", "ntp")
  <2>1. m.signal \in {"ptp", "ntp", "none"}
    BY DEF Memory, Values
  <2>2. m.signal = "none" => One("ntp", "off") \subseteq S /\ One("engine", "off") \subseteq S
    BY <1>1 DEF SignalSet
  <2>3. m.signal = "ntp" => One("ntp", "on") \subseteq S /\ One("engine", "off") \subseteq S
    BY <1>1 DEF SignalSet
  <2>. QED
    BY <2>1, <2>2, <2>3, SetTold
<1>6. \A r \in Five : Tell(S, "rest", r)
  BY <1>2, <1>4 DEF Five
<1>7. <<"login">> \in S
  BY <1>1 DEF LoginSet
<1>. QED
  BY <1>2, <1>3, <1>5, <1>6, <1>7 DEF RegistersTold, EngineTold, HasPeers, S

LEMMA SatTells ==
  ASSUME kind = "sat", NEW m
  PROVE  RegistersTold(RestOf({"mode"}, m), m)
BY TellRest DEF RegistersTold, HasPeers

LEMMA IssueTells ==
  ASSUME kind \in Kinds, NEW m \in Memory
  PROVE  RegistersTold(IssueSet(m), m) /\ EngineTold(IssueSet(m), m) /\ PeersTold(IssueSet(m), m)
<1>1. CASE kind = "ptpIn"
  BY <1>1, PtpInTells, PtpInPeers DEF IssueSet
<1>2. CASE kind = "foreign"
  BY <1>2, ForeignTells DEF IssueSet
<1>3. CASE kind = "cn"
  BY <1>3, CnTells DEF IssueSet, EngineTold, PeersTold, HasPeers, NeedsLogin
<1>4. CASE kind = "ptpf"
  BY <1>4, PtpfTells DEF IssueSet, PeersTold, HasPeers
<1>5. CASE kind = "sat"
  BY <1>5, SatTells DEF IssueSet, EngineTold, PeersTold, HasPeers, NeedsLogin
<1>. QED
  BY <1>1, <1>2, <1>3, <1>4, <1>5 DEF Kinds

-----------------------------------------------------------------------------
(* The steps, as the rest of the proof sees them.                          *)

ToTell == ToSet(todo)
Here == board /\ bid /\ ~hist.unseen

(* A dialogue for m begins.                                                *)
Begun(m) ==
  /\ m \in Memory /\ mem' = m /\ at' = "issue" /\ todo = <<>> /\ Block(todo', IssueSet(m))
  /\ UNCHANGED <<kind, board, module, bid, sent>>
  /\ hist'.unseen = FALSE /\ hist'.later = hist.later /\ hist'.halted = hist.halted

SameHistory == \A f \in {"unseen", "later", "left", "halted"} : hist'[f] = hist[f]
(* What the module has, and what is to be told, stay as they are.          *)
Calm ==
  /\ UNCHANGED <<kind, board, bid, mem, sent, todo>>
  /\ SameBut(module', module, "class") /\ SameHistory
(* The daemon goes on to another place, and nothing is left to tell.       *)
Moves ==
  /\ at \notin {"off", "look"} /\ at' \notin {"off", "greet", "issue"} /\ todo = <<>>
  /\ ~(at = "push" /\ power /\ bid)
  /\ power' => at = "greet"
  /\ ~power' /\ old' /\ bid => at = "issue" \/ (at # "greet" /\ ~power /\ old)

LEMMA StoreBegins ==
  ASSUME Structure, Store
  PROVE  \E m : Begun(m) /\ at = "drain" /\ hist'.left = hist.left \cup Lost(mem, m)
                /\ (saved' = Nothing \/ saved' = Kept(m)) /\ UNCHANGED <<power, old>>
<1>. DEFINE m == Head(queue)
<1>1. /\ at = "drain" /\ queue # <<>> /\ mem' = m /\ Issue(m)
      /\ saved' = IF saved = Nothing THEN Nothing ELSE Kept(m)
      /\ hist' = [hist EXCEPT !.unseen = FALSE, !.left = @ \cup Lost(mem, m)]
      /\ UNCHANGED <<kind, board, module, power, old, bid, sent>>
  BY DEF Store, slotVars
<1>2. m \in Memory /\ todo = <<>> /\ kind \in Kinds /\ hist \in History
  BY <1>1, StructureParts DEF GivenTypes, Places, SlotTypes, HistoryTypes
<1>. HIDE DEF m
<1>3. Block(todo', IssueSet(m)) /\ at' = "issue"
  BY <1>1, <1>2, BeginsDialogue
<1>4. /\ hist'.unseen = FALSE /\ hist'.later = hist.later /\ hist'.halted = hist.halted
      /\ hist'.left = hist.left \cup Lost(mem, m)
  BY <1>1, <1>2 DEF History
<1>5. Begun(m)
  BY <1>1, <1>2, <1>3, <1>4 DEF Begun
<1>. QED
  BY <1>1, <1>4, <1>5

LEMMA PushBegins ==
  ASSUME Structure, PushPull, Pushed \/ PoweredUp
  PROVE  \E m : Begun(m) /\ at = "push" /\ hist'.left = hist.left \cup module.peers
                /\ saved' \in Settings /\ SameSettings(m, saved')
                /\ (old => saved' = saved) /\ UNCHANGED <<power, old>>
<1>1. PICK s \in Settings :
        /\ saved' = s /\ Configures(Read(s)) /\ bid
        /\ Pushed => s = Default /\ ~old
        /\ PoweredUp => s = saved /\ saved # Nothing /\ old /\ power
  BY ConfiguresFacts
<1>. DEFINE m == Read(s)
<1>2. m \in Memory /\ SameSettings(m, s)
  BY ReadFacts
<1>3. /\ mem' = m /\ Issue(m)
      /\ hist' = [hist EXCEPT !.unseen = FALSE, !.left = @ \cup module.peers]
      /\ UNCHANGED <<power, old>>
  BY <1>1 DEF Configures
<1>. HIDE DEF m
<1>4. at = "push" /\ todo = <<>> /\ UNCHANGED <<kind, board, module, bid, sent>>
  BY PushFacts
<1>5. kind \in Kinds /\ hist \in History
  BY StructureParts DEF SlotTypes, HistoryTypes
<1>6. Block(todo', IssueSet(m)) /\ at' = "issue"
  BY <1>2, <1>3, <1>4, <1>5, BeginsDialogue
<1>7. /\ hist'.unseen = FALSE /\ hist'.later = hist.later /\ hist'.halted = hist.halted
      /\ hist'.left = hist.left \cup module.peers
  BY <1>3, <1>5 DEF History
<1>8. Begun(m)
  BY <1>2, <1>3, <1>4, <1>6, <1>7 DEF Begun
<1>. QED
  BY <1>1, <1>2, <1>3, <1>4, <1>7, <1>8

LEMMA CalmSteps ==
  ASSUME Structure,
         \/ Notify \/ Drained \/ (PushPull /\ (Pulled \/ Same)) \/ Issued \/ Share \/ TellClass
         \/ Command \/ Clock \/ Alarm \/ Source \/ Thread \/ UNCHANGED vars
  PROVE  Calm /\ (Moves \/ UNCHANGED <<at, power, old, saved>>)
<1>1. Places
  BY StructureParts
<1>2. ASSUME UNCHANGED module PROVE SameBut(module', module, "class")
  BY <1>2 DEF SameBut
<1>3. ASSUME UNCHANGED hist PROVE SameHistory
  BY <1>3 DEF SameHistory
<1>4. CASE Notify \/ Drained
  <2>1. Calm
    BY <1>2, <1>3, <1>4 DEF Calm, Notify, Drained, slotVars
  <2>2. Moves
    BY <1>1, <1>4 DEF Moves, Notify, Drained, AfterMessages, Places
  <2>. QED
    BY <2>1, <2>2
<1>5. CASE PushPull /\ (Pulled \/ Same)
  <2>1. /\ at = "push" /\ todo = <<>> /\ UNCHANGED <<kind, board, module, bid, sent>>
        /\ UNCHANGED <<mem, todo, hist>> /\ EndPush
    BY <1>5, PushFacts DEF Pulled, Same
  <2>2. old' = bid /\ power' = FALSE /\ at' \in {"look", "share", "msgs", "class"}
    BY <2>1, EndPushFacts
  <2>3. Calm
    BY <1>2, <1>3, <2>1 DEF Calm
  <2>4. ~(power /\ bid) /\ (bid => old)
    BY <1>5 DEF Pulled, Same
  <2>5. Moves
    BY <2>1, <2>2, <2>4, StructureParts DEF Moves, DaemonTypes
  <2>. QED
    BY <2>3, <2>5
<1>6. CASE Issued
  <2>1. /\ at \in {"greet", "issue"} /\ todo = <<>> /\ todo' = <<>>
        /\ UNCHANGED <<kind, board, module, bid, mem, sent, hist>>
        /\ \/ at = "greet" /\ at' = "push" /\ UNCHANGED <<old, power>>
           \/ at = "issue" /\ message /\ at' = "drain" /\ UNCHANGED <<old, power>>
           \/ at = "issue" /\ ~message /\ EndPush
    BY <1>6, IssuedFacts
  <2>2. Calm
    BY <1>2, <1>3, <2>1 DEF Calm
  <2>3. EndPush => power' = FALSE /\ at' \in {"look", "share", "msgs", "class"}
    BY EndPushFacts
  <2>4. Moves
    BY <1>1, <2>1, <2>3 DEF Moves, Places
  <2>. QED
    BY <2>2, <2>4
<1>7. CASE Share
  <2>1. Calm
    BY <1>2, <1>3, <1>7 DEF Calm, Share, slotVars
  <2>2. Moves
    BY <1>1, <1>7 DEF Moves, Share, Places
  <2>. QED
    BY <2>1, <2>2
<1>8. CASE TellClass
  <2>1. /\ at = "class" /\ at' = "msgs"
        /\ UNCHANGED <<kind, board, power, old, bid, mem, sent, todo>>
        /\ SameBut(module', module, "class")
        /\ hist'.unseen = hist.unseen /\ hist'.later = hist.later
        /\ hist'.left = hist.left /\ hist'.halted = hist.halted
    BY <1>8, TellClassFacts
  <2>2. Calm
    BY <2>1 DEF Calm, SameHistory
  <2>3. Moves
    BY <1>1, <2>1 DEF Moves, Places
  <2>. QED
    BY <2>2, <2>3
<1>9. CASE Command \/ Clock \/ Alarm \/ Source \/ Thread \/ UNCHANGED vars
  <2>1. UNCHANGED <<kind, board, module, at, power, old, bid, mem, sent, todo, saved, hist>>
    BY <1>9 DEF Command, Clock, Alarm, Source, Thread, Unconcerned, vars, slotVars, daemonVars, givenVars
  <2>. QED
    BY <1>2, <1>3, <2>1 DEF Calm
<1>. QED
  BY <1>4, <1>5, <1>6, <1>7, <1>8, <1>9

LEMMA Steps ==
  ASSUME Structure, [Next]_vars
  PROVE  \/ Start \/ ReadBidFromFpga \/ Send \/ Dies \/ Swap
         \/ Store \/ (PushPull /\ (Pushed \/ PoweredUp))
         \/ Calm /\ (Moves \/ UNCHANGED <<at, power, old, saved>>)
<1>1. \/ Start \/ ReadBidFromFpga \/ Send \/ Dies \/ Swap
      \/ Store \/ (PushPull /\ (Pushed \/ PoweredUp))
      \/ Notify \/ Drained \/ (PushPull /\ (Pulled \/ Same)) \/ Issued \/ Share \/ TellClass
      \/ Command \/ Clock \/ Alarm \/ Source \/ Thread \/ UNCHANGED vars
  BY PushFacts DEF Next, Daemon
<1>. QED
  BY <1>1, CalmSteps

LEMMA StartFacts ==
  ASSUME Structure, Start
  PROVE  /\ at = "off" /\ at' = "look" /\ power' = TRUE /\ old' = (saved # Nothing) /\ bid' = FALSE
         /\ sent = Factory /\ todo = <<>> /\ hist'.later = FALSE
         /\ \A f \in {"unseen", "left", "halted"} : hist'[f] = hist[f]
         /\ UNCHANGED <<kind, board, module, mem, sent, todo, saved>>
<1>1. at = "off" /\ sent = Factory /\ todo = <<>> /\ hist \in History
  BY StructureParts DEF Start, Places, HistoryTypes
<1>2. hist' = [hist EXCEPT !.later = FALSE]
  BY DEF Start
<1>. QED
  BY <1>1, <1>2 DEF Start, slotVars, givenVars, History

LEMMA LookFacts ==
  ASSUME Structure, ReadBidFromFpga
  PROVE  /\ at = "look" /\ bid' = board /\ todo = <<>>
         /\ UNCHANGED <<kind, board, module, power, old, mem, sent, saved, hist>>
         /\ \/ at' = "greet" /\ kind = "sat" /\ power /\ ToSet(todo') = SatSet
            \/ at' \in {"msgs", "push"} /\ ~(kind = "sat" /\ power /\ board) /\ todo' = <<>>
<1>1. /\ at = "look" /\ bid' = board /\ todo = <<>>
      /\ UNCHANGED <<kind, board, module, power, old, mem, sent, saved, hist>>
  BY StructureParts DEF ReadBidFromFpga, slotVars, givenVars, Places
<1>2. CASE kind = "sat" /\ power /\ board
  <2>1. at' = "greet" /\ todo' = SetSatMode
    BY <1>2 DEF ReadBidFromFpga, IsInput
  <2>2. Block(SetSatMode, SatSet)
    BY SatBlocks
  <2>. QED
    BY <1>1, <1>2, <2>1, <2>2 DEF Block
<1>3. CASE ~(kind = "sat" /\ power /\ board)
  BY <1>1, <1>3 DEF ReadBidFromFpga
<1>. QED
  BY <1>2, <1>3

LEMMA DiesFacts ==
  ASSUME Structure, Dies
  PROVE  /\ at # "off" /\ at' = "off" /\ bid' = FALSE /\ power' = FALSE /\ todo' = <<>>
         /\ UNCHANGED <<kind, board, module, saved>>
         /\ \A f \in {"unseen", "later", "left"} : hist'[f] = hist[f]
         /\ hist.halted => hist'.halted
         /\ module.engine = "off" /\ saved = Nothing => hist'.halted
<1>1. hist \in History
  BY StructureParts DEF HistoryTypes
<1>. DEFINE b == hist.halted \/ (module.engine = "off" /\ saved = Nothing)
<1>2. hist' = [hist EXCEPT !.halted = b]
  BY DEF Dies
<1>3. hist'.halted = b /\ \A f \in {"unseen", "later", "left"} : hist'[f] = hist[f]
  <2>. HIDE DEF b
  <2>. QED
    BY <1>1, <1>2 DEF History
<1>. QED
  BY <1>3 DEF Dies, slotVars, givenVars

(* A command is told: c is off the list, and the module made of it what it *)
(* does, if there is one.                                                  *)
Telling(c) ==
  /\ at \in {"greet", "issue"} /\ ToTell = {c} \cup ToTell' /\ (\A d \in ToTell' : ~Wrong(c, d))
  /\ todo # <<>> /\ c = Head(todo)
  /\ at = "issue" => Fits(mem, c)
  /\ at = "greet" => c \in SatSet
  /\ c[1] = "set" => c[2] \in SetRegisters
  /\ UNCHANGED <<kind, board, at, power, old, bid, saved, hist>>
  /\ SameSettings(mem', mem)
  /\ c[1] = "remember" => at = "issue" /\ mem' = [mem EXCEPT ![c[2]] = c[3]]
  /\ c[1] # "remember" => mem' = mem
  /\ sent' = IF c[1] = "sent" THEN c[2] ELSE sent
  /\ board => Effect(module', module, c)
  /\ ~board => module' = module

LEMMA SendTells ==
  ASSUME Structure, Send
  PROVE  \E c : Telling(c)
<1>. DEFINE c == Head(todo)
<1>1. /\ at \in {"greet", "issue"} /\ Dialogue(todo) /\ todo # <<>>
      /\ Dialogue(todo') /\ ToSet(todo) = {c} \cup ToSet(todo')
      /\ \A d \in ToSet(todo') : ~Wrong(c, d)
      /\ at = "issue" => Fits(mem, c)
      /\ at = "greet" => c \in SatSet
      /\ c[1] = "set" => c[2] \in SetRegisters
      /\ module' = Written(c)
      /\ UNCHANGED <<kind, board, at, power, old, bid, message, notified, saved, shown, queue,
                     hist, used, world, qualityVars>>
      /\ SameSettings(mem', mem) /\ mem' \in Memory
      /\ c[1] = "remember" => at = "issue" /\ mem' = [mem EXCEPT ![c[2]] = c[3]]
      /\ c[1] # "remember" => mem' = mem
      /\ sent' = IF c[1] = "sent" THEN c[2] ELSE sent
  BY SendFacts
<1>2. c = Head(todo)
  OBVIOUS
<1>. HIDE DEF c
<1>3. (board => Effect(module', module, c)) /\ (~board => module' = module)
  BY <1>1, WrittenFacts
<1>4. Telling(c)
  BY <1>1, <1>2, <1>3 DEF Telling, ToTell
<1>. QED
  BY <1>4

LEMMA TellStep ==
  ASSUME NEW S, NEW T, NEW c, S = {c} \cup T
  PROVE  /\ \A v, r : Tell(S, v, r) <=> Tell(T, v, r) \/ (c[1] = v /\ c[2] = r)
         /\ \A v : Tells(S, v) <=> Tells(T, v) \/ c[1] = v
         /\ \A v : Switches(S, v) <=> Switches(T, v) \/ (c[1] = "set" /\ c[2] = "engine" /\ c[3] = v)
BY DEF Tell, Tells, Switches

LEMMA NothingTold ==
  /\ ToSet(<<>>) = {}
  /\ \A v, r : ~Tell({}, v, r)
  /\ \A v : ~Tells({}, v) /\ ~Switches({}, v)
BY EmptyBlock DEF Tell, Tells, Switches, Block

-----------------------------------------------------------------------------
(* A module with a shell is told the login first; one that was not logged  *)
(* into has its engine on, and no peers.                                   *)

LoginFirst ==
  /\ at = "issue" /\ NeedsLogin /\ board /\ (Here \/ ~hist.later) =>
       module.login \/ (todo # <<>> /\ Head(todo)[1] = "login")
  /\ NeedsLogin /\ ~module.login => module.peers = {} /\ module.engine = "on"

LEMMA LoginIsHead ==
  ASSUME NEW s, NEW S, Block(s, S), <<"login">> \in S
  PROVE  s # <<>> /\ Head(s)[1] = "login"
<1>1. s \in Seq(ToSet(s)) /\ Orderly(s) /\ <<"login">> \in ToSet(s)
  BY DEF Block, Dialogue, IsSeq
<1>2. PICK i \in DOMAIN s : s[i] = <<"login">>
  BY <1>1 DEF ToSet
<1>3. DOMAIN s = 1..Len(s) /\ Len(s) \in Nat
  BY <1>1
<1>4. ~(1 < i)
  <2>1. Wrong(s[1], s[i])
    BY <1>2 DEF Wrong
  <2>. QED
    BY <1>1, <1>2, <1>3, <2>1 DEF Orderly
<1>5. i = 1
  BY <1>2, <1>3, <1>4
<1>. QED
  BY <1>1, <1>2, <1>3, <1>5

LEMMA LoginBegun ==
  ASSUME Structure, LoginFirst, NEW m, Begun(m)
  PROVE  LoginFirst'
<1>1. /\ m \in Memory /\ Block(todo', IssueSet(m)) /\ UNCHANGED <<kind, module>>
  BY DEF Begun
<1>2. NeedsLogin => todo' # <<>> /\ Head(todo')[1] = "login"
  <2>1. NeedsLogin => <<"login">> \in IssueSet(m)
    BY <1>1, IssueTells, StructureParts DEF SlotTypes, EngineTold
  <2>. QED
    BY <1>1, <2>1, LoginIsHead
<1>. QED
  BY <1>1, <1>2 DEF LoginFirst, NeedsLogin

LEMMA LoginTelling ==
  ASSUME Structure, LoginFirst, NEW c, Telling(c)
  PROVE  LoginFirst'
<1>1. /\ UNCHANGED <<kind, board, at, bid, hist>> /\ todo # <<>> /\ c = Head(todo)
      /\ board => Effect(module', module, c)
      /\ ~board => module' = module
      /\ c[1] = "set" => c[2] \in SetRegisters
  BY DEF Telling
<1>2. board => (c[1] = "login" => module'.login) /\ (module.login => module'.login)
  BY <1>1 DEF Effect, SameBut, Registers, SetRegisters
<1>3. (at = "issue" /\ NeedsLogin /\ board /\ (Here \/ ~hist.later) =>
         module.login \/ (todo # <<>> /\ Head(todo)[1] = "login"))'
  BY <1>1, <1>2 DEF LoginFirst, NeedsLogin, Here
<1>4. ASSUME NeedsLogin, ~module'.login PROVE module'.peers = {} /\ module'.engine = "on"
  <2>1. ~module.login
    BY <1>1, <1>2, <1>4
  <2>2. module' = module
    BY <1>1, <1>2, <1>4, <2>1 DEF Effect, Hearing
  <2>. QED
    BY <1>4, <2>1, <2>2 DEF LoginFirst
<1>. QED
  BY <1>1, <1>3, <1>4 DEF LoginFirst, NeedsLogin

LEMMA LoginStays ==
  ASSUME Structure, LoginFirst, [Next]_vars
  PROVE  LoginFirst'
<1>1. CASE Start
  BY <1>1, StartFacts DEF LoginFirst, NeedsLogin
<1>2. CASE ReadBidFromFpga
  BY <1>2, LookFacts DEF LoginFirst, NeedsLogin
<1>3. CASE Send
  BY <1>3, SendTells, LoginTelling
<1>4. CASE Dies
  BY <1>4, DiesFacts DEF LoginFirst, NeedsLogin
<1>5. CASE Swap
  <2>1. /\ UNCHANGED <<kind, at, bid>> /\ module' = NewModule
        /\ hist'.unseen = (at # "off" /\ bid /\ board') /\ hist'.later = (at # "off")
    BY <1>5, SwapFacts
  <2>. QED
    BY <2>1, NewFacts DEF LoginFirst, NeedsLogin, Here
<1>6. CASE Store
  BY <1>6, StoreBegins, LoginBegun
<1>7. CASE PushPull /\ (Pushed \/ PoweredUp)
  BY <1>7, PushBegins, LoginBegun
<1>8. CASE Calm /\ (Moves \/ UNCHANGED <<at, power, old, saved>>)
  <2>1. /\ UNCHANGED <<kind, board, bid, todo>> /\ (at' = "issue" => at = "issue")
        /\ hist'.unseen = hist.unseen /\ hist'.later = hist.later
    BY <1>8 DEF Calm, Moves, SameHistory
  <2>2. module'.login = module.login /\ module'.peers = module.peers /\ module'.engine = module.engine
    BY <1>8 DEF Calm, SameBut, Registers
  <2>. QED
    BY <2>1, <2>2 DEF LoginFirst, NeedsLogin, Here
<1>. QED
  BY <1>1, <1>2, <1>3, <1>4, <1>5, <1>6, <1>7, <1>8, Steps

(* A module that is in the hands of the daemon hears what it is told.      *)
LEMMA HearsWhatIsTold ==
  ASSUME LoginFirst, NEW c, Telling(c), at = "issue", board, Here \/ ~hist.later, c[1] # "login"
  PROVE  Hearing(module) /\ Effect(module', module, c)
BY DEF LoginFirst, Telling, Hearing

-----------------------------------------------------------------------------
(* An engine that is off is switched on again: by the dialogue, or by that *)
(* for the row of the board, which the daemon reads when it starts.        *)

EngineReturns ==
  HasPeers =>
    /\ Switches(ToTell, "off") => Switches(ToTell, "on")
    /\ \/ module.engine = "on" \/ hist.halted \/ Switches(ToTell, "on")
       \/ /\ saved # Nothing /\ Routed(saved)
          /\ at = "off" \/ (power /\ old /\ (at = "look" \/ (at = "push" /\ bid)))

LEMMA EngineBegun ==
  ASSUME Structure, EngineReturns, NEW m, Begun(m), UNCHANGED <<power, old>>,
         at \in {"drain", "push"}, old /\ at = "push" => saved' = saved /\ SameSettings(m, saved')
  PROVE  EngineReturns'
<1>1. /\ m \in Memory /\ todo = <<>> /\ ToTell' = IssueSet(m) /\ UNCHANGED <<kind, module>>
      /\ hist'.halted = hist.halted /\ at' = "issue"
  BY DEF Begun, Block, ToTell
<1>2. HasPeers => \A v \in {"on", "off"} : Switches(ToTell', v) <=> Routed(m)
  BY <1>1, IssueTells, StructureParts DEF SlotTypes, EngineTold
<1>3. ~Switches(ToTell, "on")
  BY <1>1, NothingTold DEF ToTell
<1>4. power => at \in {"look", "greet", "push", "issue"}
  BY StructureParts DEF Places
<1>5. \/ ~HasPeers \/ module.engine = "on" \/ hist.halted
      \/ saved # Nothing /\ Routed(saved) /\ old /\ at = "push"
  BY <1>3, <1>4 DEF EngineReturns
<1>6. HasPeers /\ saved # Nothing /\ Routed(saved) /\ old /\ at = "push" => Switches(ToTell', "on")
  BY <1>2 DEF Routed, SameSettings
<1>. QED
  BY <1>1, <1>2, <1>5, <1>6 DEF EngineReturns, HasPeers

LEMMA EngineTelling ==
  ASSUME Structure, LoginFirst, EngineReturns, NEW c, Telling(c)
  PROVE  EngineReturns'
<1>. SUFFICES ASSUME HasPeers PROVE EngineReturns'
  BY DEF EngineReturns, HasPeers, Telling
<1>1. /\ UNCHANGED <<kind, board, at, bid, hist>> /\ at \in {"greet", "issue"}
      /\ ToTell = {c} \cup ToTell' /\ (\A d \in ToTell' : ~Wrong(c, d))
      /\ board => Effect(module', module, c)
      /\ ~board => module' = module
      /\ c[1] = "set" => c[2] \in SetRegisters
      /\ at = "issue" => Fits(mem, c)
      /\ at = "greet" => c \in SatSet
  BY DEF Telling
<1>2. \A v : Switches(ToTell, v) <=> Switches(ToTell', v) \/ (c[1] = "set" /\ c[2] = "engine" /\ c[3] = v)
  BY <1>1, TellStep
<1>3. at = "issue"
  BY <1>1, StructureParts DEF Places, HasPeers
<1>4. CASE c[1] = "set" /\ c[2] = "engine" /\ c[3] = "on"
  <2>1. ~Switches(ToTell', "off")
    BY <1>1, <1>4 DEF Switches, Wrong
  <2>2. module'.engine = "on"
    <3>1. CASE ~board
      BY <1>1, <3>1, NewFacts, StructureParts DEF Places
    <3>2. CASE board /\ Hearing(module)
      BY <1>1, <1>4, <3>2 DEF Effect
    <3>3. CASE board /\ ~Hearing(module)
      BY <1>1, <1>4, <3>3 DEF Effect, LoginFirst, Hearing
    <3>. QED
      BY <3>1, <3>2, <3>3
  <2>. QED
    BY <2>1, <2>2 DEF EngineReturns
<1>5. CASE c[1] = "set" /\ c[2] = "engine" /\ c[3] # "on"
  <2>1. c[3] = "off"
    BY <1>1, <1>3, <1>5 DEF Fits, SetFits
  <2>2. Switches(ToTell', "on")
    BY <1>2, <1>5, <2>1 DEF EngineReturns
  <2>. QED
    BY <2>2 DEF EngineReturns
<1>6. CASE ~(c[1] = "set" /\ c[2] = "engine")
  <2>1. \A v : Switches(ToTell', v) <=> Switches(ToTell, v)
    BY <1>2, <1>6
  <2>2. module'.engine = module.engine
    BY <1>1, <1>6 DEF Effect, Hearing, SameBut, Registers, SetRegisters
  <2>. QED
    BY <1>1, <1>3, <2>1, <2>2 DEF EngineReturns
<1>. QED
  BY <1>4, <1>5, <1>6

LEMMA EngineStays ==
  ASSUME Structure, LoginFirst, EngineReturns, [Next]_vars
  PROVE  EngineReturns'
<1>1. CASE Start
  <2>1. /\ at' = "look" /\ power' = TRUE /\ old' = (saved # Nothing) /\ todo = <<>>
        /\ hist'.halted = hist.halted /\ UNCHANGED <<kind, module, todo, saved>>
    BY <1>1, StartFacts
  <2>2. ToTell = {} /\ ToTell' = {}
    BY <2>1, NothingTold DEF ToTell
  <2>. QED
    BY <2>1, <2>2, NothingTold DEF EngineReturns, HasPeers, Routed
<1>2. CASE ReadBidFromFpga
  <2>1. /\ at = "look" /\ bid' = board /\ todo = <<>>
        /\ UNCHANGED <<kind, board, module, power, old, mem, sent, saved, hist>>
        /\ HasPeers => at' \in {"msgs", "push"} /\ todo' = <<>>
    BY <1>2, LookFacts DEF HasPeers
  <2>2. HasPeers => ToTell = {} /\ ToTell' = {}
    BY <2>1, NothingTold DEF ToTell
  <2>3. HasPeers /\ power => at' = "push"
    BY <1>2, <2>1 DEF ReadBidFromFpga, HasPeers, IsInput
  <2>4. ~board => module.engine = "on"
    BY NewFacts, StructureParts DEF Places
  <2>. QED
    BY <2>1, <2>2, <2>3, <2>4, NothingTold DEF EngineReturns, HasPeers, Routed
<1>3. CASE Send
  BY <1>3, SendTells, EngineTelling
<1>4. CASE Dies
  <2>1. /\ at # "off" /\ at' = "off" /\ todo' = <<>> /\ UNCHANGED <<kind, module, saved>>
        /\ hist.halted => hist'.halted
        /\ module.engine = "off" /\ saved = Nothing => hist'.halted
    BY <1>4, DiesFacts
  <2>2. ToTell' = {}
    BY <2>1, NothingTold DEF ToTell
  <2>3. module.engine \in {"on", "off"}
    BY StructureParts DEF ModuleType
  <2>4. ASSUME HasPeers, saved # Nothing, Switches(ToTell, "on") PROVE Routed(saved)
    <3>1. at = "issue" /\ AllFit(mem, ToTell) /\ saved = Kept(mem) /\ mem \in Memory
      <4>1. todo # <<>>
        BY <2>4, NothingTold DEF ToTell
      <4>. QED
        BY <2>4, <4>1, StructureParts DEF Places, CommandsFit, HasPeers, ToTell, DaemonTypes
    <3>2. Routed(mem)
      BY <2>4, <3>1 DEF Switches, AllFit, Fits, SetFits
    <3>. QED
      BY <3>1, <3>2, KeptFacts DEF Routed, SameSettings
  <2>. QED
    BY <2>1, <2>2, <2>3, <2>4, NothingTold DEF EngineReturns, HasPeers, Routed
<1>5. CASE Swap
  BY <1>5, SwapFacts, NewFacts DEF EngineReturns, HasPeers, ToTell
<1>6. CASE Store
  BY <1>6, StoreBegins, EngineBegun
<1>7. CASE PushPull /\ (Pushed \/ PoweredUp)
  BY <1>7, PushBegins, EngineBegun
<1>8. CASE Calm /\ (Moves \/ UNCHANGED <<at, power, old, saved>>)
  <2>1. UNCHANGED <<kind, bid, todo>> /\ hist'.halted = hist.halted
    BY <1>8 DEF Calm, SameHistory
  <2>2. module'.engine = module.engine
    BY <1>8 DEF Calm, SameBut, Registers
  <2>3. Moves => at # "off" /\ at # "look" /\ ~(at = "push" /\ power /\ bid)
    BY DEF Moves
  <2>. QED
    BY <1>8, <2>1, <2>2, <2>3 DEF EngineReturns, HasPeers, ToTell, Routed
<1>. QED
  BY <1>1, <1>2, <1>3, <1>4, <1>5, <1>6, <1>7, <1>8, Steps

-----------------------------------------------------------------------------
(* A module from abroad that was there when the daemon started has the     *)
(* address the daemon told last.                                           *)

NetIsSent ==
  kind = "foreign" /\ board /\ ~hist.later /\ at # "off" =>
    /\ sent = Factory \/ module.net = sent \/ Tell(ToTell, "sent", mem.net)
    /\ Tell(ToTell, "sent", mem.net) => module.net = mem.net \/ Tell(ToTell, "set", "net")
    /\ Tell(ToTell, "set", "net") => Tell(ToTell, "sent", mem.net)

LEMMA NetBegun ==
  ASSUME Structure, NetIsSent, NEW m, Begun(m), at \in {"drain", "push"}
  PROVE  NetIsSent'
<1>1. /\ m \in Memory /\ mem' = m /\ todo = <<>> /\ ToTell' = IssueSet(m)
      /\ UNCHANGED <<kind, module, board, sent>> /\ hist'.later = hist.later /\ at' = "issue"
  BY DEF Begun, Block, ToTell
<1>2. kind = "foreign" =>
        /\ Tell(ToTell', "set", "net") <=> Routed(m) \/ m.net # sent
        /\ Tell(ToTell', "sent", m.net) <=> Routed(m) \/ m.net # sent
  BY <1>1, IssueTells, StructureParts DEF SlotTypes, EngineTold
<1>3. ~Tell(ToTell, "sent", mem.net)
  BY <1>1, NothingTold DEF ToTell
<1>. QED
  BY <1>1, <1>2, <1>3 DEF NetIsSent

LEMMA NetTelling ==
  ASSUME Structure, LoginFirst, NetIsSent, NEW c, Telling(c)
  PROVE  NetIsSent'
<1>1. /\ UNCHANGED <<kind, board, at, hist>> /\ at \in {"greet", "issue"}
      /\ ToTell = {c} \cup ToTell' /\ (\A d \in ToTell' : ~Wrong(c, d))
      /\ c[1] = "set" => c[2] \in SetRegisters
      /\ at = "issue" => Fits(mem, c)
      /\ SameSettings(mem', mem)
      /\ sent' = IF c[1] = "sent" THEN c[2] ELSE sent
  BY DEF Telling
<1>2. \A v, r : Tell(ToTell, v, r) <=> Tell(ToTell', v, r) \/ (c[1] = v /\ c[2] = r)
  BY <1>1, TellStep
<1>. SUFFICES ASSUME kind = "foreign", board, ~hist.later, at # "off"
     PROVE  NetIsSent'
  BY <1>1 DEF NetIsSent
<1>3. at = "issue" /\ mem'.net = mem.net
  BY <1>1, StructureParts DEF Places, SameSettings
<1>4. board => Effect(module', module, c)
  BY DEF Telling
<1>5. c[1] # "login" => Hearing(module)
  BY <1>3, HearsWhatIsTold
<1>6. CASE c[1] = "sent"
  <2>1. c[2] = mem.net
    BY <1>1, <1>3, <1>6 DEF Fits
  <2>2. ~Tell(ToTell', "set", "net")
    BY <1>1, <1>6 DEF Tell, Wrong
  <2>3. module.net = mem.net
    BY <1>2, <1>6, <2>1, <2>2 DEF NetIsSent
  <2>4. module'.net = mem'.net /\ sent' = mem'.net
    BY <1>1, <1>3, <1>4, <1>6, <2>1, <2>3 DEF Effect
  <2>. QED
    BY <2>2, <2>4 DEF NetIsSent
<1>7. CASE c[1] = "set" /\ c[2] = "net"
  <2>1. module'.net = mem'.net
    BY <1>1, <1>3, <1>4, <1>5, <1>7 DEF Effect, Fits, SetFits
  <2>2. Tell(ToTell', "sent", mem'.net)
    BY <1>2, <1>3, <1>7 DEF NetIsSent
  <2>. QED
    BY <2>1, <2>2 DEF NetIsSent
<1>8. CASE c[1] # "sent" /\ ~(c[1] = "set" /\ c[2] = "net")
  <2>1. /\ Tell(ToTell', "sent", mem'.net) <=> Tell(ToTell, "sent", mem.net)
        /\ Tell(ToTell', "set", "net") <=> Tell(ToTell, "set", "net")
    BY <1>2, <1>3, <1>8
  <2>2. module'.net = module.net /\ sent' = sent
    BY <1>1, <1>4, <1>8 DEF Effect, Hearing, SameBut, Registers, SetRegisters
  <2>. QED
    BY <1>1, <1>3, <2>1, <2>2 DEF NetIsSent
<1>. QED
  BY <1>6, <1>7, <1>8

LEMMA NetStays ==
  ASSUME Structure, LoginFirst, NetIsSent, [Next]_vars
  PROVE  NetIsSent'
<1>1. CASE Start
  <2>1. sent' = Factory /\ todo' = <<>>
    BY <1>1, StartFacts
  <2>2. ToTell' = {}
    BY <2>1, NothingTold DEF ToTell
  <2>. QED
    BY <2>1, <2>2, NothingTold DEF NetIsSent
<1>2. CASE ReadBidFromFpga
  <2>1. /\ at = "look" /\ todo = <<>>
        /\ UNCHANGED <<kind, board, module, mem, sent, hist>>
        /\ kind = "foreign" => todo' = <<>>
    BY <1>2, LookFacts
  <2>2. kind = "foreign" => ToTell' = ToTell
    BY <2>1 DEF ToTell
  <2>. QED
    BY <2>1, <2>2 DEF NetIsSent
<1>3. CASE Send
  BY <1>3, SendTells, NetTelling
<1>4. CASE Dies
  BY <1>4, DiesFacts DEF NetIsSent
<1>5. CASE Swap
  BY <1>5, SwapFacts DEF NetIsSent
<1>6. CASE Store
  BY <1>6, StoreBegins, NetBegun
<1>7. CASE PushPull /\ (Pushed \/ PoweredUp)
  BY <1>7, PushBegins, NetBegun
<1>8. CASE Calm /\ (Moves \/ UNCHANGED <<at, power, old, saved>>)
  <2>1. UNCHANGED <<kind, board, mem, sent, todo>> /\ hist'.later = hist.later
    BY <1>8 DEF Calm, SameHistory
  <2>2. module'.net = module.net
    BY <1>8 DEF Calm, SameBut, Registers
  <2>3. at' # "off" => at # "off"
    BY <1>8 DEF Moves
  <2>. QED
    BY <2>1, <2>2, <2>3 DEF NetIsSent, ToTell
<1>. QED
  BY <1>1, <1>2, <1>3, <1>4, <1>5, <1>6, <1>7, <1>8, Steps

-----------------------------------------------------------------------------
(* A receiver that was there when the daemon started is set up.            *)

SatIsFixed ==
  kind = "sat" /\ board /\ at # "off" /\ ~(at = "look" /\ power) =>
    module.fixed = TRUE \/ hist.later \/ (at = "greet" /\ Tell(ToTell, "set", "fixed"))

LEMMA SatTelling ==
  ASSUME Structure, SatIsFixed, NEW c, Telling(c)
  PROVE  SatIsFixed'
<1>1. /\ UNCHANGED <<kind, board, at, power, hist>> /\ ToTell = {c} \cup ToTell'
      /\ c[1] = "set" => c[2] \in SetRegisters
      /\ at = "issue" => Fits(mem, c)
      /\ at = "greet" => c \in SatSet
      /\ at \in {"greet", "issue"}
      /\ board => Effect(module', module, c)
  BY DEF Telling
<1>2. \A v, r : Tell(ToTell, v, r) <=> Tell(ToTell', v, r) \/ (c[1] = v /\ c[2] = r)
  BY <1>1, TellStep
<1>. SUFFICES ASSUME kind = "sat", board PROVE SatIsFixed'
  BY <1>1 DEF SatIsFixed
<1>3. Hearing(module)
  BY DEF Hearing, NeedsLogin
<1>4. CASE c[1] = "set" /\ c[2] = "fixed"
  <2>1. c[3] = TRUE
    BY <1>1, <1>4, SatCommands DEF Fits, SetFits
  <2>2. module'.fixed = TRUE
    BY <1>1, <1>3, <1>4, <2>1 DEF Effect
  <2>. QED
    BY <2>2 DEF SatIsFixed
<1>5. CASE ~(c[1] = "set" /\ c[2] = "fixed")
  <2>1. module'.fixed = module.fixed
    BY <1>1, <1>3, <1>5 DEF Effect, SameBut, Registers, SetRegisters
  <2>2. Tell(ToTell', "set", "fixed") <=> Tell(ToTell, "set", "fixed")
    BY <1>2, <1>5
  <2>. QED
    BY <1>1, <2>1, <2>2 DEF SatIsFixed
<1>. QED
  BY <1>4, <1>5

LEMMA SatBegun ==
  ASSUME SatIsFixed, NEW m, Begun(m), at \in {"drain", "push"}
  PROVE  SatIsFixed'
BY DEF SatIsFixed, Begun

LEMMA SatStays ==
  ASSUME Structure, SatIsFixed, [Next]_vars
  PROVE  SatIsFixed'
<1>1. CASE Start
  BY <1>1, StartFacts DEF SatIsFixed
<1>2. CASE ReadBidFromFpga
  <2>1. /\ at = "look" /\ UNCHANGED <<kind, board, module, power, hist>>
        /\ \/ at' = "greet" /\ kind = "sat" /\ power /\ ToTell' = SatSet
           \/ at' \in {"msgs", "push"} /\ ~(kind = "sat" /\ power /\ board)
    BY <1>2, LookFacts DEF ToTell
  <2>2. Tell(SatSet, "set", "fixed")
    BY TellFixing DEF SatSet, Tell
  <2>. QED
    BY <2>1, <2>2 DEF SatIsFixed
<1>3. CASE Send
  BY <1>3, SendTells, SatTelling
<1>4. CASE Dies
  BY <1>4, DiesFacts DEF SatIsFixed
<1>5. CASE Swap
  BY <1>5, SwapFacts DEF SatIsFixed
<1>6. CASE Store
  BY <1>6, StoreBegins, SatBegun
<1>7. CASE PushPull /\ (Pushed \/ PoweredUp)
  BY <1>7, PushBegins, SatBegun
<1>8. CASE Calm /\ Moves
  <2>1. UNCHANGED <<kind, board>> /\ hist'.later = hist.later /\ module'.fixed = module.fixed
    BY <1>8 DEF Calm, SameHistory, SameBut, Registers
  <2>2. at \notin {"off", "look"} /\ ~Tell(ToTell, "set", "fixed")
    BY <1>8, NothingTold DEF Moves, ToTell
  <2>. QED
    BY <2>1, <2>2 DEF SatIsFixed
<1>9. CASE Calm /\ UNCHANGED <<at, power>>
  <2>1. UNCHANGED <<kind, board, todo>> /\ hist'.later = hist.later /\ module'.fixed = module.fixed
    BY <1>9 DEF Calm, SameHistory, SameBut, Registers
  <2>. QED
    BY <1>9, <2>1 DEF SatIsFixed, ToTell
<1>. QED
  BY <1>1, <1>2, <1>3, <1>4, <1>5, <1>6, <1>7, <1>8, <1>9, Steps

-----------------------------------------------------------------------------
(* The module has what the daemon believes it has, or is to be told it.    *)

Owes(h, S, r, v) == h[r] = v \/ Tell(S, "set", r)
OwesRest(h, m, S, R) == \A r \in R : h.rest[r] = m.rest \/ Tell(S, "rest", r)
Agreeing(h, m, S) ==
  /\ kind # "sat" => Owes(h, S, "layer", m.layer)
  /\ kind \in {"ptpIn", "cn", "ptpf"} => Owes(h, S, "net", m.net)
  /\ kind = "foreign" => Owes(h, S, "net", m.net) \/ (hist.later /\ ~Routed(m))
  /\ kind \in {"ptpIn", "foreign", "cn"} => Owes(h, S, "cast", m.cast) /\ OwesRest(h, m, S, RestOfForeign)
  /\ HasPeers /\ Routed(m) => Owes(h, S, "fixed", TRUE)
  /\ kind = "ptpIn" => OwesRest(h, m, S, {"delayReq"})
  /\ kind = "cn" => OwesRest(h, m, S, {"ssm", "mac"})
  /\ kind = "cn" /\ m.cast = "uni" /\ m.peers # <<>> => Owes(h, S, "slave", Head(m.peers))
  /\ kind = "ptpf" => OwesRest(h, m, S, Five)
  /\ kind = "ptpf" /\ m.signal # "ptp" =>
       /\ Owes(h, S, "engine", "off")
       /\ Owes(h, S, "ntp", IF m.signal = "ntp" THEN "on" ELSE "off")
  /\ kind = "sat" => OwesRest(h, m, S, {"mode"})

Resting == at \notin {"off", "greet", "issue"} /\ ~power /\ old
ModuleAgrees ==
  /\ at = "issue" /\ Here => Agreeing(module, mem, ToTell)
  /\ Resting /\ Here => Agreeing(module, mem, {})

LEMMA AgreeingThen ==
  ASSUME kind' = kind, hist'.later = hist.later, NEW h, NEW m, NEW S, Agreeing(h, m, S),
         h = module', m = mem'
  PROVE  /\ S = ToTell' => Agreeing(module, mem, ToTell)'
         /\ S = {} => Agreeing(module, mem, {})'
BY DEF Agreeing, HasPeers, Owes, OwesRest, Routed

(* The class of the clock is no register of the settings.                  *)
LEMMA ClassIsApart ==
  ASSUME NEW h, NEW g, SameBut(h, g, "class"), NEW m, NEW S, Agreeing(g, m, S)
  PROVE  Agreeing(h, m, S)
<1>1. /\ h.layer = g.layer /\ h.net = g.net /\ h.cast = g.cast /\ h.fixed = g.fixed
      /\ h.slave = g.slave /\ h.engine = g.engine /\ h.ntp = g.ntp /\ h.rest = g.rest
  BY DEF SameBut, Registers
<1>. QED
  BY <1>1 DEF Agreeing, Owes, OwesRest

LEMMA AgreesBegun ==
  ASSUME Structure, NetIsSent, NEW m, Begun(m), at \in {"drain", "push"}
  PROVE  ModuleAgrees'
<1>1. /\ m \in Memory /\ mem' = m /\ todo = <<>> /\ ToTell' = IssueSet(m)
      /\ UNCHANGED <<kind, module, board, sent>> /\ hist'.later = hist.later /\ at' = "issue"
  BY DEF Begun, Block, ToTell
<1>2. RegistersTold(ToTell', m) /\ EngineTold(ToTell', m)
  BY <1>1, IssueTells, StructureParts DEF SlotTypes
<1>3. ASSUME board, kind = "foreign"
      PROVE  module'.net = m.net \/ Tell(ToTell', "set", "net") \/ (hist.later /\ ~Routed(m))
  <2>1. Tell(ToTell', "set", "net") \/ (m.net = sent /\ ~Routed(m))
    BY <1>2, <1>3 DEF EngineTold
  <2>2. ~hist.later => sent = Factory \/ module.net = sent
    BY <1>1, <1>3, NothingTold DEF NetIsSent, ToTell
  <2>3. m.net # Factory
    BY <1>1 DEF Memory, Values, Factory
  <2>. QED
    BY <1>1, <2>1, <2>2, <2>3
<1>4. ASSUME board PROVE Agreeing(module', m, ToTell')
  BY <1>2, <1>3, <1>4 DEF Agreeing, Owes, OwesRest, RegistersTold
<1>5. board => Agreeing(module, mem, ToTell)'
  BY <1>1, <1>4, AgreeingThen
<1>. QED
  BY <1>1, <1>5 DEF ModuleAgrees, Here, Resting

LEMMA OwesStays ==
  ASSUME NEW h, NEW g, NEW c, Effect(h, g, c), Hearing(g) \/ c[1] = "login",
         c[1] = "set" => c[2] \in SetRegisters, NEW S, NEW T, S = {c} \cup T
  PROVE  /\ \A r \in SetRegisters : \A v :
              Owes(g, S, r, v) /\ (c[1] = "set" /\ c[2] = r => c[3] = v) => Owes(h, T, r, v)
         /\ \A m, R : /\ R \subseteq RestRegisters /\ OwesRest(g, m, S, R)
                      /\ c[1] = "rest" => c[2] \in RestRegisters /\ c[3] = m.rest
                      => OwesRest(h, m, T, R)
<1>1. \A v, r : Tell(S, v, r) <=> Tell(T, v, r) \/ (c[1] = v /\ c[2] = r)
  BY TellStep
<1>2. ASSUME NEW r \in SetRegisters, NEW v, Owes(g, S, r, v), c[1] = "set" /\ c[2] = r => c[3] = v
      PROVE  Owes(h, T, r, v)
  <2>1. CASE c[1] = "set" /\ c[2] = r
    BY <1>2, <2>1 DEF Effect, Owes
  <2>2. CASE ~(c[1] = "set" /\ c[2] = r)
    <3>1. h[r] = g[r]
      BY <2>2 DEF Effect, SameBut, Registers, SetRegisters
    <3>. QED
      BY <1>1, <1>2, <2>2, <3>1 DEF Owes
  <2>. QED
    BY <2>1, <2>2
<1>3. ASSUME NEW m, NEW R, R \subseteq RestRegisters, OwesRest(g, m, S, R),
             c[1] = "rest" => c[2] \in RestRegisters /\ c[3] = m.rest
      PROVE  OwesRest(h, m, T, R)
  <2>. SUFFICES ASSUME NEW r \in R PROVE h.rest[r] = m.rest \/ Tell(T, "rest", r)
    BY DEF OwesRest
  <2>1. CASE c[1] = "rest" /\ c[2] = r
    BY <1>3, <2>1 DEF Effect
  <2>2. CASE c[1] = "rest" /\ c[2] # r
    <3>1. h.rest[r] = g.rest[r]
      BY <1>3, <2>2 DEF Effect
    <3>. QED
      BY <1>1, <1>3, <2>2, <3>1 DEF OwesRest
  <2>3. CASE c[1] # "rest"
    <3>1. h.rest = g.rest
      BY <2>3 DEF Effect, SameBut, Registers, SetRegisters
    <3>. QED
      BY <1>1, <1>3, <2>3, <3>1 DEF OwesRest
  <2>. QED
    BY <2>1, <2>2, <2>3
<1>. QED
  BY <1>2, <1>3

LEMMA AgreeingStays ==
  ASSUME kind \in Kinds, NEW h, NEW g, NEW c, Effect(h, g, c), Hearing(g) \/ c[1] = "login", NEW m, Fits(m, c),
         c[1] = "set" => c[2] \in SetRegisters, NEW S, NEW T, S = {c} \cup T, Agreeing(g, m, S)
  PROVE  Agreeing(h, m, T)
<1>1. /\ c[1] = "set" => SetFits(m, c[2], c[3])
      /\ c[1] = "rest" => c[2] \in RestRegisters /\ c[3] = m.rest
  BY DEF Fits
<1>2. \A r \in SetRegisters : \A v :
        Owes(g, S, r, v) /\ (c[1] = "set" /\ c[2] = r => c[3] = v) => Owes(h, T, r, v)
  BY OwesStays
<1>3. ASSUME NEW R, R \subseteq RestRegisters, OwesRest(g, m, S, R) PROVE OwesRest(h, m, T, R)
  BY <1>1, <1>3, OwesStays
<1>4. Owes(g, S, "layer", m.layer) => Owes(h, T, "layer", m.layer)
  BY <1>1, <1>2 DEF SetFits, SetRegisters
<1>5. Owes(g, S, "net", m.net) => Owes(h, T, "net", m.net)
  BY <1>1, <1>2 DEF SetFits, SetRegisters
<1>6. Owes(g, S, "cast", m.cast) => Owes(h, T, "cast", m.cast)
  BY <1>1, <1>2 DEF SetFits, SetRegisters
<1>7. Owes(g, S, "fixed", TRUE) => Owes(h, T, "fixed", TRUE)
  BY <1>1, <1>2 DEF SetFits, SetRegisters
<1>8. Owes(g, S, "slave", Head(m.peers)) => Owes(h, T, "slave", Head(m.peers))
  BY <1>1, <1>2 DEF SetFits, SetRegisters
<1>9. ~HasPeers /\ Owes(g, S, "engine", "off") => Owes(h, T, "engine", "off")
  BY <1>1, <1>2 DEF SetFits, SetRegisters
<1>10. \A v : v = (IF m.signal = "ntp" THEN "on" ELSE "off") /\ Owes(g, S, "ntp", v) => Owes(h, T, "ntp", v)
  BY <1>1, <1>2 DEF SetFits, SetRegisters
<1>11. /\ RestOfForeign \subseteq RestRegisters /\ {"delayReq"} \subseteq RestRegisters
       /\ {"ssm", "mac"} \subseteq RestRegisters /\ {"mode"} \subseteq RestRegisters
       /\ Five \subseteq RestRegisters
  BY DEF RestOfForeign, RestRegisters, Five
<1>12. /\ OwesRest(g, m, S, RestOfForeign) => OwesRest(h, m, T, RestOfForeign)
       /\ OwesRest(g, m, S, {"delayReq"}) => OwesRest(h, m, T, {"delayReq"})
       /\ OwesRest(g, m, S, {"ssm", "mac"}) => OwesRest(h, m, T, {"ssm", "mac"})
       /\ OwesRest(g, m, S, {"mode"}) => OwesRest(h, m, T, {"mode"})
       /\ OwesRest(g, m, S, Five) => OwesRest(h, m, T, Five)
  BY <1>3, <1>11
<1>. QED
  BY <1>4, <1>5, <1>6, <1>7, <1>8, <1>9, <1>10, <1>12 DEF Agreeing, HasPeers

LEMMA AgreeingSame ==
  ASSUME NEW h, NEW m, NEW n, SameSettings(n, m), NEW S, Agreeing(h, m, S)
  PROVE  Agreeing(h, n, S)
BY DEF Agreeing, SameSettings, Owes, OwesRest, Routed

LEMMA AgreesTelling ==
  ASSUME Structure, LoginFirst, ModuleAgrees, NEW c, Telling(c)
  PROVE  ModuleAgrees'
<1>1. /\ UNCHANGED <<kind, board, at, bid, power, old, hist>> /\ at \in {"greet", "issue"}
      /\ ToTell = {c} \cup ToTell'
      /\ c[1] = "set" => c[2] \in SetRegisters
      /\ at = "issue" => Fits(mem, c)
      /\ SameSettings(mem', mem)
      /\ board => Effect(module', module, c)
  BY DEF Telling
<1>2. ASSUME at = "issue", Here PROVE Agreeing(module, mem, ToTell)'
  <2>1. Hearing(module) \/ c[1] = "login"
    BY <1>2, HearsWhatIsTold DEF Here
  <2>2. Effect(module', module, c) /\ Fits(mem, c) /\ kind \in Kinds
    BY <1>1, <1>2, StructureParts DEF Here, SlotTypes
  <2>3. Agreeing(module, mem, ToTell)
    BY <1>2 DEF ModuleAgrees
  <2>4. Agreeing(module', mem, ToTell')
    BY <1>1, <2>1, <2>2, <2>3, AgreeingStays
  <2>5. Agreeing(module', mem', ToTell')
    BY <1>1, <2>4, AgreeingSame
  <2>. QED
    BY <1>1, <2>5, AgreeingThen
<1>. QED
  BY <1>1, <1>2 DEF ModuleAgrees, Here, Resting

LEMMA AgreesStays ==
  ASSUME Structure, LoginFirst, NetIsSent, ModuleAgrees, [Next]_vars
  PROVE  ModuleAgrees'
<1>1. CASE Start
  BY <1>1, StartFacts DEF ModuleAgrees, Resting
<1>2. CASE ReadBidFromFpga
  <2>1. /\ at = "look" /\ bid' = board /\ at' \in {"greet", "msgs", "push"}
        /\ UNCHANGED <<kind, board, module, power, old, mem, hist>>
    BY <1>2, LookFacts
  <2>2. ASSUME (Resting /\ Here)' PROVE Agreeing(module, mem, {})'
    <3>1. Resting /\ Here
      BY <2>1, <2>2, StructureParts DEF Resting, Here, Places
    <3>2. Agreeing(module', mem', {})
      BY <2>1, <3>1 DEF ModuleAgrees
    <3>. QED
      BY <2>1, <3>2, AgreeingThen
  <2>. QED
    BY <2>1, <2>2 DEF ModuleAgrees
<1>3. CASE Send
  BY <1>3, SendTells, AgreesTelling
<1>4. CASE Dies
  BY <1>4, DiesFacts DEF ModuleAgrees, Resting
<1>5. CASE Swap
  <2>1. /\ UNCHANGED <<at, bid>> /\ hist'.unseen = (at # "off" /\ bid /\ board')
    BY <1>5, SwapFacts
  <2>2. at = "off" => ~bid
    BY StructureParts DEF Places
  <2>. QED
    BY <2>1, <2>2 DEF ModuleAgrees, Here
<1>6. CASE Store
  BY <1>6, StoreBegins, AgreesBegun
<1>7. CASE PushPull /\ (Pushed \/ PoweredUp)
  BY <1>7, PushBegins, AgreesBegun
<1>8. CASE Calm /\ Moves
  <2>1. UNCHANGED <<kind, board, bid, mem>> /\ SameBut(module', module, "class")
        /\ hist'.later = hist.later /\ hist'.unseen = hist.unseen
    BY <1>8 DEF Calm, SameHistory
  <2>2. at' # "issue" /\ ToTell = {} /\ (Resting' /\ bid => at = "issue" \/ Resting)
    BY <1>8, NothingTold, <2>1 DEF Moves, ToTell, Resting
  <2>3. Resting' /\ Here' => Agreeing(module, mem, {})
    BY <2>1, <2>2 DEF ModuleAgrees, Here
  <2>4. Resting' /\ Here' => Agreeing(module', mem', {})
    BY <2>1, <2>3, ClassIsApart
  <2>5. Resting' /\ Here' => Agreeing(module, mem, {})'
    BY <2>1, <2>4, AgreeingThen
  <2>. QED
    BY <2>2, <2>5 DEF ModuleAgrees
<1>9. CASE Calm /\ UNCHANGED <<at, power, old>>
  <2>1. UNCHANGED <<kind, board, bid, mem, todo>> /\ SameBut(module', module, "class")
        /\ hist'.later = hist.later /\ hist'.unseen = hist.unseen
    BY <1>9 DEF Calm, SameHistory
  <2>2. /\ at = "issue" /\ Here => Agreeing(module', mem', ToTell')
        /\ Resting /\ Here => Agreeing(module', mem', {})
    BY <2>1, ClassIsApart DEF ModuleAgrees, ToTell
  <2>3. /\ at = "issue" /\ Here => Agreeing(module, mem, ToTell)'
        /\ Resting /\ Here => Agreeing(module, mem, {})'
    BY <2>1, <2>2, AgreeingThen
  <2>. QED
    BY <1>9, <2>1, <2>3 DEF ModuleAgrees, Here, Resting
<1>. QED
  BY <1>1, <1>2, <1>3, <1>4, <1>5, <1>6, <1>7, <1>8, <1>9, Steps

(* The settings of a module that is in hand.                               *)
LEMMA AgreesAtRest ==
  ASSUME Structure, EngineReturns, SatIsFixed, ModuleAgrees, InHand
  PROVE  Agrees
<1>1. /\ at \in {"msgs", "look", "class", "share"} /\ ~power /\ board /\ bid /\ old /\ ~hist.unseen
      /\ kind \in Kinds
  BY StructureParts DEF InHand, AtRest, SlotTypes
<1>2. Agreeing(module, mem, {})
  BY <1>1 DEF ModuleAgrees, Resting, Here
<1>3. ToTell = {}
  BY <1>1, NothingTold, StructureParts DEF Places, ToTell
<1>4. HasPeers => Runs
  BY <1>1, <1>3, NothingTold DEF EngineReturns, Runs
<1>5. kind = "sat" => module.fixed \/ hist.later
  BY <1>1, <1>3, NothingTold DEF SatIsFixed
<1>6. \A r, v : Owes(module, {}, r, v) => module[r] = v
  BY NothingTold DEF Owes
<1>7. \A R : OwesRest(module, mem, {}, R) => TakenAs(R)
  BY NothingTold DEF OwesRest, TakenAs
<1>8. CASE kind = "ptpIn"
  <2>1. /\ module.layer = mem.layer /\ module.net = mem.net /\ module.cast = mem.cast
        /\ Routed(mem) => module.fixed = TRUE
    BY <1>2, <1>6, <1>8 DEF Agreeing, HasPeers
  <2>2. TakenAs(RestOfForeign) /\ TakenAs({"delayReq"})
    BY <1>2, <1>7, <1>8 DEF Agreeing
  <2>3. TakenAs(RestOfForeign \cup {"delayReq"})
    BY <2>2 DEF TakenAs
  <2>. QED
    BY <1>4, <1>8, <2>1, <2>3 DEF Agrees, LineAgrees, HasPeers
<1>9. CASE kind = "foreign"
  <2>1. /\ module.layer = mem.layer /\ module.cast = mem.cast
        /\ module.net = mem.net \/ (hist.later /\ ~Routed(mem))
        /\ Routed(mem) => module.fixed = TRUE
    BY <1>2, <1>6, <1>9 DEF Agreeing, HasPeers
  <2>2. TakenAs(RestOfForeign)
    BY <1>2, <1>7, <1>9 DEF Agreeing
  <2>. QED
    BY <1>4, <1>9, <2>1, <2>2 DEF Agrees, HasPeers
<1>10. CASE kind = "cn"
  <2>1. /\ module.layer = mem.layer /\ module.net = mem.net /\ module.cast = mem.cast
        /\ mem.cast = "uni" /\ mem.peers # <<>> => module.slave = Head(mem.peers)
    BY <1>2, <1>6, <1>10 DEF Agreeing
  <2>2. TakenAs(RestOfForeign) /\ TakenAs({"ssm", "mac"})
    BY <1>2, <1>7, <1>10 DEF Agreeing
  <2>3. TakenAs(RestOfForeign \cup {"ssm", "mac"})
    BY <2>2 DEF TakenAs
  <2>. QED
    BY <1>10, <2>1, <2>3 DEF Agrees, LineAgrees
<1>11. CASE kind = "ptpf"
  <2>1. /\ module.layer = mem.layer /\ module.net = mem.net
        /\ mem.signal # "ptp" => module.engine = "off"
        /\ mem.signal # "ptp" => module.ntp = IF mem.signal = "ntp" THEN "on" ELSE "off"
    BY <1>2, <1>6, <1>11 DEF Agreeing
  <2>2. TakenAs(Five)
    BY <1>2, <1>7, <1>11 DEF Agreeing
  <2>. QED
    BY <1>11, <2>1, <2>2 DEF Agrees, LineAgrees, Five
<1>12. CASE kind = "sat"
  <2>1. TakenAs({"mode"})
    BY <1>2, <1>7, <1>12 DEF Agreeing
  <2>. QED
    BY <1>5, <1>12, <2>1 DEF Agrees
<1>. QED
  BY <1>1, <1>8, <1>9, <1>10, <1>11, <1>12 DEF Kinds

SettingsInv ==
  Structure /\ LoginFirst /\ EngineReturns /\ NetIsSent /\ SatIsFixed /\ ModuleAgrees

LEMMA SettingsBegin ==
  ASSUME Init
  PROVE  SettingsInv
<1>1. at = "off" /\ module = NewModule /\ ToTell = {}
  BY NothingTold DEF Init, ToTell
<1>. QED
  BY <1>1, StructureBegins, NewFacts, NothingTold
  DEF SettingsInv, LoginFirst, EngineReturns, NetIsSent, SatIsFixed, ModuleAgrees, Resting

LEMMA SettingsStay ==
  ASSUME SettingsInv, [Next]_vars
  PROVE  SettingsInv'
BY StructureStays, LoginStays, EngineStays, NetStays, SatStays, AgreesStays DEF SettingsInv

(* Between two dialogues a module has what its daemon believes it has,     *)
(* whatever commands came, however often the daemon ended in the middle of *)
(* a dialogue and whenever the board was exchanged.                        *)
THEOREM AllRegisters == Spec => []RegistersAreSet
<1>1. Init => SettingsInv
  BY SettingsBegin
<1>2. SettingsInv /\ [Next]_vars => SettingsInv'
  BY SettingsStay
<1>3. SettingsInv => RegistersAreSet
  BY AgreesAtRest DEF SettingsInv, RegistersAreSet
<1>. QED
  BY <1>1, <1>2, <1>3, PTL DEF Spec

-----------------------------------------------------------------------------
(* The peers a module was given.                                           *)

Unicast(m) == HasPeers /\ m.cast = "uni" /\ (kind = "ptpIn" \/ m.layer = 3)
(* What the daemon remembers to have given.                                *)
Noted(m) == IF m.layer = 3 THEN m.ips = m.peers ELSE m.oldMac = m.mac
Peering(h, m, S) ==
  Unicast(m) =>
    /\ \A p \in GivenBy(m) : p \in h.peers \/ Tell(S, "add", p)
    /\ \A p \in GivenBy(m) : Tell(S, "delete", p) => Tell(S, "add", p)
    /\ Noted(m) \/ Tell(S, "remember", Memo(m))
PeersGiven ==
  /\ at = "issue" /\ Here => Peering(module, mem, ToTell)
  /\ Resting /\ Here => Peering(module, mem, {})

LEMMA PeeringThen ==
  ASSUME kind' = kind, NEW h, NEW m, NEW S, Peering(h, m, S), h.peers = module'.peers, m = mem'
  PROVE  /\ S = ToTell' => Peering(module, mem, ToTell)'
         /\ S = {} => Peering(module, mem, {})'
BY DEF Peering, Unicast, HasPeers, GivenBy, Noted, Memo

LEMMA PeersBegun ==
  ASSUME Structure, NEW m, Begun(m)
  PROVE  PeersGiven'
<1>1. /\ m \in Memory /\ mem' = m /\ ToTell' = IssueSet(m) /\ UNCHANGED <<kind, module, board>>
      /\ at' = "issue"
  BY DEF Begun, Block, ToTell
<1>2. PeersTold(ToTell', m)
  BY <1>1, IssueTells, StructureParts DEF SlotTypes
<1>3. Peering(module', m, ToTell')
  BY <1>2 DEF Peering, PeersTold, Unicast
<1>4. Peering(module, mem, ToTell)'
  BY <1>1, <1>3, PeeringThen
<1>. QED
  BY <1>1, <1>4 DEF PeersGiven, Resting

(* What a command does to what is remembered.                              *)
LEMMA Noting ==
  ASSUME Structure, NEW c, Telling(c), HasPeers
  PROVE  /\ mem \in Memory /\ mem' \in Memory /\ mem.layer \in {2, 3} /\ SameSettings(mem', mem)
         /\ at = "issue" /\ Fits(mem, c)
         /\ c[1] = "remember" =>
              \/ c[2] = "ips" /\ mem.layer = 3 /\ mem'.ips = mem.peers /\ mem'.oldMac = mem.oldMac
              \/ c[2] = "oldMac" /\ mem.layer = 2 /\ mem'.oldMac = mem.mac /\ mem'.ips = mem.ips
         /\ c[1] # "remember" => mem' = mem
<1>1. /\ at \in {"greet", "issue"} /\ SameSettings(mem', mem)
      /\ at = "issue" => Fits(mem, c)
      /\ c[1] = "remember" => at = "issue" /\ mem' = [mem EXCEPT ![c[2]] = c[3]]
      /\ c[1] # "remember" => mem' = mem
  BY DEF Telling
<1>2. at = "issue" /\ mem \in Memory
  BY <1>1, StructureParts DEF Places, HasPeers, DaemonTypes
<1>3. mem.layer \in {2, 3}
  BY <1>2 DEF Memory, Values
<1>4. CASE c[1] = "remember"
  <2>1. RememberFits(mem, c[2], c[3])
    BY <1>1, <1>2, <1>4 DEF Fits
  <2>2. /\ mem' \in Memory
        /\ c[2] = "ips" => mem'.ips = mem.peers /\ mem'.oldMac = mem.oldMac
        /\ c[2] = "oldMac" => mem'.oldMac = mem.mac /\ mem'.ips = mem.ips
    <3>1. CASE c[2] = "ips"
      BY <1>1, <1>2, <1>4, <2>1, <3>1 DEF Memory, RememberFits, Values
    <3>2. CASE c[2] = "oldMac"
      BY <1>1, <1>2, <1>4, <2>1, <3>2 DEF Memory, RememberFits, Values
    <3>. QED
      BY <2>1, <3>1, <3>2 DEF RememberFits
  <2>. QED
    BY <1>1, <1>2, <1>3, <1>4, <2>1, <2>2 DEF RememberFits
<1>. QED
  BY <1>1, <1>2, <1>3, <1>4

LEMMA PeersTelling ==
  ASSUME Structure, LoginFirst, PeersGiven, NEW c, Telling(c)
  PROVE  PeersGiven'
<1>1. /\ UNCHANGED <<kind, board, at, bid, power, old, hist>> /\ at \in {"greet", "issue"}
      /\ ToTell = {c} \cup ToTell' /\ (\A d \in ToTell' : ~Wrong(c, d))
      /\ c[1] = "set" => c[2] \in SetRegisters
      /\ board => Effect(module', module, c)
  BY DEF Telling
<1>2. \A v, r : Tell(ToTell, v, r) <=> Tell(ToTell', v, r) \/ (c[1] = v /\ c[2] = r)
  BY <1>1, TellStep
<1>3. ASSUME at = "issue", Here PROVE Peering(module', mem', ToTell')
  <2>. SUFFICES ASSUME Unicast(mem') PROVE
         /\ \A p \in GivenBy(mem') : p \in module'.peers \/ Tell(ToTell', "add", p)
         /\ \A p \in GivenBy(mem') : Tell(ToTell', "delete", p) => Tell(ToTell', "add", p)
         /\ Noted(mem') \/ Tell(ToTell', "remember", Memo(mem'))
    BY DEF Peering
  <2>1. HasPeers
    BY DEF Unicast
  <2>2. /\ mem.layer \in {2, 3} /\ SameSettings(mem', mem) /\ Fits(mem, c)
        /\ c[1] = "remember" =>
              \/ c[2] = "ips" /\ mem.layer = 3 /\ mem'.ips = mem.peers /\ mem'.oldMac = mem.oldMac
              \/ c[2] = "oldMac" /\ mem.layer = 2 /\ mem'.oldMac = mem.mac /\ mem'.ips = mem.ips
        /\ c[1] # "remember" => mem' = mem
    BY <2>1, Noting
  <2>3. Unicast(mem) /\ GivenBy(mem') = GivenBy(mem) /\ Memo(mem') = Memo(mem)
    BY <2>2 DEF Unicast, SameSettings, GivenBy, Memo
  <2>4. /\ \A p \in GivenBy(mem) : p \in module.peers \/ Tell(ToTell, "add", p)
        /\ \A p \in GivenBy(mem) : Tell(ToTell, "delete", p) => Tell(ToTell, "add", p)
        /\ Noted(mem) \/ Tell(ToTell, "remember", Memo(mem))
    BY <1>3, <2>3 DEF PeersGiven, Peering
  <2>5. Effect(module', module, c) /\ (c[1] # "login" => Hearing(module))
    BY <1>1, <1>3, HearsWhatIsTold DEF Here
  <2>6. Noted(mem') \/ Tell(ToTell', "remember", Memo(mem'))
    BY <1>2, <2>2, <2>3, <2>4 DEF Noted, Memo, SameSettings
  <2>7. CASE c[1] = "add"
    <3>1. module'.peers = module.peers \cup {c[2]}
      BY <2>5, <2>7 DEF Effect
    <3>2. \A p : ~Tell(ToTell', "delete", p)
      BY <1>1, <2>7 DEF Tell, Wrong
    <3>. QED
      BY <1>2, <2>3, <2>4, <2>6, <2>7, <3>1, <3>2
  <2>8. CASE c[1] = "delete"
    <3>1. module'.peers = module.peers \ {c[2]}
      BY <2>5, <2>8 DEF Effect
    <3>. QED
      BY <1>2, <2>3, <2>4, <2>6, <2>8, <3>1
  <2>9. CASE c[1] \notin {"add", "delete"}
    <3>1. module'.peers = module.peers
      BY <1>1, <2>5, <2>9 DEF Effect, SameBut, Registers, SetRegisters
    <3>. QED
      BY <1>2, <2>3, <2>4, <2>6, <2>9, <3>1
  <2>. QED
    BY <2>7, <2>8, <2>9
<1>4. at = "issue" /\ Here => Peering(module, mem, ToTell)'
  BY <1>1, <1>3, PeeringThen
<1>. QED
  BY <1>1, <1>4 DEF PeersGiven, Here, Resting

LEMMA PeersStay ==
  ASSUME Structure, LoginFirst, PeersGiven, [Next]_vars
  PROVE  PeersGiven'
<1>1. CASE Start
  BY <1>1, StartFacts DEF PeersGiven, Resting
<1>2. CASE ReadBidFromFpga
  <2>1. /\ at = "look" /\ bid' = board /\ at' \in {"greet", "msgs", "push"}
        /\ UNCHANGED <<kind, board, module, power, old, mem, hist>>
    BY <1>2, LookFacts
  <2>2. ASSUME (Resting /\ Here)' PROVE Peering(module, mem, {})'
    <3>1. Resting /\ Here
      BY <2>1, <2>2, StructureParts DEF Resting, Here, Places
    <3>2. Peering(module, mem, {})
      BY <3>1 DEF PeersGiven
    <3>. QED
      BY <2>1, <3>2, PeeringThen
  <2>. QED
    BY <2>1, <2>2 DEF PeersGiven
<1>3. CASE Send
  BY <1>3, SendTells, PeersTelling
<1>4. CASE Dies
  BY <1>4, DiesFacts DEF PeersGiven, Resting
<1>5. CASE Swap
  <2>1. /\ UNCHANGED <<at, bid>> /\ hist'.unseen = (at # "off" /\ bid /\ board')
    BY <1>5, SwapFacts
  <2>2. at = "off" => ~bid
    BY StructureParts DEF Places
  <2>. QED
    BY <2>1, <2>2 DEF PeersGiven, Here
<1>6. CASE Store
  BY <1>6, StoreBegins, PeersBegun
<1>7. CASE PushPull /\ (Pushed \/ PoweredUp)
  BY <1>7, PushBegins, PeersBegun
<1>8. CASE Calm /\ Moves
  <2>1. UNCHANGED <<kind, board, bid, mem>> /\ module'.peers = module.peers
        /\ hist'.unseen = hist.unseen
    BY <1>8 DEF Calm, SameHistory, SameBut, Registers
  <2>2. at' # "issue" /\ ToTell = {} /\ (Resting' /\ bid => at = "issue" \/ Resting)
    BY <1>8, NothingTold, <2>1 DEF Moves, ToTell, Resting
  <2>3. Resting' /\ Here' => Peering(module, mem, {})
    BY <2>1, <2>2 DEF PeersGiven, Here
  <2>4. Resting' /\ Here' => Peering(module, mem, {})'
    BY <2>1, <2>3, PeeringThen
  <2>. QED
    BY <2>2, <2>4 DEF PeersGiven
<1>9. CASE Calm /\ UNCHANGED <<at, power, old>>
  <2>1. UNCHANGED <<kind, board, bid, mem, todo>> /\ module'.peers = module.peers
        /\ hist'.unseen = hist.unseen
    BY <1>9 DEF Calm, SameHistory, SameBut, Registers
  <2>2. /\ at = "issue" /\ Here => Peering(module, mem, ToTell)
        /\ Resting /\ Here => Peering(module, mem, {})
        /\ ToTell' = ToTell
    BY <2>1 DEF PeersGiven, ToTell
  <2>3. /\ at = "issue" /\ Here => Peering(module, mem, ToTell)'
        /\ Resting /\ Here => Peering(module, mem, {})'
    BY <2>1, <2>2, PeeringThen
  <2>. QED
    BY <1>9, <2>1, <2>3 DEF PeersGiven, Here, Resting
<1>. QED
  BY <1>1, <1>2, <1>3, <1>4, <1>5, <1>6, <1>7, <1>8, <1>9, Steps

-----------------------------------------------------------------------------
(* The peers a module has: the daemon remembers them, is about to, or has  *)
(* forgotten them.  Those it remembers are taken back before it remembers  *)
(* others.                                                                 *)

IsKnown(p) ==
  \/ p \in hist.left \/ p \in ToSet(mem.ips) \/ p = mem.oldMac
  \/ Tell(ToTell, "remember", "ips") /\ p \in ToSet(mem.peers)
(* The daemon has not yet read the row of the board.                       *)
Starting == at = "off" \/ (power /\ (at = "look" \/ (at = "push" /\ bid)))
PeersKnown ==
  HasPeers =>
    /\ Starting \/ \A p \in module.peers : IsKnown(p)
    /\ Tells(ToTell, "add") =>
         Tell(ToTell, "remember", Memo(mem)) \/ (mem.layer = 2 /\ mem.oldMac = mem.mac)
    /\ Tell(ToTell, "remember", "ips") =>
         \A p \in ToSet(mem.ips) : p \in ToSet(mem.peers) \/ p \notin module.peers \/ Tell(ToTell, "delete", p)
    /\ Tell(ToTell, "remember", "oldMac") =>
         mem.oldMac = mem.mac \/ mem.oldMac \notin module.peers \/ Tell(ToTell, "delete", mem.oldMac)

(* A peer is no address of the lower layer, and "none" is neither.         *)
LEMMA PeerFacts ==
  /\ Peers \cap Macs = {} /\ "none" \notin Peerage
  /\ \A m \in Memory : /\ ToSet(m.ips) \subseteq Peers /\ ToSet(m.peers) \subseteq Peers
                       /\ m.mac \in Macs /\ m.oldMac \in Macs \cup {"none"} /\ m.layer \in {2, 3}
<1>1. Peers \cap Macs = {} /\ "none" \notin Peerage
  BY PtpModulesAssumption DEF Peerage, Macs
<1>2. ASSUME NEW m \in Memory
      PROVE  /\ ToSet(m.ips) \subseteq Peers /\ ToSet(m.peers) \subseteq Peers
             /\ m.mac \in Macs /\ m.oldMac \in Macs \cup {"none"} /\ m.layer \in {2, 3}
  <2>1. ToSet(m.ips) \subseteq Peers /\ ToSet(m.peers) \subseteq Peers
    BY ListFacts
  <2>. QED
    BY <2>1 DEF Memory, Values
<1>. QED
  BY <1>1, <1>2

LEMMA KnownBegun ==
  ASSUME Structure, NEW m, Begun(m),
         HasPeers => \A p \in module.peers : p \in hist'.left \/ p \in ToSet(m.ips) \/ p = m.oldMac
  PROVE  PeersKnown'
<1>1. /\ m \in Memory /\ mem' = m /\ ToTell' = IssueSet(m) /\ UNCHANGED <<kind, module>>
  BY DEF Begun, Block, ToTell
<1>2. PeersTold(ToTell', m)
  BY <1>1, IssueTells, StructureParts DEF SlotTypes
<1>3. HasPeers => \A p \in module'.peers : IsKnown(p)'
  BY <1>1 DEF IsKnown
<1>4. HasPeers => /\ Tells(ToTell', "add") => Tell(ToTell', "remember", Memo(m))
                  /\ Tell(ToTell', "remember", "ips") => \A p \in ToSet(m.ips) : Tell(ToTell', "delete", p)
                  /\ Tell(ToTell', "remember", "oldMac") => Tell(ToTell', "delete", m.oldMac)
  BY <1>2 DEF PeersTold
<1>. QED
  BY <1>1, <1>3, <1>4 DEF PeersKnown, HasPeers, Memo

LEMMA KnownTelling ==
  ASSUME Structure, LoginFirst, PeersKnown, NEW c, Telling(c)
  PROVE  PeersKnown'
<1>. SUFFICES ASSUME HasPeers PROVE PeersKnown'
  BY DEF PeersKnown, HasPeers, Telling
<1>1. /\ UNCHANGED <<kind, board, at, bid, power, old, hist>> /\ at \in {"greet", "issue"}
      /\ ToTell = {c} \cup ToTell' /\ (\A d \in ToTell' : ~Wrong(c, d))
      /\ c[1] = "set" => c[2] \in SetRegisters
      /\ board => Effect(module', module, c)
      /\ ~board => module' = module
  BY DEF Telling
<1>2. /\ \A v, r : Tell(ToTell, v, r) <=> Tell(ToTell', v, r) \/ (c[1] = v /\ c[2] = r)
      /\ \A v : Tells(ToTell, v) <=> Tells(ToTell', v) \/ c[1] = v
  BY <1>1, TellStep
<1>3. /\ mem.layer \in {2, 3} /\ SameSettings(mem', mem) /\ Fits(mem, c)
      /\ c[1] = "remember" =>
            \/ c[2] = "ips" /\ mem.layer = 3 /\ mem'.ips = mem.peers /\ mem'.oldMac = mem.oldMac
            \/ c[2] = "oldMac" /\ mem.layer = 2 /\ mem'.oldMac = mem.mac /\ mem'.ips = mem.ips
      /\ c[1] # "remember" => mem' = mem
  BY Noting
<1>4. mem'.layer = mem.layer /\ mem'.peers = mem.peers /\ mem'.mac = mem.mac /\ Memo(mem') = Memo(mem)
  BY <1>3 DEF SameSettings, Memo
<1>5. ~Starting
  BY <1>1 DEF Starting
<1>6. c[1] \in {"add", "remember"} => \A p : ~Tell(ToTell', "delete", p)
  BY <1>1 DEF Tell, Wrong
<1>7. Tells(ToTell', "add") =>
        Tell(ToTell', "remember", Memo(mem')) \/ (mem'.layer = 2 /\ mem'.oldMac = mem'.mac)
  <2>1. CASE c[1] = "remember" /\ c[2] = "ips"
    BY <1>1, <2>1 DEF Tells, Wrong
  <2>2. CASE c[1] = "remember" /\ c[2] = "oldMac"
    BY <1>3, <1>4, <2>2
  <2>3. CASE c[1] # "remember"
    BY <1>2, <1>3, <1>4, <2>3 DEF PeersKnown
  <2>. QED
    BY <1>3, <2>1, <2>2, <2>3
<1>8. /\ \A p \in module.peers : IsKnown(p)
      /\ Tells(ToTell, "add") =>
           Tell(ToTell, "remember", Memo(mem)) \/ (mem.layer = 2 /\ mem.oldMac = mem.mac)
      /\ Tell(ToTell, "remember", "ips") =>
           \A p \in ToSet(mem.ips) : p \in ToSet(mem.peers) \/ p \notin module.peers \/ Tell(ToTell, "delete", p)
      /\ Tell(ToTell, "remember", "oldMac") =>
           mem.oldMac = mem.mac \/ mem.oldMac \notin module.peers \/ Tell(ToTell, "delete", mem.oldMac)
  BY <1>5 DEF PeersKnown
<1>9. CASE ~board \/ ~Hearing(module)
  <2>1. module'.peers = {}
    <3>1. CASE ~board
      BY <1>1, <3>1, NewFacts, StructureParts DEF Places
    <3>2. CASE board /\ ~Hearing(module)
      BY <1>1, <3>2 DEF Effect, Hearing, LoginFirst, SameBut, Registers
    <3>. QED
      BY <1>9, <3>1, <3>2
  <2>. QED
    BY <1>7, <2>1 DEF PeersKnown
<1>10. CASE board /\ Hearing(module)
  <2>1. Effect(module', module, c)
    BY <1>1, <1>10
  <2>2. CASE c[1] = "add"
    <3>1. /\ module'.peers = module.peers \cup {c[2]} /\ c[2] \in GivenBy(mem) /\ mem' = mem
          /\ \A r : Tell(ToTell', "remember", r) <=> Tell(ToTell, "remember", r)
      BY <1>2, <1>3, <1>10, <2>1, <2>2 DEF Effect, Fits
    <3>2. ~Tell(ToTell', "remember", "oldMac")
      BY <1>1, <2>2 DEF Tell, Wrong
    <3>3. \A p \in module.peers : IsKnown(p)'
      BY <1>1, <1>8, <3>1 DEF IsKnown
    <3>4. IsKnown(c[2])'
      <4>1. CASE mem.layer = 3
        <5>1. Tell(ToTell', "remember", "ips") /\ c[2] \in ToSet(mem.peers)
          BY <1>2, <1>8, <2>2, <3>1, <4>1 DEF GivenBy, Memo
        <5>. QED
          BY <3>1, <5>1 DEF IsKnown
      <4>2. CASE mem.layer = 2
        <5>1. c[2] = mem.oldMac
          BY <1>2, <1>8, <2>2, <3>1, <3>2, <4>2 DEF GivenBy, Memo
        <5>. QED
          BY <3>1, <5>1 DEF IsKnown
      <4>. QED
        BY <1>3, <4>1, <4>2
    <3>5. \A p \in module'.peers : IsKnown(p)'
      BY <3>1, <3>3, <3>4
    <3>6. Tell(ToTell', "remember", "ips") =>
            \A p \in ToSet(mem.ips) : p \in ToSet(mem.peers) \/ p \notin module'.peers \/ Tell(ToTell', "delete", p)
      <4>. SUFFICES ASSUME Tell(ToTell', "remember", "ips"), NEW p \in ToSet(mem.ips),
                           p \notin ToSet(mem.peers)
           PROVE  p \notin module'.peers
        OBVIOUS
      <4>1. mem.layer = 3
        <5>1. PICK d \in ToTell' : d[1] = "remember" /\ d[2] = "ips"
          BY DEF Tell
        <5>2. Fits(mem, d)
          BY <1>1, <5>1, StructureParts DEF CommandsFit, AllFit, ToTell, Places, HasPeers
        <5>. QED
          BY <5>1, <5>2 DEF Fits, RememberFits
      <4>2. c[2] \in ToSet(mem.peers)
        BY <3>1, <4>1 DEF GivenBy
      <4>3. p \notin module.peers \/ Tell(ToTell, "delete", p)
        BY <1>8, <3>1
      <4>4. ~Tell(ToTell, "delete", p)
        BY <1>2, <1>6, <2>2
      <4>. QED
        BY <3>1, <4>2, <4>3, <4>4
    <3>. QED
      BY <1>7, <3>1, <3>2, <3>5, <3>6 DEF PeersKnown
  <2>3. CASE c[1] = "remember" /\ c[2] = "ips"
    <3>1. module'.peers = module.peers
      BY <1>10, <2>1, <2>3 DEF Effect
    <3>2. /\ mem'.ips = mem.peers /\ mem'.oldMac = mem.oldMac
          /\ Tell(ToTell', "remember", "oldMac") <=> Tell(ToTell, "remember", "oldMac")
          /\ \A p : Tell(ToTell', "delete", p) <=> Tell(ToTell, "delete", p)
      BY <1>2, <1>3, <2>3
    <3>3. \A p \in module.peers : IsKnown(p)'
      <4>. SUFFICES ASSUME NEW p \in module.peers PROVE IsKnown(p)'
        OBVIOUS
      <4>1. p \in ToSet(mem.ips) => p \in ToSet(mem.peers)
        BY <1>2, <1>6, <1>8, <2>3, <3>2
      <4>2. p \in hist.left \/ p \in ToSet(mem.peers) \/ p = mem.oldMac
        BY <1>8, <4>1 DEF IsKnown
      <4>. QED
        BY <1>1, <3>2, <4>2 DEF IsKnown
    <3>. QED
      BY <1>4, <1>7, <1>8, <3>1, <3>2, <3>3 DEF PeersKnown
  <2>4. CASE c[1] = "remember" /\ c[2] = "oldMac"
    <3>1. module'.peers = module.peers
      BY <1>10, <2>1, <2>4 DEF Effect
    <3>2. /\ mem'.ips = mem.ips /\ mem'.oldMac = mem.mac
          /\ Tell(ToTell', "remember", "ips") <=> Tell(ToTell, "remember", "ips")
          /\ \A p : Tell(ToTell', "delete", p) <=> Tell(ToTell, "delete", p)
      BY <1>2, <1>3, <2>4
    <3>3. \A p \in module.peers : IsKnown(p)'
      <4>. SUFFICES ASSUME NEW p \in module.peers PROVE IsKnown(p)'
        OBVIOUS
      <4>1. p = mem.oldMac => p = mem.mac
        BY <1>2, <1>6, <1>8, <2>4, <3>2
      <4>. QED
        BY <1>1, <1>4, <1>8, <3>2, <4>1 DEF IsKnown
    <3>. QED
      BY <1>4, <1>7, <1>8, <3>1, <3>2, <3>3 DEF PeersKnown
  <2>5. CASE c[1] = "delete"
    <3>1. /\ module'.peers = module.peers \ {c[2]} /\ mem' = mem
          /\ \A r : Tell(ToTell', "remember", r) <=> Tell(ToTell, "remember", r)
      BY <1>2, <1>3, <1>10, <2>1, <2>5 DEF Effect
    <3>2. \A p : Tell(ToTell, "delete", p) <=> Tell(ToTell', "delete", p) \/ p = c[2]
      BY <1>2, <2>5
    <3>3. \A p \in module'.peers : IsKnown(p)'
      BY <1>1, <1>8, <3>1 DEF IsKnown
    <3>. QED
      BY <1>7, <1>8, <3>1, <3>2, <3>3 DEF PeersKnown
  <2>6. CASE c[1] \notin {"add", "remember", "delete"}
    <3>1. module'.peers = module.peers
      BY <1>1, <1>10, <2>1, <2>6 DEF Effect, SameBut, Registers, SetRegisters
    <3>2. /\ mem' = mem
          /\ \A r : Tell(ToTell', "remember", r) <=> Tell(ToTell, "remember", r)
          /\ \A p : Tell(ToTell', "delete", p) <=> Tell(ToTell, "delete", p)
      BY <1>2, <1>3, <2>6
    <3>3. \A p \in module'.peers : IsKnown(p)'
      BY <1>1, <1>8, <3>1, <3>2 DEF IsKnown
    <3>. QED
      BY <1>7, <1>8, <3>1, <3>2, <3>3 DEF PeersKnown
  <2>. QED
    BY <1>3, <2>2, <2>3, <2>4, <2>5, <2>6
<1>. QED
  BY <1>9, <1>10

(* Where nothing is left to tell, the peers are those remembered.          *)
LEMMA KnownAtRest ==
  ASSUME todo = <<>>
  PROVE  /\ \A p : IsKnown(p) <=> p \in hist.left \/ p \in ToSet(mem.ips) \/ p = mem.oldMac
         /\ PeersKnown <=> (HasPeers => Starting \/ \A p \in module.peers : IsKnown(p))
<1>1. ToTell = {}
  BY NothingTold DEF ToTell
<1>. QED
  BY <1>1, NothingTold DEF IsKnown, PeersKnown

LEMMA KnownAtRestThen ==
  ASSUME todo' = <<>>
  PROVE  PeersKnown' <=>
           (HasPeers' => Starting' \/ \A p \in module'.peers :
                            p \in hist'.left \/ p \in ToSet(mem'.ips) \/ p = mem'.oldMac)
<1>1. ToTell' = {}
  BY NothingTold DEF ToTell
<1>. QED
  BY <1>1, NothingTold DEF IsKnown, PeersKnown

(* A message is stored, or settings are read: what the daemon forgets is   *)
(* left over.                                                              *)
LEMMA KnownStored ==
  ASSUME Structure, PeersKnown, Store
  PROVE  PeersKnown'
<1>1. PICK m : Begun(m) /\ at = "drain" /\ hist'.left = hist.left \cup Lost(mem, m)
  BY StoreBegins
<1>2. todo = <<>> /\ ~Starting
  BY <1>1, StructureParts DEF Places, Starting
<1>3. ASSUME HasPeers, NEW p \in module.peers
      PROVE  p \in hist'.left \/ p \in ToSet(m.ips) \/ p = m.oldMac
  <2>1. p \in hist.left \/ p \in ToSet(mem.ips) \/ p = mem.oldMac
    BY <1>2, <1>3, KnownAtRest
  <2>2. p # "none"
    BY PeerFacts, StructureParts DEF ModuleType
  <2>. QED
    BY <1>1, <2>1, <2>2 DEF Lost
<1>. QED
  BY <1>1, <1>3, KnownBegun

LEMMA KnownStays ==
  ASSUME Structure, LoginFirst, PeersKnown, [Next]_vars
  PROVE  PeersKnown'
<1>1. CASE Start
  <2>1. todo' = <<>> /\ at' = "look" /\ power' = TRUE
    BY <1>1, StartFacts
  <2>. QED
    BY <2>1, KnownAtRestThen DEF Starting
<1>2. CASE ReadBidFromFpga
  <2>. SUFFICES ASSUME HasPeers PROVE PeersKnown'
    BY <1>2, LookFacts DEF PeersKnown, HasPeers
  <2>1. /\ at = "look" /\ bid' = board /\ todo = <<>> /\ todo' = <<>>
        /\ UNCHANGED <<kind, board, module, power, old, mem, sent, saved, hist>>
    BY <1>2, LookFacts DEF HasPeers
  <2>2. CASE power /\ board
    <3>1. at' = "push"
      BY <1>2, <2>2 DEF ReadBidFromFpga, HasPeers, IsInput
    <3>. QED
      BY <2>1, <2>2, <3>1, KnownAtRestThen DEF Starting
  <2>3. CASE ~board
    <3>1. module'.peers = {}
      BY <2>1, <2>3, NewFacts, StructureParts DEF Places
    <3>. QED
      BY <2>1, <3>1, KnownAtRestThen
  <2>4. CASE ~power
    <3>1. ~Starting
      BY <2>1, <2>4 DEF Starting
    <3>2. \A p \in module.peers : p \in hist.left \/ p \in ToSet(mem.ips) \/ p = mem.oldMac
      BY <2>1, <3>1, KnownAtRest
    <3>. QED
      BY <2>1, <3>2, KnownAtRestThen
  <2>. QED
    BY <2>2, <2>3, <2>4
<1>3. CASE Send
  BY <1>3, SendTells, KnownTelling
<1>4. CASE Dies
  <2>1. todo' = <<>> /\ at' = "off"
    BY <1>4, DiesFacts
  <2>. QED
    BY <2>1, KnownAtRestThen DEF Starting
<1>5. CASE Swap
  <2>1. module'.peers = {} /\ UNCHANGED <<kind, mem, todo>>
    BY <1>5, SwapFacts, NewFacts
  <2>. QED
    BY <2>1 DEF PeersKnown, HasPeers, ToTell, Memo
<1>6. CASE Store
  BY <1>6, KnownStored
<1>7. CASE PushPull /\ (Pushed \/ PoweredUp)
  BY <1>7, PushBegins, KnownBegun
<1>8. CASE Calm /\ (Moves \/ UNCHANGED <<at, power, old>>)
  <2>1. UNCHANGED <<kind, bid, mem, todo>> /\ module'.peers = module.peers /\ hist'.left = hist.left
    BY <1>8 DEF Calm, SameHistory, SameBut, Registers
  <2>2. Starting => Starting'
    BY <1>8, <2>1 DEF Moves, Starting
  <2>3. \A p : IsKnown(p)' <=> IsKnown(p)
    BY <2>1 DEF IsKnown, ToTell
  <2>. QED
    BY <2>1, <2>2, <2>3 DEF PeersKnown, HasPeers, ToTell, Memo
<1>. QED
  BY <1>1, <1>2, <1>3, <1>4, <1>5, <1>6, <1>7, <1>8, Steps

LEMMA PeersAtRest ==
  ASSUME Structure, PeersGiven, PeersKnown
  PROVE  OnlyItsPeers
<1>. SUFFICES ASSUME InHand, mem.cast = "uni",
                     kind = "ptpIn" \/ (kind = "foreign" /\ mem.layer = 3)
     PROVE  Given \subseteq Known /\ Known \subseteq Given \cup hist.left
  BY DEF OnlyItsPeers
<1>1. /\ at \in {"msgs", "look", "class", "share"} /\ ~power /\ board /\ bid /\ old /\ ~hist.unseen
      /\ mem \in Memory /\ module.peers \subseteq Peerage /\ todo = <<>>
  BY StructureParts DEF InHand, AtRest, DaemonTypes, Places, ModuleType
<1>2. HasPeers /\ Unicast(mem) /\ Given = GivenBy(mem)
  BY DEF HasPeers, Unicast, Given, GivenBy
<1>3. Peering(module, mem, {})
  BY <1>1 DEF PeersGiven, Resting, Here
<1>4. Given \subseteq module.peers /\ Noted(mem)
  BY <1>2, <1>3, NothingTold DEF Peering
<1>5. \A p \in module.peers : p \in hist.left \/ p \in ToSet(mem.ips) \/ p = mem.oldMac
  BY <1>1, <1>2, KnownAtRest DEF Starting
<1>6. /\ ToSet(mem.ips) \subseteq Peers /\ ToSet(mem.peers) \subseteq Peers
      /\ mem.mac \in Macs /\ mem.oldMac \in Macs \cup {"none"} /\ mem.layer \in {2, 3}
      /\ Peers \cap Macs = {} /\ "none" \notin Peerage
  BY <1>1, PeerFacts
<1>7. CASE mem.layer = 3
  <2>1. mem.ips = mem.peers /\ Given = ToSet(mem.peers) /\ Known = module.peers \cap Peers
    BY <1>4, <1>7 DEF Noted, Given, Known
  <2>. QED
    BY <1>4, <1>5, <1>6, <2>1 DEF Peerage
<1>8. CASE mem.layer = 2
  <2>1. mem.oldMac = mem.mac /\ Given = {mem.mac} /\ Known = module.peers \cap Macs
    BY <1>4, <1>8 DEF Noted, Given, Known
  <2>. QED
    BY <1>4, <1>5, <1>6, <2>1
<1>. QED
  BY <1>6, <1>7, <1>8

PeersInv == Structure /\ LoginFirst /\ PeersGiven /\ PeersKnown

LEMMA PeersBegin ==
  ASSUME Init
  PROVE  PeersInv
<1>1. at = "off" /\ module = NewModule /\ todo = <<>>
  BY DEF Init
<1>2. LoginFirst /\ PeersGiven
  BY <1>1, NewFacts DEF LoginFirst, PeersGiven, Resting
<1>3. PeersKnown
  BY <1>1, KnownAtRest DEF Starting
<1>. QED
  BY <1>2, <1>3, StructureBegins DEF PeersInv

(* A module with unicast has all the peers it was given, and none it was   *)
(* given before but those its daemon forgot, whatever commands came and    *)
(* wherever a dialogue was broken off.                                     *)
THEOREM PeersAreGiven == Spec => []OnlyItsPeers
<1>1. Init => PeersInv
  BY PeersBegin
<1>2. PeersInv /\ [Next]_vars => PeersInv'
  BY StructureStays, LoginStays, PeersStay, KnownStays DEF PeersInv
<1>3. PeersInv => OnlyItsPeers
  BY PeersAtRest DEF PeersInv
<1>. QED
  BY <1>1, <1>2, <1>3, PTL DEF Spec
====
