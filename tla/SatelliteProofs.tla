---------------------------- MODULE SatelliteProofs ----------------------------
(***************************************************************************)
(* Proofs about Satellite for every set of leap seconds, every threshold,  *)
(* every burst of sentences and every length of the queue.                 *)
(***************************************************************************)
EXTENDS Satellite, SequenceTheorems, WellFoundedInduction, TLAPS

-----------------------------------------------------------------------------
(* Folds.  A burst has any length, so that what reading it does is shown   *)
(* by induction over the sentences.                                        *)

(* A set of natural numbers has a least element.                           *)
LEMMA LeastNat ==
  ASSUME NEW S, S \subseteq Nat, S # {}
  PROVE  \E m \in S : \A j \in S : m <= j
<1>1. PICK m \in S : \A j \in S : ~(<<j, m>> \in OpToRel(<, Nat))
  BY NatLessThanWellFounded, WFMin
<1>2. ASSUME NEW j \in S PROVE m <= j
  <2>1. m \in Nat /\ j \in Nat
    OBVIOUS
  <2>2. ~(j < m)
    BY <1>1, <2>1 DEF OpToRel
  <2>. QED
    BY <2>1, <2>2
<1>. QED
  BY <1>2

(* Induction over the natural numbers, for a set.                          *)
LEMMA NatSetInduction ==
  ASSUME NEW S, 0 \in S, \A n \in Nat : n \in S => n + 1 \in S
  PROVE  Nat \subseteq S
<1>. SUFFICES ASSUME Nat \ S # {} PROVE FALSE
  OBVIOUS
<1>1. PICK m \in Nat \ S : \A j \in Nat \ S : m <= j
  BY LeastNat
<1>2. m # 0 /\ m - 1 \in Nat /\ m - 1 \notin S
  BY <1>1
<1>. QED
  BY <1>1, <1>2

(* A set of places in a sequence has a last one.                           *)
LEMMA MaxOfPlaces ==
  ASSUME NEW n \in Nat, NEW S \in SUBSET (1..n), S # {}
  PROVE  Max(S) \in S /\ \A y \in S : Max(S) >= y
<1>. DEFINE T == {n - x : x \in S}
<1>0. \A x \in S : x \in 1..n /\ n - x \in Nat
  OBVIOUS
<1>1. T \subseteq Nat /\ T # {}
  BY <1>0
<1>2. PICK m \in T : \A j \in T : m <= j
  BY <1>1, LeastNat
<1>3. PICK x \in S : m = n - x
  OBVIOUS
<1>4. ASSUME NEW y \in S PROVE x >= y
  <2>1. n - y \in T
    OBVIOUS
  <2>2. n - x <= n - y
    BY <2>1, <1>2, <1>3
  <2>. QED
    BY <2>2, <1>0
<1>. QED
  BY <1>3, <1>4 DEF Max

LEMMA MaxOfInterval ==
  ASSUME NEW n \in Nat \ {0}
  PROVE  Max(1..n) = n
<1>1. 1..n # {} /\ n \in 1..n
  OBVIOUS
<1>2. Max(1..n) \in 1..n /\ \A y \in 1..n : Max(1..n) >= y
  BY <1>1, MaxOfPlaces
<1>. QED
  BY <1>1, <1>2

(* The equation of a fold over the places 1..n: next is what is done with  *)
(* what the places before have given and a place.                          *)
Folds(g, x0, n, next) ==
  \A S \in SUBSET (1..n) :
    g[S] = IF S = {} THEN x0 ELSE next[<<g[S \ {Max(S)}], Max(S)>>]

(* It has a solution.                                                      *)
LEMMA FoldExists ==
  ASSUME NEW X, NEW x0 \in X, NEW n \in Nat, NEW next \in [X \X (1..n) -> X]
  PROVE  \E g \in [SUBSET (1..n) -> X] : Folds(g, x0, n, next)
<1>. USE DEF Folds
<1>. DEFINE Solves(g, k) == Folds(g, x0, k, next)
     Solvable(k) == \E g \in [SUBSET (1..k) -> X] : Solves(g, k)
     Good == {k \in Nat : k <= n => Solvable(k)}
<1>1. 0 \in Good
  <2>1. [S \in SUBSET (1..0) |-> x0] \in [SUBSET (1..0) -> X]
    OBVIOUS
  <2>2. \A S \in SUBSET (1..0) : S = {}
    <3>1. 1..0 = {}
      OBVIOUS
    <3>. QED
      BY <3>1
  <2>3. Solves([S \in SUBSET (1..0) |-> x0], 0)
    BY <2>2
  <2>. HIDE DEF Solves
  <2>. QED
    BY <2>1, <2>3
<1>2. ASSUME NEW k \in Nat, k \in Good PROVE k + 1 \in Good
  <2>. HIDE DEF Solvable
  <2>. SUFFICES ASSUME k + 1 <= n PROVE Solvable(k + 1)
    OBVIOUS
  <2>0. Solvable(k)
    BY <1>2
  <2>. USE DEF Solvable
  <2>1. PICK g \in [SUBSET (1..k) -> X] : Solves(g, k)
    BY <2>0
  <2>. DEFINE h == [S \in SUBSET (1..(k + 1)) |->
                      IF k + 1 \in S THEN next[<<g[S \ {k + 1}], k + 1>>] ELSE g[S]]
  <2>2. ASSUME NEW S \in SUBSET (1..(k + 1)), k + 1 \in S
        PROVE  /\ S \ {k + 1} \in SUBSET (1..k) /\ S # {} /\ Max(S) = k + 1
               /\ next[<<g[S \ {k + 1}], k + 1>>] \in X
    <3>1. S \ {k + 1} \in SUBSET (1..k) /\ S # {}
      BY <2>2
    <3>2. k + 1 \in Nat
      OBVIOUS
    <3>3. Max(S) \in S /\ \A y \in S : Max(S) >= y
      BY <3>1, <3>2, MaxOfPlaces
    <3>5. Max(S) \in 1..(k + 1) /\ Max(S) >= k + 1
      BY <2>2, <3>3
    <3>6. Max(S) = k + 1
      BY <3>5
    <3>4. g[S \ {k + 1}] \in X /\ k + 1 \in 1..n
      BY <3>1, <2>1
    <3>7. <<g[S \ {k + 1}], k + 1>> \in X \X (1..n)
      BY <3>4
    <3>. QED
      BY <3>1, <3>6, <3>7
  <2>3. ASSUME NEW S \in SUBSET (1..(k + 1)), k + 1 \notin S
        PROVE  /\ S \in SUBSET (1..k) /\ g[S] \in X
               /\ S # {} => /\ Max(S) \in 1..k /\ S \ {Max(S)} \in SUBSET (1..k)
                            /\ k + 1 \notin S \ {Max(S)}
    <3>1. S \in SUBSET (1..k)
      BY <2>3
    <3>2. S # {} => Max(S) \in S
      BY <3>1, MaxOfPlaces
    <3>. QED
      BY <3>1, <3>2, <2>1, <2>3
  <2>4. h \in [SUBSET (1..(k + 1)) -> X]
    BY <2>2, <2>3
  <2>5. ASSUME NEW S \in SUBSET (1..(k + 1))
        PROVE  h[S] = IF S = {} THEN x0 ELSE next[<<h[S \ {Max(S)}], Max(S)>>]
    <3>1. CASE k + 1 \in S
      <4>1. S \ {k + 1} \in SUBSET (1..(k + 1)) /\ k + 1 \notin S \ {k + 1}
        OBVIOUS
      <4>2. h[S \ {k + 1}] = g[S \ {k + 1}]
        BY <4>1
      <4>. QED
        BY <3>1, <2>2, <4>2
    <3>2. CASE k + 1 \notin S /\ S # {}
      <4>1. h[S] = g[S] /\ h[S \ {Max(S)}] = g[S \ {Max(S)}]
        BY <3>2, <2>3
      <4>. QED
        BY <4>1, <3>2, <2>3, <2>1
    <3>3. CASE S = {}
      <4>1. k + 1 \notin S /\ S \in SUBSET (1..k)
        BY <3>3
      <4>. QED
        BY <4>1, <3>3, <2>1
    <3>. QED
      BY <3>1, <3>2, <3>3
  <2>. QED
    BY <2>4, <2>5
<1>3. n \in Good
  <2>. HIDE DEF Good
  <2>1. Nat \subseteq Good
    BY <1>1, <1>2, NatSetInduction
  <2>. QED
    BY <2>1
<1>4. Solvable(n)
  <2>. HIDE DEF Solvable
  <2>. QED
    BY <1>3
<1>. QED
  BY <1>4

-----------------------------------------------------------------------------
(* What a sentence does to the reception and to the history.               *)

LEMMA Thresholds ==
  /\ GetAfter \in Nat /\ LostAfter \in Nat /\ FreshAfter \in Nat /\ ForecastFor \in Nat
  /\ MaxQueue \in Nat /\ ForecastFor > 1
BY SatelliteAssumption DEF SatelliteAssumption

Reception ==
  [valid : {"init", "get", "loss"}, enough : SUBSET Systems, mode : Modes,
   ant : {"none", "normal", "loop", "open"}, pps : 0..(GetAfter + 1),
   unused : 0..(LostAfter + 1), leap : [state : {0, 1}, sec : Seconds]]

History ==
  [good : 0..(GetAfter + 1), bad : 0..(LostAfter + 1), gap : BOOLEAN, earned : BOOLEAN,
   few : BOOLEAN, settled : BOOLEAN, ann : 0..ForecastFor, behind : BOOLEAN,
   spoilt : BOOLEAN]

LEMMA TopCounts ==
  ASSUME NEW max \in Nat, NEW n \in 0..max
  PROVE  Top(n, max) \in 0..max /\ (Top(n, max) = n + 1 \/ (Top(n, max) = max /\ n = max))
BY DEF Top

LEMMA ParseKeepsType ==
  ASSUME NEW r \in Reception, NEW c \in Chunks
  PROVE  Parse(r, c) \in Reception
<1>1. /\ Top(r.pps, GetAfter + 1) \in 0..(GetAfter + 1) /\ 0 \in 0..(GetAfter + 1)
      /\ Top(r.unused, LostAfter + 1) \in 0..(LostAfter + 1) /\ 0 \in 0..(LostAfter + 1)
  BY Thresholds, TopCounts DEF Reception
<1>2. CASE c.t = "STA"
  <2>1. c.pps \in BOOLEAN
    BY <1>2 DEF Chunks
  <2>2. Pulse(r, c) \in Reception
    <3>1. CASE c.pps
      BY <1>1, <3>1 DEF Pulse, Reception
    <3>2. CASE ~c.pps
      BY <1>1, <3>2 DEF Pulse, Reception
    <3>. QED
      BY <2>1, <3>1, <3>2
  <2>3. Antenna(Pulse(r, c), c) \in Reception
    BY <2>1, <2>2 DEF Antenna, Reception
  <2>. QED
    BY <1>2, <2>3 DEF Parse, STA_Parser
<1>3. CASE c.t = "GSV"
  <2>1. c.sys \in Systems
    BY <1>3 DEF Chunks
  <2>. QED
    BY <1>3, <2>1 DEF Parse, GSV_Parser, Reception
<1>4. CASE c.t = "LPS"
  <2>1. c.state \in {0, 1} /\ c.sec \in Seconds
    BY <1>4 DEF Chunks
  <2>. QED
    BY <1>4, <2>1 DEF Parse, LPS_Parser, Reception
<1>5. CASE c.t = "GGA"
  <2>1. c.mode \in Modes
    BY <1>5 DEF Chunks
  <2>. QED
    BY <1>5, <2>1 DEF Parse, GGA_Parser, Reception
<1>6. CASE c.t \in {"empty", "other"}
  BY <1>6 DEF Parse, Reception
<1>7. c.t \in {"STA", "GSV", "LPS", "GGA", "empty", "other"}
  BY DEF Chunks
<1>. QED
  BY <1>2, <1>3, <1>4, <1>5, <1>6, <1>7

LEMMA NoteKeepsType ==
  ASSUME NEW h \in History, NEW c \in Chunks
  PROVE  Note(h, c) \in History
<1>1. /\ Top(h.good, GetAfter + 1) \in 0..(GetAfter + 1) /\ 0 \in 0..(GetAfter + 1)
      /\ Top(h.bad, LostAfter + 1) \in 0..(LostAfter + 1) /\ 0 \in 0..(LostAfter + 1)
  BY Thresholds, TopCounts DEF History
<1>2. CASE c.t = "STA"
  <2>1. c.pps \in BOOLEAN
    BY <1>2 DEF Chunks
  <2>. DEFINE earns == h.earned \/ (h.good >= GetAfter /\ ~h.gap)
              keeps == h.earned /\ h.bad < LostAfter
  <2>4. earns \in BOOLEAN /\ keeps \in BOOLEAN
    BY DEF History
  <2>2. CASE c.pps
    <3>1. Note(h, c) = [h EXCEPT !.good = Top(@, GetAfter + 1), !.bad = 0, !.earned = earns]
      BY <1>2, <2>2 DEF Note, History
    <3>. HIDE DEF earns
    <3>. QED
      BY <1>1, <2>4, <3>1 DEF History
  <2>3. CASE ~c.pps
    <3>1. Note(h, c) = [h EXCEPT !.good = 0, !.bad = Top(@, LostAfter + 1), !.gap = FALSE,
                                 !.earned = keeps]
      BY <1>2, <2>3 DEF Note, History
    <3>. HIDE DEF keeps
    <3>. QED
      BY <1>1, <2>4, <3>1 DEF History
  <2>. QED
    BY <2>1, <2>2, <2>3
<1>3. CASE c.t = "empty"
  <2>1. \A g \in BOOLEAN : [h EXCEPT !.gap = g, !.earned = FALSE] \in History
    BY DEF History
  <2>2. Note(h, c) = [h EXCEPT !.gap = h.good > GetAfter, !.earned = FALSE]
    BY <1>3 DEF Note
  <2>3. (h.good > GetAfter) \in BOOLEAN
    OBVIOUS
  <2>. QED
    BY <2>1, <2>2, <2>3, Zenon
<1>4. CASE c.t \notin {"STA", "empty"}
  BY <1>4 DEF Note, History
<1>. QED
  BY <1>2, <1>3, <1>4

(* Reading a burst is reading its sentences one by one.                    *)
LEMMA ReadOneByOne ==
  ASSUME NEW r \in Reception, NEW s \in Seq(Chunks)
  PROVE  \E run \in [0..Len(s) -> Reception] :
           /\ run[0] = r /\ run[Len(s)] = ReadSatellite(r, s)
           /\ \A i \in 1..Len(s) : run[i] = Parse(run[i - 1], s[i])
<1>. DEFINE n == Len(s)
            next == [p \in Reception \X (1..n) |-> Parse(p[1], s[p[2]])]
            fold(g) == [S \in SUBSET DOMAIN s |->
                          IF S = {} THEN r ELSE Parse(g[S \ {Max(S)}], s[Max(S)])]
<1>1. n \in Nat /\ DOMAIN s = 1..n /\ \A i \in 1..n : s[i] \in Chunks
  BY LenProperties
<1>2. next \in [Reception \X (1..n) -> Reception]
  BY <1>1, ParseKeepsType
<1>3. PICK g \in [SUBSET (1..n) -> Reception] :
        Folds(g, r, n, next)
  <2>. HIDE DEF next, n
  <2>. QED
    BY <1>1, <1>2, FoldExists
<1>4. g = fold(g)
  <2>1. ASSUME NEW S \in SUBSET (1..n), S # {}
        PROVE  /\ Max(S) \in 1..n /\ S \ {Max(S)} \in SUBSET (1..n)
               /\ next[<<g[S \ {Max(S)}], Max(S)>>] = Parse(g[S \ {Max(S)}], s[Max(S)])
    BY <1>1, <1>3, <2>1, MaxOfPlaces
  <2>. QED
    BY <1>1, <1>3, <2>1 DEF Folds
<1>. DEFINE f == CHOOSE f : f = fold(f)
<1>5. f = fold(f)
  <2>. HIDE DEF fold
  <2>. QED
    BY <1>4
<1>6. ReadSatellite(r, s) = f[DOMAIN s]
  BY DEF ReadSatellite, FoldLeft, MapThenFoldSet
<1>7. f[1..0] = r /\ \A i \in 1..n : f[1..i] = Parse(f[1..(i - 1)], s[i])
  <2>. HIDE DEF f
  <2>1. f[{}] = r
    BY <1>5
  <2>2. ASSUME NEW i \in 1..n PROVE f[1..i] = Parse(f[1..(i - 1)], s[i])
    <3>1. 1..i \in SUBSET (1..n) /\ i \in 1..i /\ i \in Nat \ {0}
      BY <1>1
    <3>2. Max(1..i) = i /\ (1..i) \ {i} = 1..(i - 1)
      BY <3>1, MaxOfInterval
    <3>. QED
      BY <1>1, <1>5, <3>1, <3>2
  <2>. QED
    BY <2>1, <2>2
<1>. HIDE DEF f
<1>. DEFINE run == [i \in 0..n |-> f[1..i]]
            Good == {i \in Nat : i <= n => f[1..i] \in Reception}
<1>8. Nat \subseteq Good
  <2>1. 0 \in Good
    BY <1>7
  <2>2. ASSUME NEW i \in Nat, i \in Good PROVE i + 1 \in Good
    <3>1. CASE i + 1 <= n
      <4>1. i + 1 \in 1..n /\ (i + 1) - 1 = i /\ s[i + 1] \in Chunks
        BY <1>1, <3>1
      <4>2. f[1..(i + 1)] = Parse(f[1..i], s[i + 1])
        BY <4>1, <1>7
      <4>. QED
        BY <4>1, <4>2, <2>2, <1>1, <3>1, ParseKeepsType
    <3>. QED
      BY <3>1, <1>1
  <2>. HIDE DEF Good
  <2>. QED
    BY <2>1, <2>2, NatSetInduction
<1>9. run \in [0..n -> Reception]
  BY <1>8, <1>1
<1>10. run[0] = r /\ run[n] = ReadSatellite(r, s)
  BY <1>1, <1>6, <1>7
<1>11. \A i \in 1..n : run[i] = Parse(run[i - 1], s[i])
  BY <1>1, <1>7
<1>. QED
  BY <1>9, <1>10, <1>11

(* So it is with the history.                                              *)
LEMMA NoteOneByOne ==
  ASSUME NEW h \in History, NEW s \in Seq(Chunks)
  PROVE  \E run \in [0..Len(s) -> History] :
           /\ run[0] = h /\ run[Len(s)] = FoldLeft(Note, h, s)
           /\ \A i \in 1..Len(s) : run[i] = Note(run[i - 1], s[i])
<1>. DEFINE n == Len(s)
            next == [p \in History \X (1..n) |-> Note(p[1], s[p[2]])]
            fold(g) == [S \in SUBSET DOMAIN s |->
                          IF S = {} THEN h ELSE Note(g[S \ {Max(S)}], s[Max(S)])]
<1>1. n \in Nat /\ DOMAIN s = 1..n /\ \A i \in 1..n : s[i] \in Chunks
  BY LenProperties
<1>2. next \in [History \X (1..n) -> History]
  BY <1>1, NoteKeepsType
<1>3. PICK g \in [SUBSET (1..n) -> History] :
        Folds(g, h, n, next)
  <2>. HIDE DEF next, n
  <2>. QED
    BY <1>1, <1>2, FoldExists
<1>4. g = fold(g)
  <2>1. ASSUME NEW S \in SUBSET (1..n), S # {}
        PROVE  /\ Max(S) \in 1..n /\ S \ {Max(S)} \in SUBSET (1..n)
               /\ next[<<g[S \ {Max(S)}], Max(S)>>] = Note(g[S \ {Max(S)}], s[Max(S)])
    BY <1>1, <1>3, <2>1, MaxOfPlaces
  <2>. QED
    BY <1>1, <1>3, <2>1 DEF Folds
<1>. DEFINE f == CHOOSE f : f = fold(f)
<1>5. f = fold(f)
  <2>. HIDE DEF fold
  <2>. QED
    BY <1>4
<1>6. FoldLeft(Note, h, s) = f[DOMAIN s]
  BY DEF FoldLeft, MapThenFoldSet
<1>7. f[1..0] = h /\ \A i \in 1..n : f[1..i] = Note(f[1..(i - 1)], s[i])
  <2>. HIDE DEF f
  <2>1. f[{}] = h
    BY <1>5
  <2>2. ASSUME NEW i \in 1..n PROVE f[1..i] = Note(f[1..(i - 1)], s[i])
    <3>1. 1..i \in SUBSET (1..n) /\ i \in 1..i /\ i \in Nat \ {0}
      BY <1>1
    <3>2. Max(1..i) = i /\ (1..i) \ {i} = 1..(i - 1)
      BY <3>1, MaxOfInterval
    <3>. QED
      BY <1>1, <1>5, <3>1, <3>2
  <2>. QED
    BY <2>1, <2>2
<1>. HIDE DEF f
<1>. DEFINE run == [i \in 0..n |-> f[1..i]]
            Good == {i \in Nat : i <= n => f[1..i] \in History}
<1>8. Nat \subseteq Good
  <2>1. 0 \in Good
    BY <1>7
  <2>2. ASSUME NEW i \in Nat, i \in Good PROVE i + 1 \in Good
    <3>1. CASE i + 1 <= n
      <4>1. i + 1 \in 1..n /\ (i + 1) - 1 = i /\ s[i + 1] \in Chunks
        BY <1>1, <3>1
      <4>2. f[1..(i + 1)] = Note(f[1..i], s[i + 1])
        BY <4>1, <1>7
      <4>. QED
        BY <4>1, <4>2, <2>2, <1>1, <3>1, NoteKeepsType
    <3>. QED
      BY <3>1, <1>1
  <2>. HIDE DEF Good
  <2>. QED
    BY <2>1, <2>2, NatSetInduction
<1>9. run \in [0..n -> History]
  BY <1>8, <1>1
<1>10. run[0] = h /\ run[n] = FoldLeft(Note, h, s)
  BY <1>1, <1>6, <1>7
<1>11. \A i \in 1..n : run[i] = Note(run[i - 1], s[i])
  BY <1>1, <1>7
<1>. QED
  BY <1>9, <1>10, <1>11

-----------------------------------------------------------------------------
(* The inductive invariant.                                                *)

HistoryOK ==
  /\ hist \in History
  /\ used \in [commands : Nat, swaps : Nat, starts : Nat, losses : Nat]
  /\ world \in Worlds

(* The counters of the receiver are the history of its sentences, across   *)
(* boards that come and go, and the verdict follows from them; a gap is    *)
(* noted only beyond the threshold.                                        *)
Judged(r, h) ==
  /\ r.pps = h.good /\ r.unused = h.bad
  /\ h.gap => h.good > GetAfter
  /\ r.valid = "get" => h.earned
  /\ h.good > GetAfter /\ ~h.gap => r.valid = "get"
  /\ h.bad > LostAfter => r.valid # "get"

(* No announcement is passed on for longer than pps_count counts.          *)
AnnouncementIsCounted == hist.ann <= count.pps /\ count.pps < ForecastFor

(* The last message on its way says what d-input believes.                 *)
TellsLast == up["in"] /\ queue # <<>> /\ ~hist.behind => Last(queue) = lp.old

(* With no message on its way the database says what d-output does.        *)
StoreFollows ==
  up["out"] /\ queue = <<>> /\ ~hist.spoilt => out.sec = db.sec /\ out.mode = db.mode

IInv ==
  /\ TypeOK /\ HistoryOK /\ Judged(rcv, hist) /\ AnnouncementIsCounted
  /\ RegisterHolds /\ TellsLast /\ StoreFollows /\ OneLeapSecond

-----------------------------------------------------------------------------
(* The receiver.                                                           *)

(* What a sentence leaves of the history.                                  *)
Untouched(h, k) ==
  k.behind = h.behind /\ k.spoilt = h.spoilt /\ k.settled = h.settled /\ k.ann = h.ann

(* A sentence on the pulse earns the reception its verdict, or loses it.   *)
LEMMA NotesOfSTA ==
  ASSUME NEW h \in History, NEW c, c.t = "STA"
  PROVE  /\ c.pps => (Note(h, c).earned <=> h.earned \/ (h.good >= GetAfter /\ ~h.gap))
         /\ ~c.pps => (Note(h, c).earned <=> h.earned /\ h.bad < LostAfter)
<1>. DEFINE earns == h.earned \/ (h.good >= GetAfter /\ ~h.gap)
            keeps == h.earned /\ h.bad < LostAfter
<1>1. ASSUME c.pps PROVE Note(h, c).earned <=> earns
  <2>1. Note(h, c) = [h EXCEPT !.good = Top(@, GetAfter + 1), !.bad = 0, !.earned = earns]
    BY <1>1 DEF Note
  <2>. HIDE DEF earns
  <2>2. Note(h, c).earned = earns
    BY <2>1 DEF History
  <2>. QED
    BY <2>2, Zenon
<1>2. ASSUME ~c.pps PROVE Note(h, c).earned <=> keeps
  <2>1. Note(h, c) = [h EXCEPT !.good = 0, !.bad = Top(@, LostAfter + 1), !.gap = FALSE,
                               !.earned = keeps]
    BY <1>2 DEF Note
  <2>. HIDE DEF keeps
  <2>2. Note(h, c).earned = keeps
    BY <2>1 DEF History
  <2>. QED
    BY <2>2, Zenon
<1>. QED
  BY <1>1, <1>2

LEMMA SentenceIsJudged ==
  ASSUME NEW r \in Reception, NEW h \in History, NEW c \in Chunks, Judged(r, h)
  PROVE  Judged(Parse(r, c), Note(h, c)) /\ Untouched(h, Note(h, c))
<1>. USE Thresholds
<1>1. Untouched(h, Note(h, c))
  BY DEF Untouched, Note, History
<1>2. CASE c.t = "STA"
  <2>1. c.pps \in BOOLEAN
    BY <1>2 DEF Chunks
  <2>. DEFINE p == Pulse(r, c)
  <2>2. /\ Parse(r, c).pps = p.pps /\ Parse(r, c).unused = p.unused
        /\ Parse(r, c).valid = p.valid
    BY <1>2 DEF Parse, STA_Parser, Antenna, Pulse, Reception
  <2>3. CASE c.pps
    <3>1. /\ p.pps = Top(r.pps, GetAfter + 1) /\ p.unused = 0
          /\ p.valid = IF r.pps = GetAfter THEN "get" ELSE r.valid
      BY <2>3 DEF Pulse, Reception
    <3>2. /\ Note(h, c).good = Top(h.good, GetAfter + 1) /\ Note(h, c).bad = 0
          /\ Note(h, c).gap = h.gap
      BY <1>2, <2>3 DEF Note, History
    <3>3. Note(h, c).earned <=> h.earned \/ (h.good >= GetAfter /\ ~h.gap)
      BY <1>2, <2>3, NotesOfSTA
    <3>4. p.valid = "get" => Note(h, c).earned
      <4>1. r.pps = h.good /\ h.good \in Nat /\ (h.gap => h.good > GetAfter)
        BY DEF Judged, History
      <4>2. CASE r.pps = GetAfter
        <5>1. h.good >= GetAfter /\ ~(h.good > GetAfter)
          BY <4>1, <4>2
        <5>. QED
          BY <3>3, <4>1, <5>1
      <4>3. CASE r.pps # GetAfter
        BY <3>1, <3>3, <4>3 DEF Judged
      <4>. QED
        BY <4>2, <4>3
    <3>. QED
      BY <1>1, <2>2, <3>1, <3>2, <3>4 DEF Judged, Top, History
  <2>4. CASE ~c.pps
    <3>1. /\ p.pps = 0 /\ p.unused = Top(r.unused, LostAfter + 1)
          /\ p.valid = IF r.unused = LostAfter THEN "loss" ELSE r.valid
      BY <2>4 DEF Pulse, Reception
    <3>2. /\ Note(h, c).good = 0 /\ Note(h, c).bad = Top(h.bad, LostAfter + 1)
          /\ Note(h, c).gap = FALSE
      BY <1>2, <2>4 DEF Note, History
    <3>3. Note(h, c).earned <=> h.earned /\ h.bad < LostAfter
      BY <1>2, <2>4, NotesOfSTA
    <3>4. p.valid = "get" => Note(h, c).earned
      <4>1. r.unused = h.bad /\ h.bad \in Nat
            /\ (r.valid = "get" => h.earned /\ ~(h.bad > LostAfter))
        BY DEF Judged, History
      <4>2. p.valid = "get" => r.valid = "get" /\ r.unused # LostAfter
        BY <3>1
      <4>3. p.valid = "get" => h.bad < LostAfter
        BY <4>1, <4>2
      <4>. QED
        BY <3>3, <4>1, <4>2, <4>3
    <3>. QED
      BY <1>1, <2>2, <3>1, <3>2, <3>4 DEF Judged, Top, History
  <2>. QED
    BY <1>1, <2>1, <2>3, <2>4
<1>3. CASE c.t = "empty"
  <2>1. /\ Parse(r, c).pps = r.pps /\ Parse(r, c).unused = r.unused
        /\ Parse(r, c).valid = "loss"
    BY <1>3 DEF Parse, Reception
  <2>2. /\ Note(h, c).good = h.good /\ Note(h, c).bad = h.bad
        /\ Note(h, c).gap <=> h.good > GetAfter
    <3>1. \A g \in BOOLEAN : LET k == [h EXCEPT !.gap = g, !.earned = FALSE]
                              IN  k.good = h.good /\ k.bad = h.bad /\ k.gap = g
      BY DEF History
    <3>2. Note(h, c) = [h EXCEPT !.gap = h.good > GetAfter, !.earned = FALSE]
      BY <1>3 DEF Note
    <3>3. (h.good > GetAfter) \in BOOLEAN
      OBVIOUS
    <3>. QED
      BY <3>1, <3>2, <3>3, Zenon
  <2>. QED
    BY <1>1, <2>1, <2>2 DEF Judged
<1>4. CASE c.t \notin {"STA", "empty"}
  <2>1. /\ Parse(r, c).pps = r.pps /\ Parse(r, c).unused = r.unused
        /\ Parse(r, c).valid = r.valid
    BY <1>4 DEF Parse, GSV_Parser, LPS_Parser, GGA_Parser, Reception
  <2>2. /\ Note(h, c).good = h.good /\ Note(h, c).bad = h.bad
        /\ Note(h, c).gap = h.gap /\ Note(h, c).earned = h.earned
    BY <1>4 DEF Note, History
  <2>. QED
    BY <1>1, <2>1, <2>2 DEF Judged
<1>. QED
  BY <1>2, <1>3, <1>4

(* A burst of any length is judged as its sentences are.                   *)
LEMMA BurstIsJudged ==
  ASSUME NEW r \in Reception, NEW h \in History, NEW s \in Seq(Chunks), Judged(r, h)
  PROVE  /\ ReadSatellite(r, s) \in Reception /\ FoldLeft(Note, h, s) \in History
         /\ Judged(ReadSatellite(r, s), FoldLeft(Note, h, s))
         /\ Untouched(h, FoldLeft(Note, h, s))
<1>1. PICK read \in [0..Len(s) -> Reception] :
        /\ read[0] = r /\ read[Len(s)] = ReadSatellite(r, s)
        /\ \A i \in 1..Len(s) : read[i] = Parse(read[i - 1], s[i])
  BY ReadOneByOne
<1>2. PICK noted \in [0..Len(s) -> History] :
        /\ noted[0] = h /\ noted[Len(s)] = FoldLeft(Note, h, s)
        /\ \A i \in 1..Len(s) : noted[i] = Note(noted[i - 1], s[i])
  BY NoteOneByOne
<1>3. Len(s) \in Nat /\ \A i \in 1..Len(s) : s[i] \in Chunks
  BY LenProperties
<1>. DEFINE Good == {i \in Nat : i <= Len(s) =>
                       Judged(read[i], noted[i]) /\ Untouched(h, noted[i])}
<1>4. Nat \subseteq Good
  <2>1. 0 \in Good
    BY <1>1, <1>2 DEF Untouched
  <2>2. ASSUME NEW i \in Nat, i \in Good PROVE i + 1 \in Good
    <3>. SUFFICES ASSUME i + 1 <= Len(s)
                  PROVE  Judged(read[i + 1], noted[i + 1]) /\ Untouched(h, noted[i + 1])
      OBVIOUS
    <3>1. /\ i + 1 \in 1..Len(s) /\ (i + 1) - 1 = i /\ i \in 0..Len(s)
          /\ i <= Len(s)
      BY <1>3
    <3>2. /\ read[i] \in Reception /\ noted[i] \in History /\ s[i + 1] \in Chunks
          /\ read[i + 1] = Parse(read[i], s[i + 1])
          /\ noted[i + 1] = Note(noted[i], s[i + 1])
      BY <1>1, <1>2, <1>3, <3>1
    <3>3. Judged(read[i], noted[i]) /\ Untouched(h, noted[i])
      BY <2>2, <3>1
    <3>4. /\ Judged(Parse(read[i], s[i + 1]), Note(noted[i], s[i + 1]))
          /\ Untouched(noted[i], Note(noted[i], s[i + 1]))
      BY <3>2, <3>3, SentenceIsJudged
    <3>. QED
      BY <3>2, <3>3, <3>4 DEF Untouched
  <2>. HIDE DEF Good
  <2>. QED
    BY <2>1, <2>2, NatSetInduction
<1>. QED
  BY <1>1, <1>2, <1>3, <1>4

-----------------------------------------------------------------------------
(* The leap second.                                                        *)

LpType == [old : Message, new : [sec : Seconds, fc : {0, 1}],
           set : [sec : Seconds, mode : {0, 1}]]
CountType == [alm : 0..(FreshAfter + 1), pps : 0..ForecastFor]

LEMMA AnnouncedFacts ==
  ASSUME NEW l \in LpType, NEW c \in CountType, NEW r \in Reception, c.pps < ForecastFor
  PROVE  LET a == Announced(l, c, r)
         IN  /\ a.lp \in LpType /\ a.count \in CountType /\ a.rcv \in Reception
             /\ a.lp.old = l.old /\ a.lp.set = l.set /\ a.count.alm = c.alm
             /\ a.rcv.pps = r.pps /\ a.rcv.unused = r.unused /\ a.rcv.valid = r.valid
             /\ a.count.pps < ForecastFor
             /\ r.leap.state = 1 =>
                  a.count.pps = c.pps + 1 \/ (a.lp.new.fc = 0 /\ a.count.pps = 0)
<1>. USE Thresholds
<1>. DEFINE n == [l EXCEPT !.new.sec = r.leap.sec]
<1>1. r.leap.state \in {0, 1} /\ r.leap.sec \in Seconds /\ c.pps \in Nat /\ c.alm \in Nat
  BY DEF Reception, CountType
<1>2. n \in LpType /\ n.old = l.old /\ n.set = l.set
  BY <1>1 DEF LpType
<1>. HIDE DEF n
<1>3. CASE r.leap.state = 0
  <2>. DEFINE d == [c EXCEPT !.pps = 0]
  <2>1. Announced(l, c, r) = [lp |-> n, count |-> d, rcv |-> r]
    BY <1>3 DEF Announced, n
  <2>2. d \in CountType /\ d.alm = c.alm /\ d.pps = 0
    BY DEF CountType
  <2>. HIDE DEF d
  <2>. QED
    BY <1>2, <1>3, <2>1, <2>2
<1>4. CASE r.leap.state = 1 /\ c.pps + 1 >= ForecastFor
  <2>. DEFINE m == [n EXCEPT !.new.fc = 0]
              d == [c EXCEPT !.pps = 0]
              q == [r EXCEPT !.leap.state = 0]
  <2>1. Announced(l, c, r) = [lp |-> m, count |-> d, rcv |-> q]
    BY <1>4 DEF Announced, n
  <2>2. d \in CountType /\ d.alm = c.alm /\ d.pps = 0
    BY DEF CountType
  <2>3. m \in LpType /\ m.old = n.old /\ m.set = n.set /\ m.new.fc = 0
    BY <1>2 DEF LpType
  <2>4. q \in Reception /\ q.pps = r.pps /\ q.unused = r.unused /\ q.valid = r.valid
    BY DEF Reception
  <2>. HIDE DEF m, d, q
  <2>. QED
    BY <1>2, <2>1, <2>2, <2>3, <2>4
<1>5. CASE r.leap.state = 1 /\ ~(c.pps + 1 >= ForecastFor)
  <2>. DEFINE m == [n EXCEPT !.new.fc = IF c.pps + 1 = 1 THEN 1 ELSE @]
              d == [c EXCEPT !.pps = c.pps + 1]
  <2>1. Announced(l, c, r) = [lp |-> m, count |-> d, rcv |-> r]
    BY <1>5 DEF Announced, n
  <2>2. d \in CountType /\ d.alm = c.alm /\ d.pps = c.pps + 1 /\ d.pps < ForecastFor
    BY <1>1, <1>5 DEF CountType
  <2>3. m \in LpType /\ m.old = n.old /\ m.set = n.set
    BY <1>2 DEF LpType
  <2>. HIDE DEF m, d
  <2>. QED
    BY <1>2, <2>1, <2>2, <2>3
<1>. QED
  BY <1>1, <1>3, <1>4, <1>5

LEMMA TakenFacts ==
  ASSUME NEW l \in LpType, NEW s \in Sources, NEW tod \in Seconds
  PROVE  /\ Taken(l, s, tod) \in LpType
         /\ Taken(l, s, tod).new.fc = l.new.fc /\ Taken(l, s, tod).old = l.old
         /\ Real(Taken(l, s, tod), s) \in Message
         /\ l.new.fc = 0 => Real(Taken(l, s, tod), s).fc = 0
<1>. DEFINE k == Taken(l, s, tod)
<1>1. k \in LpType /\ k.new.fc = l.new.fc /\ k.old = l.old
  <2>1. l.old.sec \in Seconds
    BY DEF LpType, Message
  <2>. QED
    BY <2>1 DEF Taken, LpType
<1>. HIDE DEF k
<1>2. Real(k, s) \in Message /\ (k.new.fc = 0 => Real(k, s).fc = 0)
  <2>1. /\ k.set.sec \in Seconds /\ k.set.mode \in {0, 1} /\ k.new.sec \in Seconds
        /\ k.new.fc \in {0, 1} /\ k.old.sec \in Seconds
    BY <1>1 DEF LpType, Message
  <2>. QED
    BY <2>1 DEF Real, Message
<1>. QED
  BY <1>1, <1>2 DEF k

LEMMA IssuedFacts ==
  ASSUME NEW old \in Message, NEW real \in Message
  PROVE  /\ Issued(old, real) \in Seq(Message)
         /\ Issued(old, real) = <<>> => real = old
         /\ \A i \in 1..Len(Issued(old, real)) : Issued(old, real)[i] = real
<1>. DEFINE a == IF old.sec # real.sec \/ old.mode # real.mode THEN <<real>> ELSE <<>>
            b == IF old.fc # real.fc THEN <<real>> ELSE <<>>
<1>1. Issued(old, real) = a \o b
  BY DEF Issued
<1>2. a \in {<<>>, <<real>>} /\ b \in {<<>>, <<real>>}
  OBVIOUS
<1>3. a = <<>> /\ b = <<>> => real = old
  BY DEF Message
<1>. HIDE DEF a, b
<1>4. a \in Seq(Message) /\ b \in Seq(Message)
  <2>1. <<>> \in Seq(Message) /\ <<real>> \in Seq(Message)
    OBVIOUS
  <2>. QED
    BY <1>2, <2>1
<1>5. /\ a \o b \in Seq(Message) /\ Len(a \o b) = Len(a) + Len(b)
      /\ \A i \in 1..(Len(a) + Len(b)) :
           (a \o b)[i] = IF i <= Len(a) THEN a[i] ELSE b[i - Len(a)]
  BY <1>4, ConcatProperties
<1>6. /\ a = <<real>> => Len(a) = 1 /\ a[1] = real
      /\ b = <<real>> => Len(b) = 1 /\ b[1] = real
      /\ a = <<>> => Len(a) = 0
      /\ b = <<>> => Len(b) = 0
  OBVIOUS
<1>7. a \o b = <<>> => a = <<>> /\ b = <<>>
  <2>1. a \o b = <<>> => Len(a \o b) = 0
    OBVIOUS
  <2>. QED
    BY <1>2, <1>5, <1>6, <2>1
<1>8. \A i \in 1..Len(a \o b) : (a \o b)[i] = real
  BY <1>2, <1>5, <1>6
<1>. QED
  BY <1>1, <1>3, <1>5, <1>7, <1>8

(* What is sent of it, its first n messages.                               *)
LEMMA SentFacts ==
  ASSUME NEW old \in Message, NEW real \in Message, NEW n \in 0..Len(Issued(old, real))
  PROVE  LET said == SubSeq(Issued(old, real), 1, n)
         IN  /\ said \in Seq(Message)
             /\ n = 0 => said = <<>>
             /\ n > 0 => said # <<>> /\ Last(said) = real
<1>. DEFINE all == Issued(old, real)
            said == SubSeq(all, 1, n)
<1>1. all \in Seq(Message) /\ \A i \in 1..Len(all) : all[i] = real
  BY IssuedFacts
<1>. HIDE DEF all
<1>2. Len(all) \in Nat /\ n \in Nat /\ n <= Len(all) /\ 1 \in Int /\ n \in Int
  BY <1>1, LenProperties DEF all
<1>3. \A i \in 1..n : all[i] \in Message /\ all[i] = real
  BY <1>1, <1>2
<1>4. /\ said \in Seq(Message) /\ Len(said) = IF 1 <= n THEN n - 1 + 1 ELSE 0
      /\ \A i \in 1..(n - 1 + 1) : said[i] = all[1 + i - 1]
  BY <1>2, <1>3, SubSeqProperties
<1>5. n = 0 => said = <<>>
  BY <1>4, EmptySeq
<1>6. n > 0 => said # <<>> /\ Last(said) = real
  <2>. SUFFICES ASSUME n > 0 PROVE said # <<>> /\ Last(said) = real
    OBVIOUS
  <2>1. Len(said) = n /\ said[n] = all[n]
    BY <1>2, <1>4
  <2>. HIDE DEF said
  <2>2. said # <<>>
    BY <1>2, <2>1
  <2>. QED
    BY <1>2, <1>3, <2>1, <2>2 DEF Last
<1>. QED
  BY <1>4, <1>5, <1>6 DEF all

(* What the database keeps is what the last message said, unless it said   *)
(* nothing.                                                                *)
LEMMA StoredFacts ==
  ASSUME NEW d \in [sec : Seconds, mode : {0, 1}], NEW msgs \in Seq(Message)
  PROVE  /\ Stored(d, msgs) \in [sec : Seconds, mode : {0, 1}]
         /\ msgs # <<>> /\ Last(msgs).sec # 0 =>
              Stored(d, msgs) = [sec |-> Last(msgs).sec, mode |-> Last(msgs).mode]
<1>. DEFINE n == Len(msgs)
            known == {i \in 1..n : msgs[i].sec # 0}
<1>1. n \in Nat /\ \A i \in 1..n : msgs[i] \in Message
  BY LenProperties
<1>2. known \in SUBSET (1..n)
  OBVIOUS
<1>3. Stored(d, msgs) = IF known = {} THEN d
                        ELSE [sec |-> msgs[Max(known)].sec, mode |-> msgs[Max(known)].mode]
  BY DEF Stored
<1>. HIDE DEF known
<1>4. known # {} => /\ Max(known) \in known /\ \A y \in known : Max(known) >= y
  <2>. HIDE DEF n
  <2>. QED
    BY <1>1, <1>2, MaxOfPlaces
<1>5. known # {} => msgs[Max(known)] \in Message
  BY <1>1, <1>2, <1>4
<1>6. Stored(d, msgs) \in [sec : Seconds, mode : {0, 1}]
  BY <1>3, <1>5 DEF Message
<1>7. ASSUME msgs # <<>>, Last(msgs).sec # 0
      PROVE  known # {} /\ msgs[Max(known)] = Last(msgs)
  <2>1. n \in 1..n
    BY <1>7, <1>1, EmptySeq
  <2>2. n \in known
    BY <1>7, <2>1 DEF known, Last
  <2>3. Max(known) = n
    <3>1. Max(known) \in 1..n /\ Max(known) >= n
      BY <1>2, <1>4, <2>2
    <3>. QED
      BY <1>1, <3>1
  <2>. QED
    BY <2>2, <2>3 DEF Last
<1>. QED
  BY <1>3, <1>6, <1>7

LEMMA LampsType ==
  ASSUME NEW r \in Reception, NEW s
  PROVE  Lamps(r, s) \in [bd : LampStates, gps : LampStates]
BY DEF Lamps, LampStates

-----------------------------------------------------------------------------
(* Every action keeps the invariant.                                       *)

LEMMA InitHolds == Init => IInv
<1>. SUFFICES ASSUME Init PROVE IInv
  OBVIOUS
<1>. USE Thresholds DEF Init
<1>1. db.sec \in Seconds /\ db.mode = 0
  BY DEF Seconds
<1>2. rcv \in Reception
  BY DEF NoReception, Reception, Systems, Modes, Seconds
<1>3. hist \in History
  BY DEF NoHistory, History
<1>4. /\ lp \in LpType /\ count \in CountType /\ out \in Message
      /\ db \in [sec : Seconds, mode : {0, 1}]
  BY <1>1 DEF LpType, CountType, Message, Seconds
<1>5. reg \in [leap : Seconds, led : [bd : LampStates, gps : LampStates]]
  BY DEF Dark, LampStates, Seconds
<1>6. TypeOK
  BY <1>2, <1>4, <1>5 DEF TypeOK, Reception, LpType, CountType, Sources, Daemons
<1>7. HistoryOK
  BY <1>3 DEF HistoryOK
<1>8. Judged(rcv, hist)
  BY DEF Judged, NoReception, NoHistory
<1>9. AnnouncementIsCounted
  BY DEF AnnouncementIsCounted, NoHistory
<1>10. RegisterHolds /\ TellsLast /\ StoreFollows /\ OneLeapSecond
  BY DEF RegisterHolds, TellsLast, StoreFollows, OneLeapSecond, Daemons
<1>. QED
  BY <1>6, <1>7, <1>8, <1>9, <1>10 DEF IInv

LEMMA SecondKeeps ==
  ASSUME IInv, SomeSecond
  PROVE  IInv'
<1>. USE Thresholds
<1>1. PICK b \in BOOLEAN, quiet \in BOOLEAN, cleared \in BOOLEAN, s \in world.sources :
        \E burst \in (IF b THEN world.bursts ELSE {<<>>}),
           tod \in (IF s = "tod" THEN Tod ELSE {0}) :
          Second(b, burst, s, quiet, cleared, tod)
  BY DEF SomeSecond
<1>2. PICK burst \in (IF b THEN world.bursts ELSE {<<>>}),
           tod \in (IF s = "tod" THEN Tod ELSE {0}) :
        Second(b, burst, s, quiet, cleared, tod)
  BY <1>1
<1>3. /\ s \in Sources /\ tod \in Seconds /\ (b => burst \in Seq(Chunks))
      /\ world.swaps \in Nat /\ world.commands \in Nat
  BY SatelliteAssumption DEF IInv, HistoryOK, SatelliteAssumption, Seconds
<1>4. /\ rcv \in Reception /\ hist \in History /\ lp \in LpType /\ count \in CountType
      /\ asked \in Seq(LeapSet) /\ queue \in Seq(Message) /\ board \in BOOLEAN
      /\ reg \in [leap : Seconds, led : [bd : LampStates, gps : LampStates]]
      /\ src \in Sources /\ count.pps < ForecastFor /\ Judged(rcv, hist)
      /\ alarm \subseteq {"dgd", "short", "open"} /\ up \in [Daemons -> BOOLEAN]
      /\ note \in [Daemons -> BOOLEAN] /\ out \in Message
      /\ db \in [sec : Seconds, mode : {0, 1}]
      /\ used \in [commands : Nat, swaps : Nat, starts : Nat, losses : Nat] /\ world \in Worlds
  BY DEF IInv, TypeOK, HistoryOK, AnnouncementIsCounted, Reception, LpType, CountType
<1>. DEFINE r0 == IF b THEN ReadSatellite(rcv, burst)
                  ELSE IF board THEN Pulled(rcv) ELSE rcv
            h0 == IF b THEN FoldLeft(Note, hist, burst) ELSE hist
            l0 == IF note["in"] /\ asked # <<>> THEN [lp EXCEPT !.set = Last(asked)] ELSE lp
            a == IF src = "gps" THEN Announced(l0, count, r0)
                 ELSE [lp |-> l0, count |-> count, rcv |-> r0]
            l == Taken(a.lp, s, tod)
            real == Real(l, s)
            c == IF cleared THEN 0 ELSE count.alm
            issued == Issued(lp.old, real)
            settled == quiet /\ s # "freq" /\ (c = FreshAfter \/ (c > FreshAfter /\ hist.settled))
            ann == IF src = "gps" /\ r0.leap.state = 1 /\ real.fc = 1
                   THEN Top(hist.ann, ForecastFor) ELSE 0
<1>5. PICK n \in 0..Len(issued) :
      /\ up["in"]
      /\ b # board => used.swaps < world.swaps
      /\ cleared => used.commands < world.commands
      /\ rcv' = a.rcv
      /\ alarm' = IF b THEN Alarms(r0) ELSE alarm
      /\ lp' = [l EXCEPT !.old = real]
      /\ count' = [a.count EXCEPT !.alm = IF quiet THEN Top(c, FreshAfter + 1) ELSE 0]
      /\ queue' = queue \o SubSeq(issued, 1, n)
      /\ note' = [Noted(note, "in") EXCEPT !["out"] = @ \/ (up["out"] /\ n > 0)]
      /\ asked' = IF note["in"] THEN <<>> ELSE asked
      /\ reg' = [leap |-> Written(c, quiet, s, lp.old, real, reg.leap), led |-> Lamps(r0, s)]
      /\ hist' = [h0 EXCEPT !.settled = settled, !.ann = ann,
                            !.behind = IF issued = <<>> THEN @ ELSE n = 0]
      /\ board' = b /\ src' = s
      /\ used' = [used EXCEPT !.swaps = IF b = board THEN @ ELSE @ + 1,
                              !.commands = IF cleared THEN @ + 1 ELSE @,
                              !.losses = IF n < Len(issued) THEN @ + 1 ELSE @]
      /\ up' = up /\ out' = out /\ db' = db /\ world' = world
  <2>. DEFINE A(x) == IF src = "gps" THEN Announced(l0, count, x)
                      ELSE [lp |-> l0, count |-> count, rcv |-> x]
              Step(x, y, z, w, k, n) ==
                /\ Len(queue) + n <= MaxQueue
                /\ n < Len(Issued(lp.old, w)) => used.losses < world.losses
                /\ rcv' = y.rcv
                /\ alarm' = IF b THEN Alarms(x) ELSE alarm
                /\ lp' = [z EXCEPT !.old = w]
                /\ count' = [y.count EXCEPT !.alm = IF quiet THEN Top(k, FreshAfter + 1) ELSE 0]
                /\ queue' = queue \o SubSeq(Issued(lp.old, w), 1, n)
                /\ note' = [Noted(note, "in") EXCEPT !["out"] = @ \/ (up["out"] /\ n > 0)]
                /\ asked' = IF note["in"] THEN <<>> ELSE asked
                /\ reg' = [leap |-> Written(k, quiet, s, lp.old, w, reg.leap),
                           led |-> Lamps(x, s)]
                /\ hist' = [h0 EXCEPT
                              !.settled = /\ quiet /\ s # "freq"
                                          /\ k = FreshAfter \/ (k > FreshAfter /\ hist.settled),
                              !.ann = IF src = "gps" /\ x.leap.state = 1 /\ w.fc = 1
                                      THEN Top(hist.ann, ForecastFor) ELSE 0,
                              !.behind = IF Issued(lp.old, w) = <<>> THEN @ ELSE n = 0]
                /\ used' = [used EXCEPT !.swaps = IF b = board THEN @ ELSE @ + 1,
                                        !.commands = IF cleared THEN @ + 1 ELSE @,
                                        !.losses = IF n < Len(Issued(lp.old, w))
                                                   THEN @ + 1 ELSE @]
  <2>1. \E x \in {r0} : \E y \in {A(x)} : \E z \in {Taken(y.lp, s, tod)} :
          \E w \in {Real(z, s)} : \E k \in {c} : \E n \in 0..Len(Issued(lp.old, w)) :
            Step(x, y, z, w, k, n)
    BY <1>2 DEF Second
  <2>2. \E n \in 0..Len(Issued(lp.old, Real(Taken(A(r0).lp, s, tod), s))) :
          Step(r0, A(r0), Taken(A(r0).lp, s, tod), Real(Taken(A(r0).lp, s, tod), s), c, n)
    <3>. HIDE DEF Step, A, r0, c
    <3>. QED
      BY <2>1
  <2>3. \E n \in 0..Len(issued) : Step(r0, a, l, real, c, n)
    BY <2>2
  <2>4. /\ up["in"]
        /\ b # board => used.swaps < world.swaps
        /\ cleared => used.commands < world.commands
        /\ board' = b /\ src' = s
        /\ up' = up /\ out' = out /\ db' = db /\ world' = world
    BY <1>2 DEF Second
  <2>. QED
    BY <2>3, <2>4
<1>. DEFINE said == SubSeq(issued, 1, n)
            behind == IF issued = <<>> THEN h0.behind ELSE n = 0
<1>6. /\ r0 \in Reception /\ h0 \in History /\ Judged(r0, h0) /\ Untouched(hist, h0)
  <2>1. CASE b
    BY <2>1, <1>3, <1>4, BurstIsJudged
  <2>2. CASE ~b
    <3>1. /\ Pulled(rcv) \in Reception /\ Pulled(rcv).pps = rcv.pps
          /\ Pulled(rcv).unused = rcv.unused /\ Pulled(rcv).valid = rcv.valid
      BY <1>4 DEF Pulled, Reception, Modes
    <3>2. Judged(Pulled(rcv), hist)
      BY <1>4, <3>1 DEF Judged
    <3>. QED
      BY <2>2, <3>1, <3>2, <1>4 DEF Untouched
  <2>. QED
    BY <2>1, <2>2
<1>7. l0 \in LpType /\ l0.old = lp.old
  <2>1. asked # <<>> => Last(asked) \in LeapSet
    <3>1. Len(asked) \in Nat /\ \A i \in 1..Len(asked) : asked[i] \in LeapSet
      BY <1>4, LenProperties
    <3>2. asked # <<>> => Len(asked) \in 1..Len(asked)
      BY <1>4, <3>1, EmptySeq
    <3>. QED
      BY <3>1, <3>2 DEF Last
  <2>2. LeapSet \subseteq [sec : Seconds, mode : {0, 1}]
    BY DEF LeapSet, Seconds
  <2>. QED
    BY <1>4, <2>1, <2>2 DEF LpType
<1>. HIDE DEF r0, h0, l0
<1>8. /\ a.lp \in LpType /\ a.count \in CountType /\ a.rcv \in Reception
      /\ a.lp.old = lp.old /\ a.count.alm = count.alm /\ a.count.pps < ForecastFor
      /\ a.rcv.pps = r0.pps /\ a.rcv.unused = r0.unused /\ a.rcv.valid = r0.valid
      /\ src = "gps" /\ r0.leap.state = 1 =>
           a.count.pps = count.pps + 1 \/ (a.lp.new.fc = 0 /\ a.count.pps = 0)
  <2>1. CASE src = "gps"
    BY <2>1, <1>4, <1>6, <1>7, AnnouncedFacts
  <2>2. CASE src # "gps"
    BY <2>2, <1>4, <1>6, <1>7
  <2>. QED
    BY <2>1, <2>2
<1>. HIDE DEF a
<1>9. /\ l \in LpType /\ l.old = lp.old /\ real \in Message
      /\ a.lp.new.fc = 0 => real.fc = 0
  BY <1>3, <1>8, TakenFacts
<1>. HIDE DEF l, real
<1>10. /\ said \in Seq(Message) /\ (issued = <<>> => real = lp.old /\ said = <<>>)
       /\ (n = 0 => said = <<>>)
       /\ (n > 0 => said # <<>> /\ Last(said) = real /\ issued # <<>>)
       /\ n \in Nat
  <2>1. lp.old \in Message
    BY <1>4 DEF LpType
  <2>2. issued \in Seq(Message) /\ (issued = <<>> => real = lp.old)
    BY <1>9, <2>1, IssuedFacts
  <2>3. /\ said \in Seq(Message) /\ (n = 0 => said = <<>>)
        /\ (n > 0 => said # <<>> /\ Last(said) = real)
    BY <1>9, <2>1, SentFacts
  <2>4. n \in Nat /\ n <= Len(issued)
    BY <2>2, LenProperties
  <2>5. issued = <<>> => n = 0
    <3>. HIDE DEF issued
    <3>. QED
      BY <2>4
  <2>. HIDE DEF issued, said
  <2>. QED
    BY <2>2, <2>3, <2>4, <2>5
<1>. HIDE DEF said, issued
<1>11. c \in 0..(FreshAfter + 1)
  BY <1>4 DEF CountType
<1>. HIDE DEF c
<1>12. ann \in 0..ForecastFor /\ ann <= a.count.pps
  <2>1. /\ hist.ann \in 0..ForecastFor /\ hist.ann <= count.pps /\ a.count.pps \in Nat
        /\ count.pps \in Nat
    <3>1. hist \in History /\ count \in CountType
      BY <1>4
    <3>2. hist.ann \in 0..ForecastFor
      BY <3>1 DEF History
    <3>3. a.count.pps \in 0..ForecastFor /\ count.pps \in 0..ForecastFor
      BY <3>1, <1>8 DEF CountType
    <3>4. hist.ann <= count.pps
      BY DEF IInv, AnnouncementIsCounted
    <3>. QED
      BY <3>2, <3>3, <3>4
  <2>2. Top(hist.ann, ForecastFor) \in 0..ForecastFor /\ Top(hist.ann, ForecastFor) <= hist.ann + 1
    BY <2>1 DEF Top
  <2>. QED
    BY <1>8, <1>9, <2>1, <2>2
<1>13. settled \in BOOLEAN /\ behind \in BOOLEAN
  BY <1>4, <1>6 DEF History
<1>. HIDE DEF ann, settled, behind
<1>14. /\ hist' \in History /\ hist'.good = h0.good /\ hist'.bad = h0.bad /\ hist'.gap = h0.gap
       /\ hist'.earned = h0.earned
       /\ hist'.settled = settled /\ hist'.ann = ann /\ hist'.behind = behind
       /\ hist'.spoilt = h0.spoilt
  <2>1. /\ hist' = [h0 EXCEPT !.settled = settled, !.ann = ann, !.behind = behind]
        /\ h0 \in History
    BY <1>5, <1>6, Zenon DEF behind
  <2>2. ann \in 0..ForecastFor
    BY <1>12
  <2>3. /\ hist' \in History /\ hist'.settled = settled /\ hist'.ann = ann
        /\ hist'.behind = behind
    BY <2>1, <2>2, <1>13 DEF History
  <2>4. /\ hist'.good = h0.good /\ hist'.bad = h0.bad /\ hist'.gap = h0.gap
        /\ hist'.earned = h0.earned /\ hist'.spoilt = h0.spoilt
    BY <2>1 DEF History
  <2>. QED
    BY <2>3, <2>4
<1>15. /\ lp' \in LpType /\ lp'.old = real
  BY <1>5, <1>9 DEF LpType
<1>16. /\ count' \in CountType /\ count'.pps = a.count.pps
  <2>0. FreshAfter + 1 \in Nat
    OBVIOUS
  <2>1. Top(c, FreshAfter + 1) \in 0..(FreshAfter + 1)
    BY <1>11, <2>0, TopCounts
  <2>. DEFINE k == IF quiet THEN Top(c, FreshAfter + 1) ELSE 0
  <2>2. k \in 0..(FreshAfter + 1)
    BY <2>1
  <2>3. count' = [a.count EXCEPT !.alm = k]
    BY <1>5
  <2>. HIDE DEF k
  <2>. QED
    BY <1>8, <2>2, <2>3 DEF CountType
<1>17. TypeOK'
  <2>1. alarm' \subseteq {"dgd", "short", "open"}
    BY <1>4, <1>5 DEF Alarms
  <2>2. queue' \in Seq(Message)
    BY <1>4, <1>5, <1>10, ConcatProperties DEF said
  <2>3. note' \in [Daemons -> BOOLEAN]
    <3>1. Noted(note, "in") \in [Daemons -> BOOLEAN]
      BY <1>4 DEF Noted
    <3>2. ASSUME NEW m \in [Daemons -> BOOLEAN], NEW x \in BOOLEAN
          PROVE  [m EXCEPT !["out"] = @ \/ x] \in [Daemons -> BOOLEAN]
      BY DEF Daemons
    <3>3. (up["out"] /\ n > 0) \in BOOLEAN
      BY <1>4 DEF Daemons
    <3>. QED
      BY <1>5, <3>1, <3>2, <3>3, Zenon
  <2>4. asked' \in Seq(LeapSet)
    BY <1>4, <1>5
  <2>5. reg' \in [leap : Seconds, led : [bd : LampStates, gps : LampStates]]
    <3>1. Written(c, quiet, s, lp.old, real, reg.leap) \in Seconds
      BY <1>4, <1>9 DEF Written, Message
    <3>2. Lamps(r0, s) \in [bd : LampStates, gps : LampStates]
      BY <1>6, LampsType
    <3>. QED
      BY <1>5, <3>1, <3>2
  <2>. QED
    BY <1>3, <1>4, <1>5, <1>8, <1>15, <1>16, <2>1, <2>2, <2>3, <2>4, <2>5
    DEF TypeOK, Reception, LpType, CountType
<1>18. HistoryOK'
  <2>1. used' \in [commands : Nat, swaps : Nat, starts : Nat, losses : Nat]
    <3>. DEFINE x == IF b = board THEN used.swaps ELSE used.swaps + 1
                y == IF cleared THEN used.commands + 1 ELSE used.commands
                z == IF n < Len(issued) THEN used.losses + 1 ELSE used.losses
    <3>1. x \in Nat /\ y \in Nat /\ z \in Nat
      BY <1>4
    <3>2. used' = [used EXCEPT !.swaps = x, !.commands = y, !.losses = z]
      BY <1>4, <1>5
    <3>. HIDE DEF x, y, z
    <3>. QED
      BY <1>4, <3>1, <3>2
  <2>. QED
    BY <1>4, <1>5, <1>14, <2>1 DEF HistoryOK
<1>19. Judged(rcv, hist)'
  BY <1>5, <1>6, <1>8, <1>14 DEF Judged
<1>20. AnnouncementIsCounted'
  BY <1>8, <1>12, <1>14, <1>16 DEF AnnouncementIsCounted
<1>21. RegisterHolds'
  <2>. SUFFICES ASSUME hist'.settled PROVE reg'.leap = lp'.old.sec
    BY DEF RegisterHolds
  <2>1. quiet /\ s # "freq" /\ (c = FreshAfter \/ (c > FreshAfter /\ hist.settled))
    BY <1>14 DEF settled
  <2>2. reg'.leap = Written(c, quiet, s, lp.old, real, reg.leap)
    BY <1>5
  <2>3. hist.settled => reg.leap = lp.old.sec
    BY <1>5 DEF IInv, RegisterHolds
  <2>4. c \in Nat
    BY <1>11
  <2>. QED
    BY <1>15, <2>1, <2>2, <2>3, <2>4 DEF Written
<1>22. /\ TellsLast' /\ StoreFollows' /\ OneLeapSecond'
  <2>1. /\ h0.behind = hist.behind /\ hist'.spoilt = hist.spoilt
    BY <1>6, <1>14 DEF Untouched
  <2>2. CASE issued = <<>>
    <3>1. queue' = queue /\ lp'.old = lp.old
      BY <1>4, <1>5, <1>10, <1>15, <2>2, ConcatEmptySeq DEF said
    <3>2. hist'.behind <=> hist.behind
      <4>1. behind = h0.behind
        BY <2>2, Zenon DEF behind
      <4>. QED
        BY <4>1, <2>1, <1>14, Zenon
    <3>. QED
      BY <1>5, <2>1, <3>1, <3>2 DEF IInv, TellsLast, StoreFollows, OneLeapSecond
  <2>4. CASE issued # <<>> /\ n = 0
    <3>1. queue' = queue
      BY <1>4, <1>5, <1>10, <2>4, ConcatEmptySeq DEF said
    <3>2. hist'.behind
      <4>1. behind = (n = 0)
        BY <2>4, Zenon DEF behind
      <4>. QED
        BY <4>1, <2>4, <1>14, Zenon
    <3>. QED
      BY <1>5, <2>1, <3>1, <3>2 DEF IInv, TellsLast, StoreFollows, OneLeapSecond
  <2>3. CASE n > 0
    <3>0. said # <<>> /\ queue' = queue \o said
      BY <1>5, <1>10, <2>3 DEF said
    <3>1. queue' # <<>> /\ Last(queue') = Last(said)
      <4>1. Len(queue) \in Nat /\ Len(said) \in Nat /\ Len(said) # 0
        BY <1>4, <1>10, <3>0, LenProperties, EmptySeq
      <4>2. /\ Len(queue \o said) = Len(queue) + Len(said)
            /\ (queue \o said)[Len(queue) + Len(said)] = said[Len(said)]
        <5>1. Len(queue) + Len(said) \in 1..(Len(queue) + Len(said))
          BY <4>1
        <5>2. (queue \o said)[Len(queue) + Len(said)]
                = IF Len(queue) + Len(said) <= Len(queue) THEN queue[Len(queue) + Len(said)]
                  ELSE said[Len(queue) + Len(said) - Len(queue)]
          BY <1>4, <1>10, <5>1, ConcatProperties
        <5>. QED
          BY <1>4, <1>10, <4>1, <5>2, ConcatProperties
      <4>3. queue' # <<>>
        BY <3>0, <4>1, <4>2
      <4>. QED
        BY <3>0, <4>2, <4>3 DEF Last
    <3>2. Last(queue') = lp'.old
      BY <1>10, <1>15, <2>3, <3>1
    <3>. QED
      BY <3>1, <3>2 DEF TellsLast, StoreFollows, OneLeapSecond
  <2>. QED
    BY <1>10, <2>2, <2>3, <2>4
<1>. QED
  BY <1>17, <1>18, <1>19, <1>20, <1>21, <1>22 DEF IInv

(* The actions that leave the receiver and the announcement alone.         *)
LEMMA ReadMessageQueueKeeps ==
  ASSUME IInv, ReadMessageQueue
  PROVE  IInv'
<1>. USE DEF ReadMessageQueue
<1>1. /\ queue \in Seq(Message) /\ db \in [sec : Seconds, mode : {0, 1}]
      /\ out \in Message /\ hist \in History
  BY DEF IInv, TypeOK, HistoryOK
<1>2. /\ db' \in [sec : Seconds, mode : {0, 1}]
      /\ queue # <<>> /\ Last(queue).sec # 0 =>
           db' = [sec |-> Last(queue).sec, mode |-> Last(queue).mode]
  BY <1>1, StoredFacts
<1>3. queue = <<>> => db' = db
  BY DEF Stored
<1>4. queue # <<>> => Last(queue) \in Message
  <2>1. Len(queue) \in Nat /\ \A i \in 1..Len(queue) : queue[i] \in Message
    BY <1>1, LenProperties
  <2>2. queue # <<>> => Len(queue) \in 1..Len(queue)
    BY <1>1, <2>1, EmptySeq
  <2>. QED
    BY <2>1, <2>2 DEF Last
<1>. DEFINE spoilt == IF queue = <<>> THEN hist.spoilt ELSE Last(queue).sec = 0
<1>5. hist' = [hist EXCEPT !.spoilt = spoilt] /\ spoilt \in BOOLEAN
  BY <1>1 DEF History
<1>6. /\ hist' \in History /\ hist'.spoilt = spoilt
      /\ hist'.good = hist.good /\ hist'.bad = hist.bad /\ hist'.gap = hist.gap
      /\ hist'.earned = hist.earned
      /\ hist'.settled = hist.settled /\ hist'.ann = hist.ann /\ hist'.behind = hist.behind
  <2>. HIDE DEF spoilt
  <2>. QED
    BY <1>1, <1>5 DEF History
<1>7. TypeOK'
  <2>1. out' \in Message
    BY <1>1, <1>4
  <2>2. note' \in [Daemons -> BOOLEAN]
    BY DEF IInv, TypeOK, Noted
  <2>3. queue' \in Seq(Message)
    OBVIOUS
  <2>. QED
    BY <1>2, <2>1, <2>2, <2>3 DEF IInv, TypeOK
<1>8. HistoryOK'
  BY <1>6 DEF IInv, HistoryOK
<1>9. Judged(rcv, hist)' /\ AnnouncementIsCounted' /\ RegisterHolds' /\ TellsLast'
  BY <1>6 DEF IInv, Judged, AnnouncementIsCounted, RegisterHolds, TellsLast
<1>10. StoreFollows' /\ OneLeapSecond'
  <2>1. CASE queue = <<>>
    <3>1. hist'.spoilt <=> hist.spoilt
      BY <1>6, <2>1, Zenon
    <3>2. db' = db /\ out' = out
      BY <1>3, <2>1
    <3>. QED
      BY <1>6, <2>1, <3>1, <3>2 DEF IInv, StoreFollows, OneLeapSecond
  <2>2. CASE queue # <<>>
    <3>1. hist'.spoilt <=> Last(queue).sec = 0
      BY <1>6, <2>2, Zenon
    <3>2. out' = Last(queue)
      BY <2>2
    <3>3. ~hist'.spoilt => db' = [sec |-> Last(queue).sec, mode |-> Last(queue).mode]
      BY <1>2, <2>2, <3>1
    <3>4. up["in"] /\ ~hist'.behind => Last(queue) = lp.old
      BY <1>6, <2>2 DEF IInv, TellsLast
    <3>5. lp.old.fc \in {0, 1}
      BY DEF IInv, TypeOK, Message
    <3>. QED
      BY <3>2, <3>3, <3>4, <3>5 DEF StoreFollows, OneLeapSecond
  <2>. QED
    BY <2>1, <2>2
<1>. QED
  BY <1>7, <1>8, <1>9, <1>10 DEF IInv

(* What is behind the k-th element of a sequence.                         *)
LEMMA RestOfSeq ==
  ASSUME NEW T, NEW s \in Seq(T), NEW k \in 1..Len(s)
  PROVE  /\ SubSeq(s, k + 1, Len(s)) \in Seq(T)
         /\ Len(SubSeq(s, k + 1, Len(s))) = IF k + 1 <= Len(s) THEN Len(s) - k ELSE 0
         /\ \A i \in 1..(Len(s) - k) : SubSeq(s, k + 1, Len(s))[i] = s[k + i]
<1>1. Len(s) \in Nat /\ k \in Nat
  BY LenProperties
<1>2. \A i \in (k + 1)..Len(s) : s[i] \in T
  BY <1>1, ElementOfSeq
<1>3. Len(s) - (k + 1) + 1 = Len(s) - k /\ \A i \in Int : k + 1 + i - 1 = k + i
  BY <1>1
<1>. QED
  BY <1>1, <1>2, <1>3, SubSeqProperties

LEMMA StoreFailsKeeps ==
  ASSUME IInv, NEW n \in 1..MaxQueue, StoreFails(n)
  PROVE  IInv'
<1>. USE DEF StoreFails
<1>1. /\ queue \in Seq(Message) /\ db \in [sec : Seconds, mode : {0, 1}]
      /\ hist \in History /\ n \in 1..Len(queue) /\ Len(queue) \in Nat
      /\ up \in [Daemons -> BOOLEAN]
      /\ used \in [commands : Nat, swaps : Nat, starts : Nat, losses : Nat]
  BY LenProperties DEF IInv, TypeOK, HistoryOK
<1>2. db' \in [sec : Seconds, mode : {0, 1}]
  <2>1. SubSeq(queue, 1, n - 1) \in Seq(Message)
    BY <1>1, SubSeqProperties
  <2>. QED
    BY <1>1, <2>1, StoredFacts
<1>3. queue' \in Seq(Message) /\ (queue' # <<>> => Last(queue') = Last(queue) /\ queue # <<>>)
  <2>1. /\ queue' \in Seq(Message)
        /\ Len(queue') = IF n + 1 <= Len(queue) THEN Len(queue) - n ELSE 0
        /\ \A i \in 1..(Len(queue) - n) : queue'[i] = queue[n + i]
    <3>1. queue' = SubSeq(queue, n + 1, Len(queue))
      OBVIOUS
    <3>2. queue \in Seq(Message) /\ n \in 1..Len(queue)
      BY <1>1
    <3>. HIDE DEF StoreFails
    <3>. QED
      BY ONLY <3>1, <3>2, RestOfSeq
  <2>2. ASSUME queue' # <<>> PROVE Last(queue') = Last(queue) /\ queue # <<>>
    <3>1. Len(queue') # 0
      BY <2>1, <2>2, EmptySeq
    <3>2. n \in Nat /\ n + 1 <= Len(queue)
      BY <1>1, <2>1, <3>1
    <3>3. Len(queue') = Len(queue) - n /\ Len(queue) - n \in 1..(Len(queue) - n)
      BY <1>1, <2>1, <3>2
    <3>4. queue'[Len(queue) - n] = queue[Len(queue)]
      <4>1. n + (Len(queue) - n) = Len(queue)
        BY <1>1, <3>2
      <4>. QED
        BY <2>1, <3>3, <4>1
    <3>5. queue # <<>>
      BY <1>1, <3>2
    <3>. QED
      BY <3>3, <3>4, <3>5 DEF Last
  <2>. QED
    BY <2>1, <2>2
<1>4. /\ hist' \in History /\ hist'.spoilt
      /\ hist'.good = hist.good /\ hist'.bad = hist.bad /\ hist'.gap = hist.gap
      /\ hist'.earned = hist.earned
      /\ hist'.settled = hist.settled /\ hist'.ann = hist.ann /\ hist'.behind = hist.behind
  BY <1>1 DEF History
<1>5. up' \in [Daemons -> BOOLEAN] /\ ~up'["out"] /\ (up'["in"] => up["in"])
  BY <1>1 DEF Daemons
<1>6. TypeOK'
  <2>1. note' \in [Daemons -> BOOLEAN]
    BY DEF IInv, TypeOK, Noted
  <2>. QED
    BY <1>2, <1>3, <1>5, <2>1 DEF IInv, TypeOK
<1>7. HistoryOK'
  <2>1. used' \in [commands : Nat, swaps : Nat, starts : Nat, losses : Nat]
    <3>1. used.starts + 1 \in Nat
      BY <1>1
    <3>. QED
      BY <1>1, <3>1
  <2>. QED
    BY <1>4, <2>1 DEF IInv, HistoryOK
<1>8. Judged(rcv, hist)' /\ AnnouncementIsCounted' /\ RegisterHolds'
  BY <1>4, <1>5 DEF IInv, Judged, AnnouncementIsCounted, RegisterHolds
<1>9. TellsLast'
  BY <1>3, <1>4, <1>5 DEF IInv, TellsLast
<1>10. StoreFollows' /\ OneLeapSecond'
  BY <1>4 DEF StoreFollows, OneLeapSecond
<1>. QED
  BY <1>6, <1>7, <1>8, <1>9, <1>10 DEF IInv

LEMMA LeapKeeps ==
  ASSUME IInv, NEW m \in LeapSet, Leap(m)
  PROVE  IInv'
<1>. USE DEF Leap
<1>1. asked' \in Seq(LeapSet)
  BY DEF IInv, TypeOK
<1>2. note' \in [Daemons -> BOOLEAN]
  <2>1. note \in [Daemons -> BOOLEAN] /\ up["in"] \in BOOLEAN
    BY DEF IInv, TypeOK, Daemons
  <2>2. ASSUME NEW k \in [Daemons -> BOOLEAN], NEW x \in BOOLEAN
        PROVE  [k EXCEPT !["in"] = @ \/ x] \in [Daemons -> BOOLEAN]
    BY DEF Daemons
  <2>. QED
    BY <2>1, <2>2, Zenon
<1>3. used' \in [commands : Nat, swaps : Nat, starts : Nat, losses : Nat]
  BY DEF IInv, HistoryOK
<1>4. TypeOK'
  BY <1>1, <1>2 DEF IInv, TypeOK
<1>5. HistoryOK'
  BY <1>3 DEF IInv, HistoryOK
<1>6. Judged(rcv, hist)' /\ AnnouncementIsCounted' /\ RegisterHolds'
  BY DEF IInv, Judged, AnnouncementIsCounted, RegisterHolds
<1>7. TellsLast' /\ StoreFollows' /\ OneLeapSecond'
  BY DEF IInv, TellsLast, StoreFollows, OneLeapSecond
<1>. QED
  BY <1>4, <1>5, <1>6, <1>7 DEF IInv

LEMMA StartInputKeeps ==
  ASSUME IInv, NEW b \in BOOLEAN, NEW s \in world.sources, StartInput(b, s)
  PROVE  IInv'
<1>. USE Thresholds DEF StartInput
<1>1. /\ s \in Sources /\ db \in [sec : Seconds, mode : {0, 1}]
      /\ used \in [commands : Nat, swaps : Nat, starts : Nat, losses : Nat]
      /\ up \in [Daemons -> BOOLEAN] /\ hist \in History
      /\ reg \in [leap : Seconds, led : [bd : LampStates, gps : LampStates]]
  BY SatelliteAssumption DEF IInv, TypeOK, HistoryOK, SatelliteAssumption
<1>2. rcv' \in Reception
  BY DEF NoReception, Reception, Systems, Modes, Seconds
<1>3. lp' \in LpType /\ count' \in CountType
  BY <1>1 DEF LpType, CountType, Message, Seconds
<1>. DEFINE behind == queue # <<>> \/ (up["out"] /\ out.fc = 1) \/ db.mode = 1
<1>4. hist' = [NoHistory EXCEPT !.behind = behind, !.spoilt = hist.spoilt]
  OBVIOUS
<1>5. behind \in BOOLEAN /\ hist.spoilt \in BOOLEAN
  <2>1. hist.spoilt \in BOOLEAN
    BY <1>1 DEF History
  <2>2. up["out"] \in BOOLEAN
    BY <1>1 DEF Daemons
  <2>. QED
    BY <2>1, <2>2
<1>. HIDE DEF behind
<1>6. ASSUME NEW x \in BOOLEAN, NEW y \in BOOLEAN, NEW k,
             k = [NoHistory EXCEPT !.behind = x, !.spoilt = y]
      PROVE  /\ k \in History /\ k.behind = x /\ k.spoilt = y
             /\ k.good = 0 /\ k.bad = 0 /\ k.gap = FALSE /\ k.earned = FALSE /\ k.settled = FALSE /\ k.ann = 0
  <2>1. k = [good |-> 0, bad |-> 0, gap |-> FALSE, earned |-> FALSE, few |-> FALSE, settled |-> FALSE,
             ann |-> 0, behind |-> x, spoilt |-> y]
    BY <1>6 DEF NoHistory
  <2>2. 0 \in 0..(GetAfter + 1) /\ 0 \in 0..(LostAfter + 1) /\ 0 \in 0..ForecastFor
    OBVIOUS
  <2>. QED
    BY <2>1, <2>2 DEF History
<1>7. /\ hist' \in History /\ hist'.behind = behind /\ hist'.spoilt = hist.spoilt
      /\ hist'.good = 0 /\ hist'.bad = 0 /\ hist'.gap = FALSE /\ hist'.earned = FALSE
      /\ hist'.settled = FALSE /\ hist'.ann = 0
  <2>. DEFINE k == hist'
  <2>1. k = [NoHistory EXCEPT !.behind = behind, !.spoilt = hist.spoilt]
    BY <1>4
  <2>. HIDE DEF k
  <2>2. /\ k \in History /\ k.behind = behind /\ k.spoilt = hist.spoilt
        /\ k.good = 0 /\ k.bad = 0 /\ k.gap = FALSE /\ k.earned = FALSE /\ k.settled = FALSE /\ k.ann = 0
    BY <1>5, <1>6, <2>1
  <2>. QED
    BY <2>2 DEF k
<1>8. up' \in [Daemons -> BOOLEAN] /\ up'["out"] = up["out"]
  BY <1>1 DEF Daemons
<1>9. TypeOK'
  <2>1. note' \in [Daemons -> BOOLEAN]
    BY DEF IInv, TypeOK, Daemons
  <2>2. reg' \in [leap : Seconds, led : [bd : LampStates, gps : LampStates]]
    BY <1>1
  <2>. QED
    BY <1>1, <1>2, <1>3, <1>8, <2>1, <2>2
    DEF IInv, TypeOK, Reception, LpType, CountType
<1>10. HistoryOK'
  <2>. DEFINE x == IF b = board THEN used.swaps ELSE used.swaps + 1
  <2>1. used' = [used EXCEPT !.swaps = x] /\ x \in Nat
    BY <1>1
  <2>. HIDE DEF x
  <2>2. used' \in [commands : Nat, swaps : Nat, starts : Nat, losses : Nat]
    BY <1>1, <2>1
  <2>. QED
    BY <1>7, <2>2 DEF IInv, HistoryOK
<1>11. Judged(rcv, hist)'
  BY <1>7 DEF Judged, NoReception
<1>12. AnnouncementIsCounted' /\ RegisterHolds'
  BY <1>7 DEF AnnouncementIsCounted, RegisterHolds
<1>13. hist'.behind <=> (queue # <<>> \/ (up["out"] /\ out.fc = 1) \/ db.mode = 1)
  BY <1>7, Zenon DEF behind
<1>14. StoreFollows'
  <2>1. hist'.spoilt <=> hist.spoilt
    BY <1>7, Zenon
  <2>. QED
    BY <1>8, <2>1 DEF IInv, StoreFollows
<1>15. TellsLast'
  BY <1>13 DEF TellsLast
<1>16. OneLeapSecond'
  <2>. SUFFICES ASSUME queue' = <<>>, ~hist'.spoilt, ~hist'.behind
                PROVE  /\ db' = [sec |-> lp'.old.sec, mode |-> lp'.old.mode]
                       /\ up'["out"] => /\ out'.sec = lp'.old.sec /\ out'.mode = lp'.old.mode
                                        /\ out'.fc <= lp'.old.fc
    BY DEF OneLeapSecond
  <2>1. lp'.old = [sec |-> db.sec, mode |-> 0, fc |-> 0]
    OBVIOUS
  <2>2. db.mode = 0 /\ (up["out"] => out.fc = 0)
    <3>1. db.mode \in {0, 1} /\ out.fc \in {0, 1}
      BY DEF IInv, TypeOK, Message
    <3>. QED
      BY <1>13, <3>1
  <2>3. up["out"] => out.sec = db.sec /\ out.mode = db.mode
    BY <1>8, <1>14 DEF StoreFollows
  <2>. QED
    BY <1>1, <1>8, <2>1, <2>2, <2>3
<1>. QED
  BY <1>9, <1>10, <1>11, <1>12, <1>14, <1>15, <1>16 DEF IInv

LEMMA StartOutputKeeps ==
  ASSUME IInv, StartOutput
  PROVE  IInv'
<1>. USE DEF StartOutput
<1>1. /\ db \in [sec : Seconds, mode : {0, 1}] /\ up \in [Daemons -> BOOLEAN]
      /\ lp.old \in Message
  BY DEF IInv, TypeOK
<1>2. up' \in [Daemons -> BOOLEAN] /\ up'["in"] = up["in"]
  BY <1>1 DEF Daemons
<1>3. TypeOK'
  <2>1. out' \in Message
    BY <1>1 DEF Message
  <2>2. note' \in [Daemons -> BOOLEAN]
    BY DEF IInv, TypeOK, Daemons
  <2>. QED
    BY <1>2, <2>1, <2>2 DEF IInv, TypeOK
<1>4. HistoryOK' /\ Judged(rcv, hist)' /\ AnnouncementIsCounted'
  BY DEF IInv, HistoryOK, Judged, AnnouncementIsCounted
<1>5. RegisterHolds' /\ TellsLast'
  BY <1>2 DEF IInv, RegisterHolds, TellsLast
<1>6. StoreFollows'
  BY DEF StoreFollows
<1>7. OneLeapSecond'
  <2>1. lp.old.fc \in {0, 1}
    BY <1>1 DEF Message
  <2>2. lp' = lp /\ db' = db /\ queue' = queue /\ hist' = hist
        /\ out'.sec = db.sec /\ out'.mode = db.mode /\ out'.fc = 0
    OBVIOUS
  <2>. QED
    BY <1>2, <2>1, <2>2 DEF IInv, OneLeapSecond
<1>. QED
  BY <1>3, <1>4, <1>5, <1>6, <1>7 DEF IInv

LEMMA StopKeeps ==
  ASSUME IInv, NEW d \in Daemons, Stop(d)
  PROVE  IInv'
<1>. USE DEF Stop
<1>1. up \in [Daemons -> BOOLEAN] /\ used \in [commands : Nat, swaps : Nat, starts : Nat, losses : Nat]
  BY DEF IInv, TypeOK, HistoryOK
<1>2. up' \in [Daemons -> BOOLEAN] /\ (up'["in"] => up["in"]) /\ (up'["out"] => up["out"])
  BY <1>1 DEF Daemons
<1>3. TypeOK'
  BY <1>2 DEF IInv, TypeOK
<1>4. HistoryOK'
  BY <1>1 DEF IInv, HistoryOK
<1>5. Judged(rcv, hist)' /\ AnnouncementIsCounted' /\ RegisterHolds'
  BY <1>2 DEF IInv, Judged, AnnouncementIsCounted, RegisterHolds
<1>6. TellsLast' /\ StoreFollows' /\ OneLeapSecond'
  BY <1>2 DEF IInv, TellsLast, StoreFollows, OneLeapSecond
<1>. QED
  BY <1>3, <1>4, <1>5, <1>6 DEF IInv

LEMMA NextKeeps ==
  ASSUME IInv, [Next]_vars
  PROVE  IInv'
<1>1. CASE UNCHANGED vars
  BY <1>1 DEF vars, IInv, TypeOK, HistoryOK, Judged, AnnouncementIsCounted, RegisterHolds,
              TellsLast, StoreFollows, OneLeapSecond
<1>2. CASE Next
  BY <1>2, SecondKeeps, ReadMessageQueueKeeps, StoreFailsKeeps, LeapKeeps, StartInputKeeps,
     StartOutputKeeps, StopKeeps DEF Next
<1>. QED
  BY <1>1, <1>2

-----------------------------------------------------------------------------
(* Theorems.                                                               *)

THEOREM Inductive == Spec => []IInv
<1>1. Init => IInv
  BY InitHolds
<1>2. IInv /\ [Next]_vars => IInv'
  BY NextKeeps
<1>. QED
  BY <1>1, <1>2, PTL DEF Spec

(* The reception, the leap seconds, the messages and the register stay in  *)
(* their ranges, whatever the receiver says.                               *)
THEOREM TypeCorrect == Spec => []TypeOK
<1>1. IInv => TypeOK
  BY DEF IInv
<1>. QED
  BY <1>1, Inductive, PTL

(* STA_Parser: the reception counts after GetAfter good sentences in a row *)
(* and is over after LostAfter bad ones, for every way the sentences come  *)
(* in bursts and the board comes and goes.                                 *)
THEOREM JudgedByWhatLasts == Spec => []ReceptionIsJudged
<1>1. IInv => ReceptionIsJudged
  <2>. SUFFICES ASSUME IInv PROVE ReceptionIsJudged
    OBVIOUS
  <2>1. hist.good \in Nat /\ hist.bad \in Nat /\ GetAfter \in Nat /\ LostAfter \in Nat
    BY Thresholds DEF IInv, HistoryOK, History
  <2>. QED
    BY <2>1 DEF IInv, Judged, ReceptionIsJudged
<1>. QED
  BY <1>1, Inductive, PTL

(* FPGA_SYS_LPS holds the leap second d-input believes in while a quiet    *)
(* time source stays one.                                                  *)
THEOREM RegisterKeepsUp == Spec => []RegisterHolds
<1>1. IInv => RegisterHolds
  BY DEF IInv
<1>. QED
  BY <1>1, Inductive, PTL

(* IssueLeapForecast, sysLeapsecond and ReadLeapsecond keep the two        *)
(* daemons and the database of one mind.                                   *)
THEOREM OneMind == Spec => []OneLeapSecond
<1>1. IInv => OneLeapSecond
  BY DEF IInv
<1>. QED
  BY <1>1, Inductive, PTL

(* pps_count: no announcement is passed on for ForecastFor seconds.        *)
THEOREM AnnouncementEnds == Spec => []ForecastEnds
<1>1. IInv => ForecastEnds
  BY Thresholds DEF IInv, TypeOK, HistoryOK, History, AnnouncementIsCounted, ForecastEnds
<1>. QED
  BY <1>1, Inductive, PTL
=============================================================================
