------------------------------ MODULE Satellite ------------------------------
(***************************************************************************)
(* The satellite receiver and the leap second: from the sentences of the   *)
(* receiver (src/d-input/din_satellite.c) through the input daemon's       *)
(* second (din_ctrl.c: the main loop and Time_Refresh_Strategy) and its    *)
(* message to the output daemon (din_issue.c: IssueLeapForecast;           *)
(* src/d-output/dout_parser.c: sysLeapsecond) to the database, where both  *)
(* daemons read it when they start, with p350sys leap (csys_parser.c),     *)
(* which forces a leap second or leaves it to the source.                  *)
(*                                                                         *)
(* There is one slot for a satellite board.  Which source is selected and  *)
(* whether it is quiet is what SourceSelect is about; here both are        *)
(* whatever a round may find.  A leap second of 0 is "not known".  The     *)
(* strobes that make the FPGA take the time over keep no state and are     *)
(* left out; the leap second written with them is not.                     *)
(***************************************************************************)
EXTENDS Naturals, Sequences, FiniteSets, SequencesExt

CONSTANTS
  Leaps,        (* the leap seconds that occur, without 0                     *)
  Worlds,       (* bound: the surroundings a behaviour keeps to, see below    *)
  GetAfter,     (* 60: good sentences until the reception counts              *)
  Tod,          (* the leap seconds a TOD source says                         *)
  LostAfter,    (* 60: bad sentences until it is lost                         *)
  FreshAfter,   (* 60: quiet seconds of the source until its time is taken    *)
  ForecastFor,  (* 60: seconds after which an announcement is taken back      *)
  MaxQueue      (* MAX_MSGS, 100: messages to d-output that wait              *)

Sources == {"gps", "tod", "freq", "none"}
TimeSources == {"gps", "tod"}
Systems == {"gps", "bd"}
Modes == {"none", "gps", "bd", "mixgps", "mixbd"}
Seconds == {0} \cup Leaps

(* A chunk of the buffer: nothing, one of the sentences that are read, or  *)
(* anything else ("other": a bad checksum, RMC and ZDA, which only set     *)
(* what is shown).                                                         *)
Chunks ==
  [t : {"empty", "other"}]
  \cup [t : {"STA"}, pps : BOOLEAN, ant : {"2", "3", "4", "-"}]
  \cup [t : {"GGA"}, mode : Modes]
  \cup [t : {"GSV"}, sys : Systems, many : BOOLEAN]
  \cup [t : {"LPS"}, state : {0, 1}, sec : Seconds]

(* A world: what the receiver's buffer may hold in a second (a sequence of *)
(* chunks each), the sources that may be selected, and how many swaps of   *)
(* the board, commands of the operator, restarts and seconds that lose a   *)
(* message there are at most.                                              *)
ASSUME SatelliteAssumption ==
  /\ Leaps \subseteq Nat \ {0}
  /\ Tod \subseteq Seconds
  /\ \A w \in Worlds :
       /\ w.bursts \subseteq Seq(Chunks)
       /\ w.sources \subseteq Sources
       /\ {w.swaps, w.commands, w.starts, w.losses} \subseteq Nat
  /\ {GetAfter, LostAfter, FreshAfter, ForecastFor, MaxQueue} \subseteq Nat
  /\ ForecastFor > 1

VARIABLES
  up,       \* up[daemon]
  board,    \* the satellite board is in its slot, as the FPGA says
  rcv,      \* inSta[slot] and the statics of STA_Parser
  alarm,    \* the private alarms of the board that are on
  src,      \* cs.type
  lp,       \* lp_old, lp_new and lp_set of d-input
  count,    \* alm (alm_num) and pps (pps_count)
  reg,      \* FPGA: leap (FPGA_SYS_LPS) and the two lamps of the receiver
  asked,    \* messages to d-input
  queue,    \* messages to d-output
  note,     \* note[daemon]: notify_flag
  out,      \* ctx->lp of d-output
  db,       \* leapsecond and leapmode in the database
  hist,     \* history, see below
  used,     \* how many commands, swaps, starts and losses there were
  world     \* never changes

vars == <<up, board, rcv, alarm, src, lp, count, reg, asked, queue, note, out,
          db, hist, used, world>>

Daemons == {"in", "out"}
Top(n, max) == IF n < max THEN n + 1 ELSE max
LeapSet == [mode : {0}, sec : {0}] \cup [mode : {1}, sec : Leaps]
Message == [sec : Seconds, mode : {0, 1}, fc : {0, 1}]

(* initializeContext sets satellite_valid to INIT and satellite_state to   *)
(* "enough" and, 34 lines further down, fills inSta with zeros once more.  *)
NoReception ==
  [valid |-> "init", enough |-> {}, mode |-> "none", ant |-> "none", pps |-> 0,
   unused |-> 0, leap |-> [state |-> 0, sec |-> 0]]
(* good, bad: sentences in a row that called the pulse valid or invalid;   *)
(* gap: an empty chunk since good was beyond GetAfter; earned: good has    *)
(* been beyond GetAfter without a gap, and since then no chunk was empty   *)
(* and bad not beyond LostAfter; few: a count below five stars was read;   *)
(* settled: nothing but quiet time sources since the time was taken over;  *)
(* ann: seconds the receiver's announcement has been passed on; spoilt,    *)
(* behind: see OneLeapSecond.                                              *)
NoHistory == [good |-> 0, bad |-> 0, gap |-> FALSE, earned |-> FALSE, few |-> FALSE,
              settled |-> FALSE, ann |-> 0, behind |-> FALSE, spoilt |-> FALSE]
Dark == [bd |-> "off", gps |-> "off"]

Init ==
  /\ up = [d \in Daemons |-> FALSE]
  /\ board \in BOOLEAN
  /\ rcv = NoReception
  /\ alarm = {}
  /\ src = "none"
  /\ db \in [sec : Leaps, mode : {0}]
  /\ lp = [old |-> [sec |-> 0, mode |-> 0, fc |-> 0], new |-> [sec |-> 0, fc |-> 0],
           set |-> db]
  /\ count = [alm |-> 0, pps |-> 0]
  /\ reg = [leap |-> 0, led |-> Dark]
  /\ asked = <<>>
  /\ queue = <<>>
  /\ note = [d \in Daemons |-> FALSE]
  /\ out = [sec |-> db.sec, mode |-> db.mode, fc |-> 0]
  /\ hist = NoHistory
  /\ used = [commands |-> 0, swaps |-> 0, starts |-> 0, losses |-> 0]
  /\ world \in Worlds

-----------------------------------------------------------------------------
(* The receiver.                                                           *)

(* Fault: it counts a sentence too early.                                  *)
TooEarly(r, c) ==
  IF c.pps
  THEN [r EXCEPT !.valid = IF r.pps + 1 = GetAfter THEN "get" ELSE @,
                 !.unused = 0, !.pps = Top(@, GetAfter + 1)]
  ELSE [r EXCEPT !.valid = IF r.unused = LostAfter THEN "loss" ELSE @,
                 !.pps = 0, !.unused = Top(@, LostAfter + 1)]
(* STA_Parser: the pulse is valid, or is not.                              *)
Pulse(r, c) ==
  IF c.pps
  THEN [r EXCEPT !.valid = IF r.pps = GetAfter THEN "get" ELSE @,
                 !.unused = 0, !.pps = Top(@, GetAfter + 1)]
  ELSE [r EXCEPT !.valid = IF r.unused = LostAfter THEN "loss" ELSE @,
                 !.pps = 0, !.unused = Top(@, LostAfter + 1)]
Antenna(r, c) ==
  [r EXCEPT !.ant = CASE c.ant = "2" -> "normal"
                      [] c.ant = "3" -> "loop"
                      [] c.ant = "4" -> IF c.pps THEN "normal" ELSE "open"
                      [] OTHER -> @]
STA_Parser(r, c) == Antenna(Pulse(r, c), c)

(* GSV_Parser, BSV_Parser: a count counts while the reception does.        *)
GSV_Parser(r, c) ==
  IF r.valid # "get" THEN r
  ELSE [r EXCEPT !.enough = IF c.many THEN @ \cup {c.sys} ELSE @ \ {c.sys}]

LPS_Parser(r, c) == [r EXCEPT !.leap = [state |-> c.state, sec |-> c.sec]]
GGA_Parser(r, c) == [r EXCEPT !.mode = c.mode]

(* A chunk of ReadSatellite.                                               *)
Parse(r, c) ==
  CASE c.t = "empty" -> [r EXCEPT !.valid = "loss"]
    [] c.t = "STA" -> STA_Parser(r, c)
    [] c.t = "GSV" -> GSV_Parser(r, c)
    [] c.t = "LPS" -> LPS_Parser(r, c)
    [] c.t = "GGA" -> GGA_Parser(r, c)
    [] OTHER -> r
ReadSatellite(r, burst) == FoldLeft(Parse, r, burst)

(* What a chunk means to the history.                                      *)
Note(h, c) ==
  CASE c.t = "empty" -> [h EXCEPT !.gap = h.good > GetAfter, !.earned = FALSE]
    [] c.t = "STA" /\ c.pps ->
         [h EXCEPT !.good = Top(@, GetAfter + 1), !.bad = 0,
                   !.earned = @ \/ (h.good >= GetAfter /\ ~h.gap)]
    [] c.t = "STA" /\ ~c.pps ->
         [h EXCEPT !.good = 0, !.bad = Top(@, LostAfter + 1), !.gap = FALSE,
                   !.earned = @ /\ h.bad < LostAfter]
    [] c.t = "GSV" /\ ~c.many -> [h EXCEPT !.few = TRUE]
    [] OTHER -> h

(* BoardPushPull: what a pull leaves of the reception.                     *)
Pulled(r) == [r EXCEPT !.mode = "none", !.enough = Systems]

(* SatAlarm: the signal is degraded, the antenna is shorted or open.       *)
Alarms(r) ==
  {a \in {"dgd", "short", "open"} :
     CASE a = "dgd"   -> r.enough = {} /\ r.valid = "get"
       [] a = "short" -> r.ant = "loop"
       [] a = "open"  -> r.ant = "open"}

(* ledCtrl: a lamp is on with any reception and blinks when the selected   *)
(* source is a receiver of its system.                                     *)
Lamps(r, s) ==
  LET lamp(modes) == IF r.valid # "get" THEN "off"
                     ELSE IF s = "gps" /\ r.mode \in modes THEN "alt" ELSE "on"
  IN  [bd |-> lamp({"bd", "mixbd"}), gps |-> lamp({"gps", "mixgps"})]

-----------------------------------------------------------------------------
(* The leap second in the input daemon.                                    *)

(* Fault: the announcement is not taken back.                              *)
Kept(l, c, r) ==
  LET n == [l EXCEPT !.new.sec = r.leap.sec]
      k == c.pps + 1
  IN  IF r.leap.state = 0
      THEN [lp |-> n, count |-> [c EXCEPT !.pps = 0], rcv |-> r]
      ELSE [lp |-> [n EXCEPT !.new.fc = 1],
            count |-> [c EXCEPT !.pps = IF k >= ForecastFor THEN 0 ELSE k],
            rcv |-> r]
(* With a receiver selected its leap second is taken, and its announcement *)
(* passed on from the first second to the one before ForecastFor.          *)
Announced(l, c, r) ==
  LET n == [l EXCEPT !.new.sec = r.leap.sec]
      k == c.pps + 1
  IN  CASE r.leap.state = 0 ->
             [lp |-> n, count |-> [c EXCEPT !.pps = 0], rcv |-> r]
        [] r.leap.state = 1 /\ k >= ForecastFor ->
             [lp |-> [n EXCEPT !.new.fc = 0], count |-> [c EXCEPT !.pps = 0],
              rcv |-> [r EXCEPT !.leap.state = 0]]
        [] OTHER ->
             [lp |-> [n EXCEPT !.new.fc = IF k = 1 THEN 1 ELSE @],
              count |-> [c EXCEPT !.pps = k], rcv |-> r]

(* Time_Refresh_Strategy: lp_new takes the leap second of the source.  The *)
(* second of an IRIG-B source never passes: irigb_leap stays 0.            *)
Taken(l, s, tod) ==
  IF l.set.mode = 1 THEN l
  ELSE CASE s = "tod"  -> [l EXCEPT !.new.sec = tod]
         [] s = "freq" -> [l EXCEPT !.new.sec = l.old.sec]
         [] OTHER      -> l
(* real_lp, of l after Taken.                                              *)
Real(l, s) ==
  CASE l.set.mode = 1 -> [sec |-> l.set.sec, mode |-> 1, fc |-> 0]
    [] l.set.mode = 0 /\ s \in {"gps", "freq"} ->
         [sec |-> l.new.sec, mode |-> 0, fc |-> l.new.fc]
    [] l.set.mode = 0 /\ s = "tod" -> [sec |-> l.new.sec, mode |-> 0, fc |-> 0]
    [] OTHER -> [sec |-> l.old.sec, mode |-> 0, fc |-> 0]

(* Fault: only a change of the seconds is sent.                            *)
SecondsOnly(old, real) == IF old.sec # real.sec THEN <<real>> ELSE <<>>
(* IssueLeapForecast, for a change of the second or the mode and once more *)
(* for the announcement.                                                   *)
Issued(old, real) ==
  (IF old.sec # real.sec \/ old.mode # real.mode THEN <<real>> ELSE <<>>)
    \o (IF old.fc # real.fc THEN <<real>> ELSE <<>>)

(* Fault: the second of a change is left to the next source.               *)
OnceOnly(c, quiet, s, old, real, leap) ==
  IF quiet /\ c = FreshAfter /\ s # "freq" THEN real.sec ELSE leap
(* FPGA_SYS_LPS: written (FreshTime) with the time when the source was     *)
(* quiet for FreshAfter seconds, and from then on with every change; a     *)
(* frequency is no time.  c is alm_num before this second.                 *)
Written(c, quiet, s, old, real, leap) ==
  IF quiet /\ s # "freq" /\ (c = FreshAfter \/ (c > FreshAfter /\ old.sec # real.sec))
  THEN real.sec ELSE leap

-----------------------------------------------------------------------------
(* isNotify: the flag is cleared and the queue read to its end.            *)
Noted(n, d) == [n EXCEPT ![d] = FALSE]

(* One second of the input daemon: the boards, the messages, the receiver, *)
(* the alarms, the selection (s, quiet; cleared: its schema changed) and   *)
(* the leap second.  Of the messages issued only n are sent: MsgQ_Send     *)
(* refuses one when MaxQueue wait, and a system call on the way may fail;  *)
(* the daemon goes on as if it had told them all.                          *)
Second(b, burst, s, quiet, cleared, tod) ==
  /\ up["in"]
  /\ b # board => used.swaps < world.swaps
  /\ cleared => used.commands < world.commands
  /\ quiet => s # "none" /\ (s = "gps" => b)
  /\ \E r0 \in {IF b THEN ReadSatellite(rcv, burst)
                ELSE IF board THEN Pulled(rcv) ELSE rcv} :
     \E a \in {LET l == IF note["in"] /\ asked # <<>>
                        THEN [lp EXCEPT !.set = Last(asked)] ELSE lp
               IN  IF src = "gps" THEN Announced(l, count, r0)
                   ELSE [lp |-> l, count |-> count, rcv |-> r0]} :
     \E l \in {Taken(a.lp, s, tod)} :
     \E real \in {Real(l, s)} :
     \E c \in {IF cleared THEN 0 ELSE count.alm} :
     \E n \in 0..Len(Issued(lp.old, real)) :
       /\ Len(queue) + n <= MaxQueue
       /\ n < Len(Issued(lp.old, real)) => used.losses < world.losses
       /\ rcv' = a.rcv
       /\ alarm' = IF b THEN Alarms(r0) ELSE alarm
       /\ lp' = [l EXCEPT !.old = real]
       /\ count' = [a.count EXCEPT !.alm = IF quiet THEN Top(c, FreshAfter + 1) ELSE 0]
       /\ queue' = queue \o SubSeq(Issued(lp.old, real), 1, n)
       /\ note' = [Noted(note, "in") EXCEPT !["out"] = @ \/ (up["out"] /\ n > 0)]
       /\ asked' = IF note["in"] THEN <<>> ELSE asked
       /\ reg' = [leap |-> Written(c, quiet, s, lp.old, real, reg.leap),
                  led  |-> Lamps(r0, s)]
       /\ hist' = [(IF b THEN FoldLeft(Note, hist, burst) ELSE hist) EXCEPT
                     !.settled = /\ quiet /\ s # "freq"
                                 /\ c = FreshAfter \/ (c > FreshAfter /\ hist.settled),
                     !.ann = IF src = "gps" /\ r0.leap.state = 1 /\ real.fc = 1
                             THEN Top(hist.ann, ForecastFor) ELSE 0,
                     !.behind = IF Issued(lp.old, real) = <<>> THEN @ ELSE n = 0]
       /\ used' = [used EXCEPT !.swaps = IF b = board THEN @ ELSE @ + 1,
                               !.commands = IF cleared THEN @ + 1 ELSE @,
                               !.losses = IF n < Len(Issued(lp.old, real)) THEN @ + 1 ELSE @]
  /\ board' = b
  /\ src' = s
  /\ UNCHANGED <<up, out, db, world>>

(* A board that is not there is not read.                                  *)
SomeSecond ==
  \E b, quiet, cleared \in BOOLEAN, s \in world.sources :
  \E burst \in (IF b THEN world.bursts ELSE {<<>>}), tod \in (IF s = "tod" THEN Tod ELSE {0}) :
    Second(b, burst, s, quiet, cleared, tod)

-----------------------------------------------------------------------------
(* The output daemon: sysLeapsecond keeps what it is told and stores it    *)
(* when it is not 0.                                                       *)

Stored(d, msgs) ==
  LET known == {i \in 1..Len(msgs) : msgs[i].sec # 0}
  IN  IF known = {} THEN d
      ELSE [sec |-> msgs[Max(known)].sec, mode |-> msgs[Max(known)].mode]

ReadMessageQueue ==
  /\ up["out"]
  /\ note["out"]
  /\ note' = Noted(note, "out")
  /\ queue' = <<>>
  /\ out' = IF queue = <<>> THEN out ELSE Last(queue)
  /\ db' = Stored(db, queue)
  /\ hist' = [hist EXCEPT !.spoilt = IF queue = <<>> THEN @ ELSE Last(queue).sec = 0]
  /\ UNCHANGED <<up, board, rcv, alarm, src, lp, count, reg, asked, used, world>>

(* The database refuses the n-th message: the daemon ends.                 *)
StoreFails(n) ==
  /\ up["out"]
  /\ note["out"]
  /\ used.starts < world.starts
  /\ n \in 1..Len(queue)
  /\ queue[n].sec # 0
  /\ db' = Stored(db, SubSeq(queue, 1, n - 1))
  /\ queue' = SubSeq(queue, n + 1, Len(queue))
  /\ up' = [up EXCEPT !["out"] = FALSE]
  /\ note' = Noted(note, "out")
  /\ hist' = [hist EXCEPT !.spoilt = TRUE]
  /\ used' = [used EXCEPT !.starts = @ + 1]
  /\ UNCHANGED <<board, rcv, alarm, src, lp, count, reg, asked, out, world>>

-----------------------------------------------------------------------------
(* leap_argv_parser: p350sys leap 0, p350sys leap 1 NN.                    *)
Leap(m) ==
  /\ used.commands < world.commands
  /\ used' = [used EXCEPT !.commands = @ + 1]
  /\ asked' = Append(asked, m)
  /\ note' = [note EXCEPT !["in"] = @ \/ up["in"]]
  /\ UNCHANGED <<up, board, rcv, alarm, src, lp, count, reg, queue, out, db,
                 hist, world>>

(* ProcInput up to its loop: the leap second comes from the database and   *)
(* goes to the FPGA (ReadLeapsecond, FreshLeapSecond); lp_new knows none.  *)
StartInput(b, s) ==
  /\ ~up["in"]
  /\ b # board => used.swaps < world.swaps
  /\ up' = [up EXCEPT !["in"] = TRUE]
  /\ board' = b
  /\ rcv' = NoReception
  /\ alarm' = {}
  /\ src' = s
  /\ lp' = [old |-> [sec |-> db.sec, mode |-> 0, fc |-> 0],
            new |-> [sec |-> 0, fc |-> 0], set |-> db]
  /\ count' = [alm |-> 0, pps |-> 0]
  /\ reg' = [reg EXCEPT !.leap = db.sec]
  /\ note' = [note EXCEPT !["in"] = FALSE]
  /\ hist' = [NoHistory EXCEPT !.behind = \/ queue # <<>>
                                          \/ up["out"] /\ out.fc = 1
                                          \/ db.mode = 1,
                               !.spoilt = hist.spoilt]
  /\ used' = [used EXCEPT !.swaps = IF b = board THEN @ ELSE @ + 1]
  /\ UNCHANGED <<asked, queue, out, db, world>>

(* ProcOutput up to its loop: ReadLeapsecond.                              *)
StartOutput ==
  /\ ~up["out"]
  /\ up' = [up EXCEPT !["out"] = TRUE]
  /\ out' = [sec |-> db.sec, mode |-> db.mode, fc |-> 0]
  /\ note' = [note EXCEPT !["out"] = FALSE]
  /\ UNCHANGED <<board, rcv, alarm, src, lp, count, reg, asked, queue, db, hist,
                 used, world>>

(* A daemon is killed or ends at an error.                                 *)
Stop(d) ==
  /\ up[d]
  /\ used.starts < world.starts
  /\ up' = [up EXCEPT ![d] = FALSE]
  /\ used' = [used EXCEPT !.starts = @ + 1]
  /\ UNCHANGED <<board, rcv, alarm, src, lp, count, reg, asked, queue, note, out,
                 db, hist, world>>

Next ==
  \/ SomeSecond
  \/ ReadMessageQueue
  \/ \E n \in 1..MaxQueue : StoreFails(n)
  \/ \E m \in LeapSet : Leap(m)
  \/ \E b \in BOOLEAN, s \in world.sources : StartInput(b, s)
  \/ StartOutput
  \/ \E d \in Daemons : Stop(d)

Spec == Init /\ [][Next]_vars

-----------------------------------------------------------------------------
LampStates == {"off", "on", "alt"}
TypeOK ==
  /\ up \in [Daemons -> BOOLEAN]
  /\ board \in BOOLEAN
  /\ rcv \in [valid : {"init", "get", "loss"}, enough : SUBSET Systems, mode : Modes,
              ant : {"none", "normal", "loop", "open"}, pps : 0..(GetAfter + 1),
              unused : 0..(LostAfter + 1),
              leap : [state : {0, 1}, sec : Seconds]]
  /\ alarm \subseteq {"dgd", "short", "open"}
  /\ src \in Sources
  /\ lp \in [old : Message, new : [sec : Seconds, fc : {0, 1}],
             set : [sec : Seconds, mode : {0, 1}]]
  /\ count \in [alm : 0..(FreshAfter + 1), pps : 0..ForecastFor]
  /\ reg \in [leap : Seconds, led : [bd : LampStates, gps : LampStates]]
  /\ asked \in Seq(LeapSet) /\ queue \in Seq(Message)
  /\ note \in [Daemons -> BOOLEAN]
  /\ out \in Message
  /\ db \in [sec : Seconds, mode : {0, 1}]

(* The reception is judged by what lasts, across boards that come and go:  *)
(* it counts when more than GetAfter sentences in a row called the pulse   *)
(* valid, unless the buffer had a gap since, it is over after more than    *)
(* LostAfter in a row that did not, and it never counts unless it has been *)
(* earned so since the start, the last gap and the last such loss.         *)
ReceptionIsJudged ==
  /\ hist.good > GetAfter /\ ~hist.gap => rcv.valid = "get"
  /\ hist.bad > LostAfter => rcv.valid # "get"
  /\ rcv.valid = "get" => hist.earned

(* The FPGA counts with the leap second the daemon believes in as long as  *)
(* a quiet time source stays one: whatever the source, the operator or a   *)
(* restart changes, no second is left behind.                              *)
RegisterHolds == up["in"] /\ hist.settled => reg.leap = lp.old.sec

(* d-input, d-output and the database agree on the leap second, on who     *)
(* sets it, and on no announcement that is over, whenever no message is on *)
(* its way, however the daemons were restarted, unless the last message    *)
(* said 0 or could not be stored (spoilt), or d-input is behind: it could  *)
(* send nothing of the last change, which it remembers as told all the     *)
(* same (din_ctrl.c:490, 514: what IssueLeapForecast returns is ignored),  *)
(* or has found nothing to say since it started with a wrong idea of what  *)
(* is known: when d-output was not through with what its predecessor had   *)
(* said, or when the leap second was forced, as d-input starts in the      *)
(* belief that it is not and says nothing when the operator leaves it to   *)
(* the source before its first second (din_alloc.c:86, 196: lp_old).       *)
OneLeapSecond ==
  up["in"] /\ queue = <<>> /\ ~hist.spoilt /\ ~hist.behind =>
    /\ db = [sec |-> lp.old.sec, mode |-> lp.old.mode]
    /\ up["out"] => out.sec = lp.old.sec /\ out.mode = lp.old.mode /\ out.fc <= lp.old.fc

(* A leap second that is announced is not announced for ever: though the   *)
(* receiver goes on to announce it, d-input takes the announcement back    *)
(* before ForecastFor seconds are over (din_ctrl.c: pps_count).  Of a      *)
(* receiver that stops earlier nothing is said: the code then leaves the   *)
(* announcement as it is.                                                  *)
ForecastEnds == hist.ann < ForecastFor

(* alloc.h of satellite_state: "1-bd/gps num>=5; 0-bd/gps num<5", and      *)
(* initializeContext: "gps and bd sate num >5".  The signal is degraded    *)
(* only when a count below five was read.                                  *)
DegradedMeansFew == up["in"] /\ "dgd" \in alarm => hist.few
=============================================================================
