------------------------------ MODULE Settings ------------------------------
(***************************************************************************)
(* A daemon and the command program that sets it up, as every pair of them *)
(* in the device is built: the command parses its line, copies what it     *)
(* does not change from the shared memory, puts a message in the daemon's  *)
(* queue and raises its signal; the daemon, at its start, brings every     *)
(* setting from the database to the FPGA and the shared memory, and for a  *)
(* message goes through the steps of its handler.  Any step of the daemon  *)
(* may fail and the daemon may be killed or told to stop at any time; the  *)
(* supervisor starts it again.  The database, the shared memory, the FPGA  *)
(* and the queue outlive it.                                               *)
(*                                                                         *)
(* What a particular daemon's steps and a particular program's lines are   *)
(* is data, a record of Units: see Pairs and the modules it names.         *)
(***************************************************************************)
EXTENDS Pairs, FiniteSets
LOCAL INSTANCE SequencesExt
LOCAL INSTANCE FiniteSetsExt
LOCAL INSTANCE Functions
LOCAL INSTANCE TLC

CONSTANTS
  Shells,   \* the users' sessions
  MaxLines, \* lines typed or letters sent in a behaviour
  MaxFaults \* failing steps, kills and stops in a behaviour

ASSUME SettingsAssumption ==
  /\ MaxLines \in Nat /\ MaxFaults \in Nat
  /\ IsFiniteSet(Shells)

\* The settings that a line of the help text or another daemon sets.
SettingsOf(u) == {use.key : use \in u.usage} \cup {m.key : m \in u.mail}

\* The programs are well formed: a step that fails leads to a label there is,
\* and the way to the end from there only closes things, or makes a call.
ASSUME ProgramsAssumption ==
  \A name \in DOMAIN Units : \A u \in {Units[name]} :
    /\ u.loopExit \in DOMAIN u.exits /\ "nowhere" \notin DOMAIN u.exits
    /\ \A key \in SettingsOf(u) : \A i \in DOMAIN u.boot[key] :
         u.boot[key][i].fail \in DOMAIN u.exits \cup {"none"}
    /\ \A label \in DOMAIN u.exits :
         /\ DOMAIN u.exits[label] = 1..Len(u.exits[label]) /\ Len(u.exits[label]) \in Nat
         /\ \A i \in DOMAIN u.exits[label] : u.exits[label][i].do \in {"close", "call"}

VARIABLES
  unit,     \* the daemon this is about
  setting,  \* and the key of the setting; the others do not meet it
  daemon,   \* "at" what it is, on the way to the end from which label, at which step
  held,     \* what it has open
  store,    \* the places the setting is in: mem, db, shm, reg (the FPGA)
  hand,     \* the message it works on, or Nobody
  queue,
  notified, \* the flag its signal handler sets
  shells,   \* the message each session is about to send, with what was asked, or Nobody
  left,     \* lines that may still be typed
  faults,   \* faults that may still happen
  said,     \* what the users asked for, in the order of the messages
  spoilt    \* a fault or an outdated copy has undone something

settingsVars == <<unit, setting, daemon, held, store, hand, queue, notified, shells, left, faults, said, spoilt>>
world == <<unit, setting, queue, shells, left, said>>

\* No message.
Nobody == [type |-> "none"]
\* The daemon and its command program.
U == Units[unit]

\* The steps it is going through.
TodoOf(u) ==
  CASE daemon.at = "boot" -> u.boot[setting]
    [] daemon.at = "handle" -> u.handlers[hand.type]
    [] daemon.at = "turn" -> u.turn
    [] daemon.at = "exit" -> u.exits[daemon.from]
    [] OTHER -> <<>>
\* The next of them, if there is one.
Now == StepAt(TodoOf(U), daemon.pc)

Looping == IF U.turn = <<>> THEN "loop" ELSE "turn"
At(what) == [at |-> what, from |-> "nowhere", pc |-> 1]
Leaving(label) == [at |-> "exit", from |-> label, pc |-> 1]

----------------------------------------------------------------------------
(* One step.                                                               *)

\* The places as a step sees them, with the message as one more.
Places == [place \in {"msg"} |-> IF hand = Nobody THEN <<>> ELSE hand.value] @@ store

LeftOut(s, p) ==
  \/ s.do # "move" \/ s.key # setting
  \/ s.unless # <<>> /\ p.mem[s.unless[1]] \in s.unless[2]

\* How many of these entries are in use.
InUse(place, entries) == Cardinality({e \in entries \cap DOMAIN place : place[e] # 0})
\* The row finds room beside those there are, behind those before it.
FindsRoom(s, p, e) ==
  \/ s.rows = <<>>
  \/ LET before == Range(SubSeq(s.rows, 1, SelectInSeq(s.rows, LAMBDA row : row = e) - 1))
     IN InUse(p[s.to], Range(s.rows) \ {e}) + InUse(p[s.from], before) < s.room

Moving(s, p) ==
  LET there == DOMAIN p[s.from] \cap DOMAIN p[s.to]
  IN {e \in IF s.entries = {} THEN there ELSE there \cap s.entries : FindsRoom(s, p, e)}

\* A value with no counterpart in the other encoding is refused.
CanMove(s, p) ==
  LeftOut(s, p) \/ \A e \in Moving(s, p) : p[s.from][e] \in DOMAIN s.conv

Moved(s, p) ==
  IF LeftOut(s, p) THEN p
  ELSE [p EXCEPT ![s.to] =
          [e \in Moving(s, p) |-> IF s.counts = {} THEN s.conv[p[s.from][e]]
                                  ELSE InUse(p[s.from], s.counts)] @@ p[s.to]]

Works(s) ==
  CASE s.do = "move" -> CanMove(s, Places)
    [] s.do = "check" -> \A e \in DOMAIN hand.value : hand.value[e] \in s.values
    [] s.do = "require" -> \A e \in IF s.entries = {} THEN DOMAIN hand.value ELSE s.entries :
                             store[s.at][e] \in s.values
    [] OTHER -> TRUE

StepWorks(s) ==
  /\ Works(s)
  /\ daemon' = [daemon EXCEPT !.pc = @ + 1]
  /\ store' = LET p == Moved(s, Places) IN [place \in DOMAIN store |-> p[place]]
  /\ held' = CASE s.do = "open" -> held \cup {s.key}
               [] s.do = "close" -> held \ {s.key}
               [] OTHER -> held
  /\ UNCHANGED <<world, hand, notified, faults, spoilt>>

\* Where the caller goes when a step fails.
Fails(s) ==
  /\ daemon' = IF s.fail = "none" THEN [daemon EXCEPT !.pc = @ + 1]
               ELSE Leaving(IF daemon.at = "boot" THEN s.fail ELSE U.loopExit)
  /\ hand' = IF s.fail = "none" THEN hand ELSE Nobody
  /\ spoilt' = (spoilt \/ daemon.at = "handle")
  /\ UNCHANGED <<world, held, store, notified>>

StepRefuses(s) ==
  /\ ~Works(s)
  /\ Fails(s)
  /\ UNCHANGED faults

\* What fails in a turn of the loop is done again in the next.
StepFails(s) ==
  /\ faults > 0 /\ daemon.at \in {"boot", "handle"}
  /\ Fails(s)
  /\ faults' = faults - 1

\* The last step is done.  The loop has steps of its own in every turn, of
\* which the first and the one after the messages change something.  Of an end
\* is kept the label it was reached by.
Arrive ==
  /\ daemon.at \in {"boot", "handle", "turn", "exit"}
  /\ Now = {}
  /\ daemon' = CASE daemon.at = "boot" -> At(Looping)
                 [] daemon.at = "handle" -> At("drain")
                 [] daemon.at = "turn" -> At("loop")
                 [] daemon.at = "exit" -> [At("down") EXCEPT !.from = daemon.from]
  /\ hand' = Nobody
  /\ UNCHANGED <<world, held, store, notified, faults, spoilt>>

----------------------------------------------------------------------------
(* The daemon.                                                             *)

\* The setting is kept longer than the daemon lives.
Lasting == setting \notin U.transient
\* The memory of a daemon before it reads anything; a table of it is empty.
Fresh == IF setting \in DOMAIN U.rows THEN [e \in DOMAIN U.factory[setting] |-> 0]
         ELSE U.factory[setting]

\* What was handled is shown only in the turn to come.
Unshown == daemon.at \in {"drain", "turn"} /\ U.turn # <<>>
\* A message is on its way, or handled and not yet shown.
Pending == Unshown \/ hand # Nobody \/ queue # <<>> \/ \E s \in Shells : shells[s] # Nobody
\* The command that sent it has seen another number of rows than the start counts.
Recounts ==
  /\ setting \in DOMAIN U.rows /\ Pending
  /\ InUse(store.db, U.rows[setting]) # store.shm["total"]

Start ==
  /\ daemon.at = "down"
  /\ daemon' = At("boot")
  /\ held' = {} /\ notified' = FALSE
  /\ store' = [store EXCEPT !.mem = Fresh]
  /\ spoilt' = (spoilt \/ (~Lasting /\ said # <<>>) \/ Recounts)
  /\ UNCHANGED <<world, hand, faults>>

Notice ==
  /\ daemon.at = "loop" /\ notified
  /\ notified' = FALSE
  /\ daemon' = At("drain")
  /\ UNCHANGED <<world, held, store, hand, faults, spoilt>>

\* A message of a type it does not know ends the loop.
Drain ==
  /\ daemon.at = "drain"
  /\ IF queue = <<>> THEN /\ daemon' = At(Looping)
                          /\ UNCHANGED <<queue, hand>>
     ELSE /\ queue' = Tail(queue)
          /\ IF Head(queue).type \in DOMAIN U.handlers
             THEN hand' = Head(queue) /\ daemon' = At("handle")
             ELSE hand' = Nobody /\ daemon' = Leaving(U.loopExit)
  /\ UNCHANGED <<unit, setting, held, store, notified, shells, left, faults, said, spoilt>>

\* It is killed, or told to stop, which it looks at in its loop.
Kill ==
  /\ faults > 0 /\ daemon.at # "down"
  /\ faults' = faults - 1
  /\ daemon' = At("down")
  /\ held' = {} /\ hand' = Nobody
  /\ spoilt' = (spoilt \/ hand # Nobody \/ Unshown)
  /\ UNCHANGED <<world, store, notified>>

ToldToStop ==
  /\ faults > 0 /\ daemon.at = "loop"
  /\ faults' = faults - 1
  /\ daemon' = Leaving(U.loopExit)
  /\ UNCHANGED <<world, held, store, hand, notified, spoilt>>

----------------------------------------------------------------------------
(* The sessions.                                                           *)

\* The entry of a group is the word typed for it.
EntryOf(command, line) == IF command.from = 0 THEN command.entry ELSE line[command.from][1]
\* The parts of the word, by entry: one, or one for every group, which are
\* in these places.
Parts(command, line, places) ==
  LET parts == line[command.word]
  IN IF Len(parts) = 1 THEN [e \in {EntryOf(command, line)} |-> parts[1]]
     ELSE LET place == places[command.key]
          IN [e \in {place[i] : i \in DOMAIN parts} \cap DOMAIN store.shm |->
                parts[CHOOSE i \in DOMAIN parts : place[i] = e]]

Takes(command, line, board) ==
  /\ command.kind = "set"
  /\ \A w \in Range(line[command.word]) \ {Skip} : w \in DOMAIN command.code
  /\ command.accepted # <<>> =>
       /\ board \in DOMAIN command.accepted
       /\ \A w \in Range(line[command.word]) \ {Skip} : w \in command.accepted[board]

\* It is for what the shared memory has.
Apt(command, line) ==
  command.kind = "set" =>
    /\ command.needs # Codes => store.shm[EntryOf(command, line)] \in command.needs
    /\ command.unless # <<>> => store.shm[command.unless[1]] \notin command.unless[2]

Message(command, parts) ==
  LET coded == [e \in {e \in DOMAIN parts : parts[e] # Skip} |-> command.code[parts[e]]]
  IN [type |-> command.type, key |-> command.key,
      value |-> IF command.copies THEN coded @@ store.shm ELSE coded]

\* The lines of a behaviour; one more where a table may outgrow the memory.
Lines == IF setting \in DOMAIN U.rows THEN MaxLines + 1 ELSE MaxLines

\* The line is parsed and what it leaves alone is copied.
Type(s, use) ==
  /\ left > 0 /\ shells[s] = Nobody /\ daemon.at \notin {"boot", "exit"}
  /\ use.key = setting
  /\ left < Lines => use \in U.together
  /\ left' = IF use \in U.together THEN left - 1 ELSE 0
  /\ \E command \in {U.parser[use.line]} :
       /\ Apt(command, use.line)
       /\ IF Takes(command, use.line, U.board)
          THEN LET msg == Message(command, Parts(command, use.line, U.place))
               IN /\ shells' = [shells EXCEPT ![s] = [use |-> use, msg |-> msg]]
                  /\ spoilt' = (spoilt \/ (Pending /\ (command.copies \/ command.needs # Codes)))
          ELSE UNCHANGED <<shells, spoilt>>
  /\ UNCHANGED <<unit, setting, daemon, held, store, hand, queue, notified, faults, said>>

Send(s) ==
  /\ shells[s] # Nobody
  /\ queue' = Append(queue, shells[s].msg)
  /\ notified' = (notified \/ daemon.at # "down")
  /\ said' = Append(said, shells[s].use)
  /\ shells' = [shells EXCEPT ![s] = Nobody]
  /\ UNCHANGED <<unit, setting, daemon, held, store, hand, left, faults, spoilt>>

\* A message from another daemon.
Post(m) ==
  /\ left > 0 /\ daemon.at \notin {"down", "boot"}
  /\ m.key = setting
  /\ left' = left - 1
  /\ queue' = Append(queue, m)
  /\ notified' = TRUE
  /\ UNCHANGED <<unit, setting, daemon, held, store, hand, shells, faults, said, spoilt>>

----------------------------------------------------------------------------

\* Only what these steps move, one after the other.
Through(steps, p) ==
  LET after[i \in 0..Len(steps)] == IF i = 0 THEN p ELSE Moved(steps[i], after[i - 1])
  IN after[Len(steps)]

\* The factory settings in the encodings of the places: as if they had come
\* in a message.
Delivered ==
  LET f == U.factory[setting]
      saving(t, p) == Through(SelectSeq(U.handlers[t], LAMBDA s : s.do = "move" /\ s.to = "db"), p)
      p == FoldSet(saving, [place \in {"mem", "db", "shm", "reg", "msg"} |-> f], DOMAIN U.handlers)
  IN [place \in {"mem", "db", "shm", "reg"} |-> p[place]]

SettingsInit ==
  /\ unit \in DOMAIN Units /\ setting \in SettingsOf(U)
  /\ daemon = At("down")
  /\ held = {} /\ hand = Nobody
  /\ store = Delivered
  /\ queue = <<>> /\ notified = FALSE
  /\ shells = [s \in Shells |-> Nobody]
  /\ left = Lines /\ faults = MaxFaults
  /\ said = <<>> /\ spoilt = FALSE

SettingsNext ==
  \/ Start \/ Arrive \/ Notice \/ Drain \/ Kill \/ ToldToStop
  \/ \E s \in Now : StepWorks(s) \/ StepRefuses(s) \/ StepFails(s)
  \/ \E s \in Shells : Send(s) \/ \E use \in U.usage : Type(s, use)
  \/ \E m \in U.mail : Post(m)

\* The supervisor starts a daemon that is gone, and a daemon goes on.
SettingsFairness ==
  /\ WF_settingsVars(Start) /\ WF_settingsVars(\E s \in Now : StepWorks(s) \/ StepRefuses(s)) /\ WF_settingsVars(Arrive)
  /\ WF_settingsVars(Notice) /\ WF_settingsVars(Drain)

SettingsSpec == SettingsInit /\ [][SettingsNext]_settingsVars /\ SettingsFairness

----------------------------------------------------------------------------
(* Properties.                                                             *)

\* The variables stay what they are declared to be.
SettingsTypeOK ==
  /\ unit \in DOMAIN Units
  /\ daemon.at \in {"down", "boot", "loop", "drain", "handle", "turn", "exit"}
  /\ (hand # Nobody) = (daemon.at = "handle")
  /\ left \in 0..Lines /\ faults \in 0..MaxFaults
  /\ setting \in DOMAIN U.factory
  /\ \A place \in DOMAIN store : DOMAIN store[place] = DOMAIN U.factory[setting]

\* The rows of the table that are not in the daemon's memory.
Placeless ==
  IF setting \in DOMAIN U.rows THEN {e \in U.rows[setting] : store.db[e] # 0 /\ store.mem[e] = 0}
  ELSE {}
\* The table has outgrown the memory: a key was added when all the places were
\* taken, which the daemon's count of them, made at its start, did not tell it
\* (add_md5_key, dntp_parser.c:355 and 376).
Outgrown == Placeless # {}

Restarted == Through(U.boot[setting], [Places EXCEPT !.mem = Fresh])
\* All entries, or of a table its rows, without what is counted at the start.
Compared(place) ==
  IF setting \in DOMAIN U.rows THEN Restrict(place, U.rows[setting]) ELSE place
\* Between two messages a restart would change nothing: what the start of the
\* daemon reads, translates and puts into the FPGA and the shared memory is
\* what its handlers left there, for every setting.
StartsAgain ==
  daemon.at = "loop" /\ Lasting /\ ~Outgrown =>
    \A place \in {"mem", "shm", "reg"} : Compared(Restarted[place]) = Compared(store[place])

\* What a handler shows to the users is in the database by then: no kill can
\* take back what a query has printed.  The alarm daemon shows first.
ShownIsSaved ==
  store'.shm # store.shm /\ Lasting /\ ~Outgrown' /\ setting \notin U.hasty =>
    Compared(Restarted'.shm) = Compared(store'.shm)

\* No start takes anything back: not the one after the daemon's end in its
\* loop, and of what the users were shown not the one after a kill in a handler.
\* The exceptions: the number of md5 keys is counted anew at every start, and
\* while their table has outgrown the memory a start may bring another of them.
RestartChangesNothing == []StartsAgain /\ [][ShownIsSaved]_settingsVars

AtRest ==
  daemon.at = "loop" /\ queue = <<>> /\ ~notified /\ \A s \in Shells : shells[s] = Nobody

\* The word that a query prints.
Shown(asks, entry, code) ==
  LET word == asks.shown[setting][entry]
  IN IF code \in DOMAIN word THEN word[code] ELSE "Failure."

\* When all is done, the query the help text names prints, entry by entry,
\* the word last asked for; after a fault or a copy that had become outdated,
\* one that was asked for or the one before.  The exception: an md5 key that
\* found no place in the memory is printed by no query, though the command
\* that added it printed "Success.".
ReadsBack ==
  AtRest =>
    \A i \in DOMAIN said : \A asks \in {U.parser[said[i].query]} :
    \A e \in DOMAIN said[i].words \ Placeless :
      LET shown == Shown(asks, e, store[asks.at][e])
          asked == {j \in DOMAIN said : e \in DOMAIN said[j].words}
      IN IF spoilt
         THEN \/ shown = Shown(asks, e, U.factory[setting][e])
              \/ \E j \in asked : shown = said[j].words[e]
         ELSE (\A j \in asked : j <= i) => shown = said[i].words[e]

\* Two sessions asked for what only one of them can have, or a start has
\* counted the keys anew since the command looked.
Overtaken == spoilt /\ daemon.at = "handle" /\ \E s \in Now : s.do = "require"

\* The table has the row already, as the daemon did not know.
RowIsThere == daemon.at = "handle" /\ \E s \in Now : s.do = "require" /\ s.at = "db"

\* A line of the help text is understood, and the message made of it does not
\* end the daemon's loop: without a fault every handler goes through, but for
\* one that another session or a start has overtaken and a key for a table
\* that has outgrown the memory: it is refused, or in the table already.
HelpIsHandled ==
  [][/\ faults' = faults /\ daemon.at \in {"handle", "drain", "turn"} =>
          daemon'.at # "exit" \/ Overtaken \/ Outgrown \/ RowIsThere
     /\ left' < left => shells' # shells \/ queue' # queue]_settingsVars

\* The number that ntp m -q prints first, the total of the keys ("MD5key总数",
\* alloc.h:423), is that of the keys it prints after it.
TotalIsCounted ==
  AtRest /\ setting \in DOMAIN U.rows => store.shm["total"] = InUse(store.shm, U.rows[setting])

\* What the steps at these places open, or close.
Keys(verb, steps, places) ==
  {steps[i].key : i \in {j \in DOMAIN steps \cap places : steps[j].do = verb}}
AllKeys(verb, steps) == Keys(verb, steps, DOMAIN steps)

\* What the program may have open when it goes to a label: what the steps of
\* the start before one that fails to it have opened, and at the label of the
\* loop all that the start, a handler or a turn opens.
OpenAt(u, boot, label) ==
  (UNION {Keys("open", boot, 1..(i - 1)) : i \in {i \in DOMAIN boot : boot[i].fail = label}})
  \cup IF label # u.loopExit THEN {}
       ELSE AllKeys("open", boot) \cup AllKeys("open", u.turn)
            \cup UNION {AllKeys("open", u.handlers[type]) : type \in DOMAIN u.handlers}
\* And what of that the end from the label does not close.
Forgotten(u, boot, label) == OpenAt(u, boot, label) \ AllKeys("close", u.exits[label])

\* When a daemon is gone, whichever step failed and however it ended, nothing
\* is open but what its program forgets at the label it left by.
NothingElseIsOpen ==
  daemon.at = "down" =>
    held \subseteq IF daemon.from = "nowhere" THEN {}
                   ELSE Forgotten(U, U.boot[setting], daemon.from)
\* The labels of each program (exit_0, exit0, ... of the C functions) undo what
\* was done before the step that leaves to them, and what stays open after a
\* failure, a stop or a kill in a run is only what U.leaks names: in d-input
\* the index of the alarms when the FPGA cannot be opened (din_ctrl.c:705), in
\* d-ntp the thread of the time, and everything when the alarm it is to switch
\* off is not in the index (dntp_server.c:1070).
ClosesWhatItOpened ==
  /\ \A label \in DOMAIN U.exits :
       Forgotten(U, U.boot[setting], label) = IF label \in DOMAIN U.leaks THEN U.leaks[label] ELSE {}
  /\ NothingElseIsOpen

\* No setting that was accepted keeps the daemon from coming back.
ComesBack == []<>(daemon.at = "loop")

=============================================================================
