----------------------------- MODULE PtpModules -----------------------------
(***************************************************************************)
(* The boards with a computer of their own: PTP boards and satellite       *)
(* receivers.  A daemon configures such a module by a dialogue: commands   *)
(* it writes one after another, some of them tens of milliseconds apart,   *)
(* to which there is no answer (src/d-input/din_issue.c, din_satellite.c;  *)
(* src/d-output/dout_issue.c).  What the module knows is what it heard     *)
(* since it has power; what the daemon believes it knows is in the         *)
(* daemon's memory: the peers it told (oldptpMasterIp, oldptpSlaveIp), the *)
(* address it told last (the static old_ptpIp).                            *)
(*                                                                         *)
(* There is one slot and the daemon of its board.  How two daemons and the *)
(* rows of the table get on with each other is what IoBoards is about:     *)
(* here a board that is pushed gets its default settings in one step.      *)
(* d-output also tells the PTP boards the class of the clock, in its loop  *)
(* (OutputQuality).                                                        *)
(*                                                                         *)
(* The IP address, its mask and its gateway are told together: "net" (a    *)
(* module from here, and that of a PTPF board, is told the address only).  *)
(* What has no part in the dialogue but its value is in "rest", and each   *)
(* register of a module that takes it is told of its own.                  *)
(***************************************************************************)
EXTENDS OutputQuality, Sequences, SequencesExt, FiniteSets

CONSTANTS
  Lists,        (* the lists of peers a board may have                        *)
  Default,      (* the settings of a board that is pushed                     *)
  Worlds        (* bound: the surroundings a behaviour keeps to, see below    *)

Kinds == {"ptpIn", "foreign", "cn", "ptpf", "sat"}
Peers == UNION {ToSet(l) : l \in Lists}
Macs == {"mac0", "mac1"}
Values == [layer |-> {2, 3}, cast |-> {"uni", "multi"}, net |-> {0, 1}, peers |-> Lists,
           mac |-> Macs, rest |-> {0, 1}, signal |-> {"ptp", "ntp", "none"}]
Settings == [layer : Values.layer, cast : Values.cast, net : Values.net, peers : Values.peers,
             mac : Values.mac, rest : Values.rest, signal : Values.signal]

(* A world: the kinds of board, the settings there may be in the database  *)
(* at first, how many commands, swaps, ends of the daemon and changes of   *)
(* the clock there are at most, and how the clock is found.                *)
ASSUME PtpModulesAssumption ==
  /\ Default \in Settings
  /\ Lists \subseteq Seq(Peers) /\ Peers \cap (Macs \cup {"none"}) = {}
  /\ \A w \in Worlds : /\ w.kinds \subseteq Kinds
                       /\ w.saved \subseteq Settings \cup {[nothing |-> TRUE]}
                       /\ w.found \in [clock : ClockStates, source : Sources, grade : Grades]
                       /\ {w.commands, w.swaps, w.kills, w.ticks} \subseteq Nat

VARIABLES
  kind,     \* what board the slot takes; never changes
  board,    \* it is in its slot
  module,   \* what its module heard
  saved,    \* the rows of the slot: settings, or Nothing without the board
  at,       \* where the daemon is
  power,    \* power_flag
  old, bid, \* oldBid, boardId: the board was, is there
  mem,      \* the settings in inSta, outSta, and the peers told before
  sent,     \* old_ptpIp and its like
  todo,     \* the rest of the dialogue
  message,  \* the dialogue is for a message
  shown,    \* the settings in the shared memory
  queue,    \* the messages of the daemon
  notified, \* notify_flag
  hist,     \* history, see below
  used,     \* how many commands, swaps, kills and ticks there were
  world     \* never changes

slotVars == <<kind, board, module>>
daemonVars == <<at, power, old, bid, mem, sent, todo, message, notified>>
givenVars == <<saved, shown, queue>>
vars == <<slotVars, daemonVars, givenVars, hist, used, world, qualityVars>>

Points == {"off", "look", "greet", "msgs", "drain", "push", "issue", "class", "share"}
IsInput == kind \in {"ptpIn", "sat"}
Nothing == [nothing |-> TRUE]
Read(s) ==
  [layer |-> s.layer, cast |-> s.cast, net |-> s.net, peers |-> s.peers, mac |-> s.mac,
   rest |-> s.rest, signal |-> s.signal, ips |-> <<>>, oldMac |-> "none"]

RestRegisters == {"delayType", "step", "sync", "announce", "delayReq", "pdelayReq",
                  "region", "priority1", "priority2", "ssm", "mac", "mode"}
Factory == 9
NewModule == [login |-> FALSE, engine |-> "on", ntp |-> "off", fixed |-> FALSE, net |-> Factory,
              layer |-> Factory, cast |-> "none", peers |-> {}, slave |-> "none",
              rest |-> [r \in RestRegisters |-> Factory], class |-> Factory]
(* unseen: the module was swapped and the daemon cannot have seen it;      *)
(* later: it was pushed while the daemon ran; left: the peers it knows and *)
(* the daemon forgot; heard: it was told the class of the clock; halted:   *)
(* the daemon ended while its engine was off, and its board had no row.    *)
NoHistory == [unseen |-> FALSE, later |-> FALSE, left |-> {}, heard |-> FALSE, halted |-> FALSE]

Init ==
  /\ world \in Worlds /\ kind \in world.kinds
  /\ board \in BOOLEAN /\ module = NewModule
  /\ saved \in world.saved
  /\ at = "off" /\ power = FALSE /\ old = FALSE /\ bid = FALSE
  /\ mem = Read(Default) /\ sent = Factory /\ todo = <<>> /\ message = FALSE
  /\ shown = [bid |-> FALSE, set |-> Read(Default)]
  /\ queue = <<>> /\ notified = FALSE
  /\ hist = NoHistory
  /\ used = [commands |-> 0, swaps |-> 0, kills |-> 0, ticks |-> 0]
  /\ QualityInit(world.found)

-----------------------------------------------------------------------------
(* The dialogues: sequences of commands.                                   *)

Set(r, v) == <<<<"set", r, v>>>>
Rest(registers, m) == [i \in DOMAIN registers |-> <<"rest", registers[i], m.rest>>]
Each(verb, list) == [i \in DOMAIN list |-> <<verb, list[i]>>]
Login == <<<<"login">>>>
Net(m) == Set("net", m.net)
Layer(m) == Set("layer", m.layer)
Cast(m) == Set("cast", m.cast)
Routed(m) == m.layer = 3 /\ m.cast = "uni"

\* Fault: those told before are taken back last.
AddressesFirst(m) ==
  Each("add", m.peers) \o Each("delete", m.ips) \o <<<<"remember", "ips", m.peers>>>>
\* The peers: those told before are taken back first.
Addresses(m) ==
  Each("delete", m.ips) \o Each("add", m.peers) \o <<<<"remember", "ips", m.peers>>>>
Masters(m) ==
  IF m.layer = 3 THEN Addresses(m)
  ELSE <<<<"delete", m.oldMac>>, <<"remember", "oldMac", m.mac>>, <<"add", m.mac>>>>

\* Fault: the engine is not switched on again.
EngineStops(m) == IF Routed(m) THEN Set("engine", "off") \o Net(m) ELSE Net(m)
\* PtpSendConfig of d-input.  The engine stops while the net changes.
Engine(m) == IF Routed(m) THEN Set("engine", "off") \o Net(m) \o Set("engine", "on") ELSE Net(m)
Beginning(m) ==
  Login \o Engine(m) \o (IF Routed(m) THEN Set("fixed", TRUE) ELSE <<>>)
Timing(m) == Rest(<<"delayType">>, m) \o Layer(m) \o Rest(<<"step">>, m)
Casting(m) == Cast(m) \o IF m.cast = "uni" THEN Masters(m) ELSE <<>>
Ending(m) == Rest(<<"sync", "announce", "delayReq", "pdelayReq", "region">>, m)
Priorities(m) == Rest(<<"priority1", "priority2">>, m)
PtpIn(m) == Beginning(m) \o Timing(m) \o Casting(m) \o Ending(m) \o Priorities(m)

\* Ptp2SendConfig: modules from abroad.  The net is told when it is not what
\* was told last, or to a module with unicast over IP.
SentNet(m) == Net(m) \o <<<<"sent", m.net>>>>
ForeignBeginning(m) ==
  Login \o (IF Routed(m)
            THEN Set("engine", "off") \o SentNet(m) \o Set("engine", "on") \o Set("fixed", TRUE)
            ELSE IF m.net # sent THEN SentNet(m) ELSE <<>>)
ForeignCasting(m) == Cast(m) \o IF Routed(m) THEN Addresses(m) ELSE <<>>
ForeignEnding(m) ==
  Rest(<<"sync", "announce", "pdelayReq", "region", "priority1", "priority2">>, m)
Foreign(m) == ForeignBeginning(m) \o Timing(m) \o ForeignCasting(m) \o ForeignEnding(m)

\* PtpSendConfig of d-output: modules from here, which take one slave.
CnCasting(m) ==
  Rest(<<"ssm">>, m) \o Cast(m)
  \o IF m.cast = "uni" /\ m.peers # <<>> THEN Set("slave", Head(m.peers)) ELSE <<>>
CnEnding(m) ==
  Rest(<<"sync", "announce", "pdelayReq", "region">>, m) \o Net(m)
  \o Rest(<<"mac", "priority1", "priority2">>, m)
Cn(m) == Timing(m) \o CnCasting(m) \o CnEnding(m)

\* PtpfSendConfig.  Nothing turns a module on that served NTP, or nothing,
\* when it is to serve PTP again.
Signal(m) == CASE m.signal = "none" -> Set("ntp", "off") \o Set("engine", "off")
               [] m.signal = "ntp" -> Set("ntp", "on") \o Set("engine", "off")
               [] OTHER -> <<>>
Ptpf(m) == Login \o Signal(m) \o Timing(m) \o Rest(<<"sync", "announce", "pdelayReq">>, m) \o Net(m)

\* SetSatMode, and mode_set, of a receiver.
SetSatMode == Set("fixed", TRUE) \o <<<<"rest", "mode", 3>>>>
mode_set(m) == Rest(<<"mode">>, m)

IssueConfig(m) ==
  CASE kind = "ptpIn" -> PtpIn(m) [] kind = "foreign" -> Foreign(m) [] kind = "cn" -> Cn(m)
    [] kind = "ptpf" -> Ptpf(m) [] OTHER -> mode_set(m)

\* What a module does with a command: one with a shell asks for a login.
NeedsLogin == kind \in {"ptpIn", "foreign", "ptpf"}
Hears(m, c) ==
  IF NeedsLogin /\ ~m.login /\ c[1] # "login" THEN m
  ELSE CASE c[1] = "login" -> [m EXCEPT !.login = TRUE]
         [] c[1] = "set" -> [m EXCEPT ![c[2]] = c[3]]
         [] c[1] = "rest" -> [m EXCEPT !.rest[c[2]] = c[3]]
         [] c[1] = "add" -> [m EXCEPT !.peers = @ \cup {c[2]}]
         [] c[1] = "delete" -> [m EXCEPT !.peers = @ \ {c[2]}]
         [] OTHER -> m

-----------------------------------------------------------------------------
(* The loop.  d-input reads the boards, takes its messages, looks for      *)
(* boards that came or went and shows what it has; d-output takes its      *)
(* messages first, and tells the class last.                               *)

\* ReadBidFromTable: the board there was before.
Start ==
  /\ at = "off"
  /\ at' = "look" /\ power' = TRUE /\ old' = (saved # Nothing) /\ bid' = FALSE
  /\ hist' = [hist EXCEPT !.later = FALSE]
  /\ UNCHANGED <<slotVars, mem, sent, todo, message, notified, givenVars, used, world, qualityVars>>

\* A receiver that is there at the start is set up.
ReadBidFromFpga ==
  /\ at = "look"
  /\ bid' = board
  /\ at' = CASE kind = "sat" /\ power /\ board -> "greet"
             [] IsInput /\ ~power -> "msgs"
             [] OTHER -> "push"
  /\ todo' = IF kind = "sat" /\ power /\ board THEN SetSatMode ELSE <<>>
  /\ UNCHANGED <<slotVars, power, old, mem, sent, message, notified, givenVars, hist, used, world, qualityVars>>

AfterMessages == IF IsInput THEN "push" ELSE "look"
\* isNotify
Notify ==
  /\ at = "msgs"
  /\ at' = IF notified THEN "drain" ELSE AfterMessages
  /\ notified' = FALSE
  /\ UNCHANGED <<slotVars, power, old, bid, mem, sent, todo, message, givenVars, hist, used, world, qualityVars>>

Drained ==
  /\ at = "drain" /\ queue = <<>>
  /\ at' = AfterMessages
  /\ UNCHANGED <<slotVars, power, old, bid, mem, sent, todo, message, notified, givenVars, hist, used, world, qualityVars>>

Issue(m) == todo' = IssueConfig(m) /\ at' = "issue"
Show(m) == shown' = IF IsInput THEN shown ELSE [bid |-> bid, set |-> m]
Fields == DOMAIN Values
Kept(m) == [f \in Fields |-> m[f]]
\* The peers of m that n does not remember.
Lost(m, n) == (ToSet(m.ips) \cup {m.oldMac}) \ (ToSet(n.ips) \cup {n.oldMac, "none"})

\* A message of the queue: the settings become what the command copied, with
\* the peers told before it was given.
Store ==
  /\ at = "drain" /\ queue # <<>>
  /\ LET m == Head(queue) IN
     /\ saved' = IF saved = Nothing THEN Nothing ELSE Kept(m)
     /\ mem' = m /\ Issue(m) /\ Show(m)
     /\ hist' = [hist EXCEPT !.unseen = FALSE, !.left = @ \cup Lost(mem, m)]
  /\ queue' = Tail(queue) /\ message' = TRUE
  /\ UNCHANGED <<slotVars, power, old, bid, sent, notified, used, world, qualityVars>>

\* Settings that are read: the peers told before are forgotten.
Configures(m) ==
  /\ mem' = m /\ Issue(m) /\ Show(m)
  /\ hist' = [hist EXCEPT !.unseen = FALSE, !.left = @ \cup module.peers]
  /\ UNCHANGED <<power, old>>

\* BoardPushPull ends with the copy of what is there.
EndPush ==
  /\ old' = bid /\ power' = FALSE
  /\ at' = IF IsInput THEN (IF power THEN "look" ELSE "share")
                      ELSE (IF power THEN "msgs" ELSE "class")

Pulled ==
  /\ old /\ ~bid
  /\ saved' = Nothing /\ Show(mem)
  /\ EndPush
  /\ UNCHANGED <<mem, todo, hist>>
\* The default settings become those of the board.
Pushed ==
  /\ ~old /\ bid
  /\ saved' = Default
  /\ Configures(Read(Default))
\* Fault: the module still has its settings from before.
ShownAtPowerUp ==
  /\ old /\ bid /\ power
  /\ mem' = Read(saved) /\ Show(Read(saved)) /\ EndPush
  /\ UNCHANGED <<saved, todo, hist>>
PoweredUp ==
  /\ old /\ bid /\ power
  /\ Configures(Read(saved))
  /\ UNCHANGED saved
Same ==
  /\ old = bid /\ ~(bid /\ power)
  /\ EndPush
  /\ UNCHANGED <<saved, shown, mem, todo, hist>>
PushPull ==
  /\ at = "push"
  /\ Pulled \/ Pushed \/ PoweredUp \/ Same
  /\ UNCHANGED <<slotVars, bid, sent, message, notified, queue, used, world, qualityVars>>

\* Nothing tells whether there is a module.
Written(c) == IF board THEN Hears(module, c) ELSE module
\* p50_write, and the write to a receiver.
Send ==
  /\ at \in {"greet", "issue"} /\ todo # <<>>
  /\ LET c == Head(todo) IN
     /\ module' = Written(c)
     /\ mem' = IF c[1] = "remember" THEN [mem EXCEPT ![c[2]] = c[3]] ELSE mem
     /\ sent' = IF c[1] = "sent" THEN c[2] ELSE sent
  /\ todo' = Tail(todo)
  /\ UNCHANGED <<kind, board, at, power, old, bid, message, notified, givenVars, hist, used, world, qualityVars>>

\* d-output shows the peers it has told.
Issued ==
  /\ at \in {"greet", "issue"} /\ todo = <<>>
  /\ CASE at = "greet" -> at' = "push" /\ UNCHANGED <<old, power, shown>>
       [] at = "issue" /\ message -> at' = "drain" /\ Show(mem) /\ UNCHANGED <<old, power>>
       [] OTHER -> EndPush /\ Show(mem)
  /\ message' = FALSE
  /\ UNCHANGED <<slotVars, bid, mem, sent, todo, notified, saved, queue, hist, used, world, qualityVars>>

\* WriteBidToShareMemory of d-input, once in a turn.
Share ==
  /\ at = "share"
  /\ shown' = [bid |-> bid, set |-> mem]
  /\ at' = "look"
  /\ UNCHANGED <<slotVars, power, old, bid, mem, sent, todo, message, notified, saved, queue, hist, used, world, qualityVars>>

\* A PTP board is told the class when something changed, and only then.
HearsClass == Changed /\ bid /\ kind \in {"cn", "foreign"}
TellClass ==
  /\ at = "class"
  /\ SetOutBoardClockClass
  /\ IF HearsClass /\ board
     THEN /\ module' = [module EXCEPT !.class = Class(known)]
          /\ hist' = [hist EXCEPT !.heard = TRUE]
     ELSE UNCHANGED <<module, hist>>
  /\ at' = "msgs"
  /\ UNCHANGED <<kind, board, power, old, bid, mem, sent, todo, message, notified, givenVars, used, world>>

Daemon ==
  \/ Start \/ ReadBidFromFpga \/ Notify \/ Drained \/ Store \/ PushPull
  \/ Send \/ Issued \/ Share \/ TellClass

-----------------------------------------------------------------------------
(* Around the daemon.                                                      *)

\* The daemon is ended, or fails: a write the FPGA does not take ends it too.
Dies ==
  /\ at # "off" /\ used.kills < world.kills
  /\ used' = [used EXCEPT !.kills = @ + 1]
  /\ at' = "off" /\ power' = FALSE /\ old' = FALSE /\ bid' = FALSE
  /\ mem' = Read(Default) /\ sent' = Factory /\ todo' = <<>>
  /\ message' = FALSE /\ notified' = FALSE
  /\ Fresh /\ NoThread /\ freeSets' = 0 /\ Disturbed
  /\ hist' = [hist EXCEPT !.halted = @ \/ (module.engine = "off" /\ saved = Nothing)]
  /\ UNCHANGED <<slotVars, givenVars, world, clockVars, ssm, tod>>

\* The board is pulled, or pushed: its module starts and knows nothing.
Swap ==
  /\ used.swaps < world.swaps
  /\ used' = [used EXCEPT !.swaps = @ + 1]
  /\ board' = ~board /\ module' = NewModule
  /\ hist' = [NoHistory EXCEPT !.unseen = at # "off" /\ bid /\ board', !.later = at # "off"]
  /\ UNCHANGED <<kind, daemonVars, givenVars, world, qualityVars>>

\* A command copies the settings, changes one and sends them.
FieldsOf == CASE kind = "ptpIn" -> Fields \ {"signal"}
              [] kind \in {"foreign", "cn"} -> Fields \ {"signal", "mac"}
              [] kind = "ptpf" -> {"layer", "net", "rest", "signal"}
              [] OTHER -> {"rest"}
Command ==
  /\ used.commands < world.commands /\ shown.bid
  /\ used' = [used EXCEPT !.commands = @ + 1]
  /\ \E f \in FieldsOf : \E v \in Values[f] \ {shown.set[f]} :
       queue' = Append(queue, [shown.set EXCEPT ![f] = v])
  /\ notified' = (at # "off")
  /\ UNCHANGED <<slotVars, at, power, old, bid, mem, sent, todo, message, saved, shown, hist, world, qualityVars>>

Unconcerned == UNCHANGED <<slotVars, daemonVars, givenVars, hist, world>>
Clock ==
  /\ ~IsInput /\ used.ticks < world.ticks
  /\ ClockChanges
  /\ used' = [used EXCEPT !.ticks = @ + 1]
  /\ Unconcerned
Alarm == write_clock_state /\ UNCHANGED used /\ Unconcerned
Source == stratum_input_source /\ ~IsInput /\ UNCHANGED used /\ Unconcerned
\* The thread is there when BoardPushPull has been done once.
Thread ==
  /\ ~IsInput /\ world.ticks > 0 /\ at # "off" /\ ~power
  /\ Second
  /\ UNCHANGED used /\ Unconcerned

Next == Daemon \/ Dies \/ Swap \/ Command \/ Clock \/ Alarm \/ Source \/ Thread

\* d-manager starts a daemon that ended anew, and the loop does not wait.
Fairness == WF_vars(Daemon)
Spec == Init /\ [][Next]_vars /\ Fairness

-----------------------------------------------------------------------------
(* What holds.                                                             *)

Peerage == Peers \cup Macs
Memory == [layer : Values.layer, cast : Values.cast, net : Values.net, peers : Values.peers,
           mac : Values.mac, rest : Values.rest, signal : Values.signal,
           ips : Lists \cup {<<>>}, oldMac : Macs \cup {"none"}]
History == [unseen : BOOLEAN, later : BOOLEAN, left : SUBSET Peerage, heard : BOOLEAN,
            halted : BOOLEAN]
TypeOK ==
  /\ kind \in Kinds /\ board \in BOOLEAN
  /\ DOMAIN module = DOMAIN NewModule /\ DOMAIN module.rest = RestRegisters
  /\ module.engine \in {"on", "off"} /\ module.peers \subseteq Peerage
  /\ saved \in Settings \cup {Nothing} /\ mem \in Memory
  /\ at \in Points /\ power \in BOOLEAN /\ old \in BOOLEAN /\ bid \in BOOLEAN
  /\ message \in BOOLEAN /\ notified \in BOOLEAN
  /\ sent \in Values.net \cup {Factory}
  /\ shown \in [bid : BOOLEAN, set : Memory] /\ queue \in Seq(Memory)
  /\ hist \in History
  /\ used \in [commands : Nat, swaps : Nat, kills : Nat, ticks : Nat]
  /\ world \in Worlds /\ kind \in world.kinds
  /\ QualityTypeOK

AtRest == at \in {"msgs", "look", "class", "share"} /\ ~power
\* The module of the board is in the hands of the daemon, between two dialogues.
InHand == AtRest /\ board /\ bid /\ old /\ ~hist.unseen

TakenAs(registers) == \A r \in registers : module.rest[r] = mem.rest
LineAgrees == module.layer = mem.layer /\ module.net = mem.net
RestOfForeign == {"delayType", "step", "sync", "announce", "pdelayReq", "region", "priority1", "priority2"}
Runs == module.engine = "on" \/ hist.halted
Agrees ==
  CASE kind = "ptpIn" ->
         /\ LineAgrees /\ module.cast = mem.cast /\ Runs
         /\ Routed(mem) => module.fixed
         /\ TakenAs(RestOfForeign \cup {"delayReq"})
    [] kind = "foreign" ->
         /\ module.layer = mem.layer /\ module.cast = mem.cast /\ Runs
         /\ module.net = mem.net \/ (hist.later /\ ~Routed(mem))
         /\ Routed(mem) => module.fixed
         /\ TakenAs(RestOfForeign)
    [] kind = "cn" ->
         /\ LineAgrees /\ module.cast = mem.cast
         /\ mem.cast = "uni" /\ mem.peers # <<>> => module.slave = Head(mem.peers)
         /\ TakenAs(RestOfForeign \cup {"ssm", "mac"})
    [] kind = "ptpf" ->
         /\ LineAgrees
         /\ mem.signal # "ptp" => module.engine = "off"
         /\ mem.signal # "ptp" => module.ntp = IF mem.signal = "ntp" THEN "on" ELSE "off"
         /\ TakenAs({"delayType", "step", "sync", "announce", "pdelayReq"})
    [] OTHER -> TakenAs({"mode"}) /\ (module.fixed \/ hist.later)

\* Between two dialogues a module has what its daemon believes it has: every
\* register, with the engine running again, in whatever order commands,
\* restarts of the daemon and exchanges of the board came.  A module from
\* abroad that was exchanged may lack its address: the daemon told the same
\* one last, to the module before (dout_issue.c: the static old_ptpIp).  An
\* engine stays off when the daemon ended in the middle of a dialogue for a
\* command that came when the board was not yet in the table: the default
\* settings do not switch it on again.
RegistersAreSet == InHand => Agrees

\* A module with unicast has all the peers it was given, and none it was
\* given before: only those the daemon forgot, in a restart or by a command
\* that copied the settings before the last one was shown, are left over
\* (din_issue.c, dout_issue.c: oldptpMasterIp, oldptpSlaveIp).
Given == IF mem.layer = 3 THEN ToSet(mem.peers) ELSE {mem.mac}
Known == IF mem.layer = 3 THEN module.peers \cap Peers ELSE module.peers \cap Macs
OnlyItsPeers ==
  InHand /\ mem.cast = "uni" /\ (kind = "ptpIn" \/ (kind = "foreign" /\ mem.layer = 3)) =>
    Given \subseteq Known /\ Known \subseteq Given \cup hist.left

\* What the two outputs of d-output say of the clock agrees once both had
\* their turn: the class the PTP boards were told when something changed, and
\* the state in the message of each second.  The table over the stratum
\* (dout_issue.c:1379-1384) is read at other times by the two, so nothing is
\* said of a crystal that holds a frequency.
OutputsAgree ==
  hist.heard /\ board /\ rounds > 0 /\ seconds /\ state = clock =>
    CASE clock = "lock" ->
           \/ source = "none" \/ Flag[source] = "time"
           \/ tod.pps = IF module.class = 7 THEN "frequency" ELSE "locked"
      [] clock = "hold" ->
           \/ ~Rubidium /\ "freq" \in {Flag[source], Flag[known.traced]}
           \/ tod.pps = IF module.class = 8 THEN "rubidium" ELSE "crystal"
      [] OTHER -> module.class = 255 /\ tod.pps = "unusable"

\* In the end the module of a board has the settings in the database, though
\* the daemon was ended in the middle of a dialogue and the board exchanged
\* (unless between two looks).
Recovers == <>[](board /\ ~hist.unseen => bid /\ Agrees /\ Kept(mem) = saved)
=============================================================================
