-------------------------------- MODULE Pairs --------------------------------
(***************************************************************************)
(* The pairs of a daemon and its command program, each as a record of what *)
(* Settings asks of it: the steps of its start, of its handlers and of its *)
(* end, the rows of the parser and the lines of the help text.             *)
(***************************************************************************)
EXTENDS Programs
LOCAL INSTANCE Functions
LOCAL INSTANCE TLC

Out == INSTANCE OutputCommands
In == INSTANCE InputCommands
Sys == INSTANCE SysCommands
Alarm == INSTANCE AlarmCommands
Wg == INSTANCE WgDaemon
Iec == INSTANCE Iec61850Daemon

\* The output daemon with a kind of board in the slot.
OutputWith(board, usage) ==
  [board |-> board, factory |-> Out!Factory(board), boot |-> Out!ProcOutput(board),
   exits |-> Out!Exits, loopExit |-> Out!LoopExit, handlers |-> Out!ReadMessageQueue(board),
   parser |-> Out!argv_parser, usage |-> usage, together |-> Out!Together(usage),
   place |-> [key \in {"izone", "ozone", "obr", "iar", "iv"} |-> <<"1", "2", "3", "4">>],
   turn |-> <<>>,
   mail |-> {[type |-> "MSG_CFG_LPS", key |-> "leap", value |-> [second |-> n, mode |-> 1]]
               : n \in {0, 1}},
   transient |-> {"leap"}, hasty |-> {}, rows |-> <<>>, leaks |-> <<>>]

InputWith(board, usage) ==
  [board |-> board, factory |-> In!Factory, boot |-> In!ProcInput(board), exits |-> In!Exits,
   loopExit |-> In!LoopExit, handlers |-> In!ReadMessageQueue(board),
   parser |-> In!argv_parser \o Sys!RowsOfLeap, usage |-> usage \cup Sys!HelpOfLeap,
   together |-> In!Together(usage),
   place |-> [key \in {"prio", "ssm", "sat"} |->
                IF key = "sat" THEN <<"lon", "lat">> ELSE <<"1", "2", "3", "4", "5">>],
   turn |-> In!Turn, mail |-> {}, transient |-> {"leapmode"}, hasty |-> {},
   rows |-> <<>>, leaks |-> [label \in {"exit1"} |-> {"alarms"}]]

NtpUnit ==
  [board |-> "none", factory |-> Sys!Factory, boot |-> Sys!ProcNtp, exits |-> Sys!Exits,
   loopExit |-> Sys!LoopExit, handlers |-> Sys!ReadMessageQueue, parser |-> Sys!argv_parser,
   usage |-> Sys!HelpOfNtp, together |-> Sys!Together(Sys!HelpOfNtp),
   place |-> [key \in {"ve", "bc"} |-> IF key = "ve" THEN <<"2", "3", "4">> ELSE <<"en", "interval">>],
   turn |-> <<>>, mail |-> {}, transient |-> {}, hasty |-> {},
   rows |-> [key \in {"mk"} |-> Range(Sys!KeyIds)],
   leaks |-> [label \in {"exit", "return"} |->
                IF label = "exit" THEN {"thread"}
                ELSE {"alarms", "database", "interfaces", "fpga", "socket", "pool", "thread", "timer"}]]

AlarmUnit ==
  [board |-> "none", factory |-> Alarm!Factory, boot |-> Alarm!ProcAlarm, exits |-> Alarm!Exits,
   loopExit |-> Alarm!LoopExit, handlers |-> Alarm!ReadMessageQueue,
   parser |-> Alarm!argv_parser \o Sys!RowsOfPorts, usage |-> Alarm!HelpOfAlarm \cup Sys!HelpOfMonitor,
   together |-> Alarm!Together(Alarm!HelpOfAlarm) \cup Sys!HelpOfMonitor,
   place |-> <<>>, turn |-> Alarm!Turn, mail |-> {}, transient |-> {"monitor"}, hasty |-> Alarm!Hasty,
   rows |-> <<>>, leaks |-> <<>>]

\* Two daemons whose command lines are rows of p350sys.
WgUnit ==
  [board |-> "none", factory |-> Wg!Factory, boot |-> Wg!ProcWg, exits |-> Wg!Exits,
   loopExit |-> Wg!LoopExit, handlers |-> Wg!ReadMessageQueue, parser |-> Sys!argv_parser,
   usage |-> Sys!HelpOfNet, together |-> Sys!Together(Sys!HelpOfNet), place |-> <<>>,
   turn |-> <<>>, mail |-> {}, transient |-> {}, hasty |-> {}, rows |-> <<>>, leaks |-> <<>>]
Iec61850Unit ==
  [board |-> "none", factory |-> Iec!Factory, boot |-> Iec!ProcIec61850, exits |-> Iec!Exits,
   loopExit |-> Iec!LoopExit, handlers |-> Iec!ReadMessageQueue, parser |-> Sys!argv_parser,
   usage |-> Sys!UseOf61850, together |-> Sys!Together(Sys!UseOf61850), place |-> <<>>,
   turn |-> <<>>, mail |-> {}, transient |-> {}, hasty |-> {}, rows |-> <<>>, leaks |-> <<>>]

AllPairs ==
  [output_ptp |-> OutputWith("PTP", Out!HelpOfDevice \cup Out!HelpOfBoard("PTP")),
   output_ptpf |-> OutputWith("PTPF", Out!HelpOfBoard("PTPF")),
   output_rs485 |-> OutputWith("RS485", Out!HelpOfBoard("RS485")),
   input_sat |-> InputWith("SAT", In!HelpOfSatellite),
   input_ptp |-> InputWith("PTP_IN", In!HelpOfPtp),
   ntp |-> NtpUnit, alarm |-> AlarmUnit, wg |-> WgUnit, iec61850 |-> Iec61850Unit]

\* As Settings uses them: what the start is for each setting, what the end is
\* from each label, and what the lines of the help text are understood as.
Prepared(pairs) ==
  [name \in DOMAIN pairs |->
     [pairs[name] EXCEPT !.boot = Boot(@, DOMAIN pairs[name].factory),
                         !.exits = Falling(@),
                         !.parser = Understood(@, pairs[name].usage)]]
Units == Prepared(AllPairs)

=============================================================================
