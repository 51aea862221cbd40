----------------------------- MODULE InputDaemon -----------------------------
(***************************************************************************)
(* d-input: what the input daemon does with its settings.  Every port of   *)
(* an input board has a priority, a delay and, where the source is a       *)
(* frequency, an SSM; a satellite board has its receiver's settings        *)
(* ("sat"), a PTP board its own ("ptpin").  What the receiver reports of   *)
(* itself is not here, the choice of the source is in SourceSelect and the *)
(* boards that come and go in IoBoards.                                    *)
(***************************************************************************)
EXTENDS Programs

Ports == {"1", "2", "3", "4", "5"}
SatFields == {"mode", "elev", "lon", "lat", "sa"}
PtpFields == {"pdt", "pmut", "plt", "pst", "psf", "paf", "pdrf", "ppdrf", "pip", "pmask", "pgw",
              "pmip", "pmmac", "level", "priority", "preg"}

\* The settings as delivered.  A satellite board has one port whose SSM can be set.
Factory ==
  [prio |-> [p \in Ports |-> 0], ssm |-> [p \in {"2"} |-> 0], delay |-> [p \in Ports |-> 0],
   sat |-> [f \in SatFields |-> IF f = "mode" THEN 1 ELSE 0],
   ptpin |-> [f \in PtpFields |-> 0],
   ph_upload |-> [e \in {"en"} |-> 0], leapmode |-> [e \in {"state"} |-> 0]]
Incomm == {"prio", "ssm", "delay"}

(* The table of the system.                                                *)

\* An SSM is kept as the text of its byte.
SsmTable == <<2, 4, 8, 11, 15, 0, 255>>
SsmText == [v \in {SsmTable[i] : i \in DOMAIN SsmTable} |->
              (CHOOSE i \in DOMAIN SsmTable : SsmTable[i] = v)]
TextSsm == [i \in DOMAIN SsmTable |-> SsmTable[i]]
INCOMMReadConfig == <<Load("prio", Same), Load("ssm", TextSsm), Load("delay", Same)>>
INCOMMWriteConfig(key) == <<Take(key), Save(key, IF key = "ssm" THEN SsmText ELSE Same)>>
SATCOMMReadConfig == Load("sat", Same)
SATCOMMWriteConfig == <<Take("sat"), Save("sat", Same)>>
PTPINReadConfig == Load("ptpin", Same)
PTPINWriteConfig == <<Take("ptpin"), Save("ptpin", Same)>>
ReadPhaseUploadSwitchFromTable == Load("ph_upload", Same)
WritePhaseUploadSwitchToTable == Save("ph_upload", Same)
WritePhaseUploadSwitchToShareMemory == Show("ph_upload")

ReadConfigFromRunTimeTable(board) ==
  INCOMMReadConfig \o CASE board = "SAT" -> <<SATCOMMReadConfig>>
                        [] board = "PTP_IN" -> <<PTPINReadConfig>>
                        [] OTHER -> <<>>
\* A message has the common settings of the board or its own.
WriteConfigToRunTimeTable(key) ==
  CASE key \in Incomm -> INCOMMWriteConfig(key)
    [] key = "sat" -> SATCOMMWriteConfig
    [] key = "ptpin" -> PTPINWriteConfig

(* The boards.                                                             *)

\* Each port's delay goes to the register of its source.
INCOMMIssueConfig == <<Issue("delay", Same)>>
\* The receiver does not keep a position; only these have a register or a command.
SATCOMMIssueConfig ==
  <<Only({"mode"}, Issue("sat", [n \in 1..4 |-> n])),
    Only({"sa"}, Issue("sat", [n \in 0..4 |-> n + 1]))>>
PTPINIssueConfig == <<Issue("ptpin", Same)>>
IssuePrivate(board) ==
  CASE board = "SAT" -> SATCOMMIssueConfig [] board = "PTP_IN" -> PTPINIssueConfig [] OTHER -> <<>>
IssueConfig(board, key) ==
  CASE key \in Incomm -> INCOMMIssueConfig
    [] key \in {"sat", "ptpin"} -> IssuePrivate(board)
    [] OTHER -> INCOMMIssueConfig \o IssuePrivate(board)
BoardPushPull(board) == ReadConfigFromRunTimeTable(board) \o IssueConfig(board, "all")

(* The shared memory, written once in every turn of the loop.              *)

WriteConfigToShareMemory ==
  <<Show("prio"), Show("ssm"), Show("delay"), Show("sat"), Show("ptpin")>>

(* The messages.                                                           *)

sysLevel == <<Call("level")>>
sysInput(board, key) == WriteConfigToRunTimeTable(key) \o IssueConfig(board, key)
leapModeSet == <<Take("leapmode")>>
SysConfSet ==
  <<Take("ph_upload"), WritePhaseUploadSwitchToTable, WritePhaseUploadSwitchToShareMemory>>
\* One type of message for all settings of a board: here one for each.
ReadMessageQueue(board) ==
  [MSG_CFG_DBG |-> sysLevel, MSG_CFG_LPS_MODE_SET |-> leapModeSet,
   MSG_CFG_SYS_CONF_SWI |-> SysConfSet,
   MSG_CFG_IN_prio |-> sysInput(board, "prio"), MSG_CFG_IN_ssm |-> sysInput(board, "ssm"),
   MSG_CFG_IN_delay |-> sysInput(board, "delay"), MSG_CFG_IN_sat |-> sysInput(board, "sat"),
   MSG_CFG_IN_ptpin |-> sysInput(board, "ptpin")]

(* Start and end.                                                          *)

initializeFpga == Open("fpga")
initializeInt == Open("interrupt")
initializeStavalid == Call("phase registers")
initializeShareMemory == Call("shared memory")
initializeMessageQueue == Call("queue")
initializeSemaphoreSet == Call("semaphores")
initializeDatabase == Open("database")
ReadLeapsecond == Call("leap second")
CreateThread == Open("thread")
CloseThread == Close("thread")
initializeAlarmIndexTable == Open("alarms")
cleanAlarmIndexTable == Close("alarms")
cleanDatabase == Close("database")
cleanInt == Close("interrupt")
cleanFpga == Close("fpga")

\* The label exit1 is behind the step that gives back the index of the alarms.
Opening ==
  Under("exit0", <<Open("events")>>) \o Under("exit1", <<initializeAlarmIndexTable, initializeFpga>>)
    \o Under("exit2", <<Call("FPGA runs"), initializeInt>>)
    \o Under("exit3", <<Call("priority"), Call("exit signal"), Call("notify signal"),
                        initializeStavalid, initializeShareMemory, initializeMessageQueue,
                        initializeSemaphoreSet, initializeDatabase>>)
ProcInput(board) ==
  Opening
    \o Under("exit4",
         <<ReadLeapsecond, ReadPhaseUploadSwitchFromTable, WritePhaseUploadSwitchToShareMemory,
           Call("writePid"), Call("ReadBidFromTable"), Call("ReadBidFromFpga"),
           Call("SysReadClockType")>>
         \o Ignored(<<Call("SetSatellite")>>) \o BoardPushPull(board)
         \o <<Call("ReadSchema"), CreateThread>>)
    \o Under("exit5", <<Call("FreshLeapSecond")>>)
Exits == <<[label |-> "exit5", steps |-> <<CloseThread>>],
           [label |-> "exit4", steps |-> <<cleanDatabase>>],
           [label |-> "exit3", steps |-> <<cleanInt>>],
           [label |-> "exit2", steps |-> <<cleanFpga, cleanAlarmIndexTable>>],
           [label |-> "exit1", steps |-> <<Close("events")>>],
           [label |-> "exit0", steps |-> <<>>]>>
LoopExit == "exit5"
\* A failure only leaves the loop over the slots.
Turn == Ignored(WriteConfigToShareMemory)

=============================================================================
