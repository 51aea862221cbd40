---------------------------- MODULE OutputDaemon ----------------------------
(***************************************************************************)
(* d-output: what the output daemon does with its settings.  Every group   *)
(* of outputs has a time zone, a rate, an amplitude and a voltage, of      *)
(* which the FPGA now takes the first group's; every kind of signal has a  *)
(* delay; the board in a slot has common settings ("comm") and, a PTP      *)
(* board, its own ("ptp").                                                 *)
(***************************************************************************)
EXTENDS Programs

Groups == {"1", "2", "3", "4"}
Signals == {"tod", "irigb", "ppx", "ptp"}
PtpFields == {"ptyp", "pdt", "pmut", "plt", "pst", "psf", "paf", "ppdrf", "pssm", "pip",
              "pmac", "psip", "level", "priority", "preg", "pmask", "pgw"}
PtpfFields == {"pdt", "pmut", "plt", "pst", "psf", "paf", "ppdrf", "pip", "pmac", "pmask",
               "pgw", "psip"}
CommonFields == {"delay", "signal"}

\* The settings as delivered.  A zone is a letter from '@', an amplitude a number from 3.
Factory(board) ==
  [izone |-> [g \in Groups |-> 64], ozone |-> [g \in Groups |-> 64],
   leap |-> [f \in {"second", "mode"} |-> 0],
   delay |-> [s \in Signals |-> 0], obsa |-> [o \in {"all"} |-> 3],
   obr |-> [g \in Groups |-> 3], iar |-> [g \in Groups |-> 3], iv |-> [g \in Groups |-> 0],
   comm |-> [f \in CommonFields |-> IF f = "signal" /\ board = "PTP" THEN 2 ELSE 0],
   ptp |-> [f \in IF board = "PTPF" THEN PtpfFields ELSE PtpFields |-> 0]]

----------------------------------------------------------------------------
(* The table of the system.                                                *)

ReadOutTimezone == Load("ozone", Same)
\* Fault: stored like a rate.
WriteZoneAsDigit == Save("ozone", FromDigit)
WriteOutTimezone == Save("ozone", Same)
ReadInTimezone == Load("izone", Same)
WriteInTimezone == Save("izone", Same)
ReadLeapsecond == Load("leap", Same)
WriteLeapsecond == Save("leap", Same)
ReadDelay == Load("delay", Same)
WriteDelay == Save("delay", Same)
ReadOut2mbSA == Load("obsa", Same)
WriteOut2mbSA == Save("obsa", Same)
ReadOutBaudrate == Load("obr", FromDigit)
WriteOutRaudrate == Save("obr", ToDigit)
ReadIrigbAmplitude == Load("iar", FromDigit)
WriteIrigbAmplitude == Save("iar", ToDigit)
ReadIrigbVoltage == Load("iv", FromDigit)
\* Fault: stored as a number.
WriteVoltageAsIs == Save("iv", Same)
WriteIrigbVoltage == Save("iv", ToDigit)

(* The FPGA.                                                               *)

\* Hours west of Greenwich have the sign bit of five.
Offset == [z \in 64..87 |-> IF z <= 76 THEN z - 64 ELSE (88 - z) + 16]
IssueIrigbZone == Only({"1"}, Issue("ozone", Offset))
IssueDelay == Issue("delay", Same)
\* Anything that is not one of the five words counts as SA7.
IssueOut2mbSA == Issue("obsa", [n \in Codes |-> IF n \in 0..4 THEN n + 1 ELSE 4])
IssueOutBaudrate == Only({"1"}, Issue("obr", Same))
IssueIrigbAmplitude == Only({"1"}, Issue("iar", Same))
IssueIrigbVoltage == Only({"1"}, Issue("iv", Same))
IssueIrigbDST == Call("DST")

(* The shared memory.                                                      *)

WriteOutZoneToShareMemory == Show("ozone")
WriteInZoneToShareMemory == Show("izone")
WriteLeapToShareMemory == Show("leap")
WriteDelayToShareMemory == Show("delay")
WriteOut2mbSAToShareMemory == Show("obsa")
WriteOutBaudrateToShareMemory == Show("obr")
WriteIrigbAmplitudeToShareMemory == Show("iar")
WriteIrigbVoltageToShareMemory == Show("iv")

----------------------------------------------------------------------------
(* The board in the slot.                                                  *)

OUTCOMMReadConfig == Load("comm", Same)
OUTCOMMWriteConfig == Save("comm", Same)
CommonIssueConfig == Only({"signal"}, Issue("comm", Same))
PTPReadConfig == Load("ptp", Same)
PTPWriteConfig == Save("ptp", Same)
PTPIssueConfig == Issue("ptp", Same)
PTPFReadConfig == Load("ptp", Same)
PTPFWriteConfig == Save("ptp", Same)
\* The signal of the common settings goes to the board with its own.
PTPFIssueConfig == Issue("ptp", Same)

ReadConfigFromRunTimeTable(board) ==
  CASE board \in {"NTP", "61850"} -> <<>>
    [] board = "PTP" -> <<OUTCOMMReadConfig, PTPReadConfig>>
    [] board = "PTPF" -> <<OUTCOMMReadConfig, PTPFReadConfig>>
    [] OTHER -> <<OUTCOMMReadConfig>>
WriteConfigToShareMemory == <<Show("comm"), Show("ptp")>>
IssueConfig(board) ==
  CASE board \in {"NTP", "61850"} -> <<>>
    [] board = "PTP" -> <<CommonIssueConfig, PTPIssueConfig>>
    [] board = "PTPF" -> <<CommonIssueConfig, PTPFIssueConfig>>
    [] OTHER -> <<CommonIssueConfig>>
\* A message has either the common or the board's own settings.
WriteConfigToRunTimeTable(board, key) ==
  IF board \in {"NTP", "61850"} THEN <<>> ELSE <<Take(key), Save(key, Same)>>

BoardPushPull(board) ==
  ReadConfigFromRunTimeTable(board) \o WriteConfigToShareMemory \o IssueConfig(board)

----------------------------------------------------------------------------
(* The messages.                                                           *)

sysLevel == <<Call("level")>>
sysInZone == <<Take("izone"), WriteInTimezone, WriteInZoneToShareMemory>>
sysOutZone == <<Take("ozone"), IssueIrigbZone, WriteOutTimezone, WriteOutZoneToShareMemory>>
\* Without a leap second nothing is stored; the shared memory is left as it is.
sysLeapsecond == <<Take("leap"), Unless("second", {0}, WriteLeapsecond)>>
sysOutput(board, key) ==
  WriteConfigToRunTimeTable(board, key) \o WriteConfigToShareMemory
    \o IssueConfig(board) \o WriteConfigToShareMemory
sysDelay == <<Take("delay"), IssueDelay, WriteDelay, WriteDelayToShareMemory>>
sysOut2mbSA == <<Take("obsa"), IssueOut2mbSA, WriteOut2mbSA, WriteOut2mbSAToShareMemory>>
sysOutBaudrate ==
  <<Take("obr"), IssueOutBaudrate, WriteOutRaudrate, WriteOutBaudrateToShareMemory>>
sysIrigbAmplitude ==
  <<Take("iar"), IssueIrigbAmplitude, WriteIrigbAmplitude, WriteIrigbAmplitudeToShareMemory>>
sysIrigbVoltage ==
  <<Take("iv"), IssueIrigbVoltage, WriteIrigbVoltage, WriteIrigbVoltageToShareMemory>>

ReadMessageQueue(board) ==
  [MSG_CFG_DBG |-> sysLevel, MSG_CFG_IZONE |-> sysInZone, MSG_CFG_OZONE |-> sysOutZone,
   MSG_CFG_LPS |-> sysLeapsecond, MSG_CFG_OUT_DELAY |-> sysDelay, MSG_CFG_OBSA |-> sysOut2mbSA,
   MSG_CFG_OBR |-> sysOutBaudrate, MSG_CFG_AMP |-> sysIrigbAmplitude,
   MSG_CFG_VOL |-> sysIrigbVoltage,
   MSG_CFG_OUT |-> sysOutput(board, "ptp"), MSG_CFG_OUT_COMM |-> sysOutput(board, "comm")]

----------------------------------------------------------------------------
(* Start and end.                                                          *)

initializeDatabase == Open("database")
initializeShareMemory == Call("shared memory")
initializeSemaphoreSet == Call("semaphores")
initializeFpga == Open("fpga")
initializeInt == Open("interrupt")
CreateThread == Open("thread")
cleanDatabase == Close("database")
cleanFpga == Close("fpga")
cleanInt == Close("interrupt")
CloseThread == Close("thread")

\* The labels of the end, in the order in which they are passed.
Exits == <<[label |-> "exit4", steps |-> <<CloseThread>>],
           [label |-> "exit3", steps |-> <<cleanInt>>],
           [label |-> "exit2", steps |-> <<cleanFpga>>],
           [label |-> "exit1", steps |-> <<Close("events")>>],
           [label |-> "exit0", steps |-> <<cleanDatabase>>],
           [label |-> "exit_0", steps |-> <<>>]>>

\* Fault: the interrupt's failure leaves too late.
OpeningEarly ==
  Under("exit_0", <<initializeDatabase>>) \o Under("exit0", <<Open("events")>>)
    \o Under("exit1", <<initializeFpga, initializeInt>>)
Opening ==
  Under("exit_0", <<initializeDatabase>>) \o Under("exit0", <<Open("events")>>)
    \o Under("exit1", <<Call("signals"), initializeShareMemory, initializeSemaphoreSet>>)
    \o Under("exit2", <<initializeFpga>>) \o Under("exit3", <<initializeInt>>)

Loading ==
  <<ReadOutTimezone, IssueIrigbZone, WriteOutZoneToShareMemory,
    ReadInTimezone, WriteInZoneToShareMemory,
    ReadLeapsecond, WriteLeapToShareMemory,
    ReadDelay, IssueDelay, WriteDelayToShareMemory,
    ReadOut2mbSA, IssueOut2mbSA, WriteOut2mbSAToShareMemory,
    ReadOutBaudrate, IssueOutBaudrate, WriteOutBaudrateToShareMemory,
    ReadIrigbAmplitude, IssueIrigbAmplitude, WriteIrigbAmplitudeToShareMemory,
    ReadIrigbVoltage, IssueIrigbVoltage, WriteIrigbVoltageToShareMemory, IssueIrigbDST>>

ProcOutput(board) ==
  Opening \o Under("exit3", Loading \o BoardPushPull(board)) \o Under("exit4", <<CreateThread>>)
LoopExit == "exit4"

=============================================================================
