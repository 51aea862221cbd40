----------------------------- MODULE AlarmDaemon -----------------------------
(***************************************************************************)
(* d-alarm: what the alarm daemon does with its settings: the alarms that  *)
(* are masked, the alarm each port of the alarm board puts out ("select"), *)
(* the limit of the phases and the interfaces whose links are watched      *)
(* ("monitor").  Its alarms are in AlarmTables.                            *)
(***************************************************************************)
EXTENDS Programs

Indices == {"0", "5", "300"}
AlarmPorts == {"1", "8"}

Factory ==
  [mask |-> [i \in Indices |-> 0], select |-> [p \in AlarmPorts |-> 0],
   threshold |-> [e \in {"value"} |-> 200], monitor |-> [p \in {"1"} |-> 0]]

(* The tables.                                                             *)

ReadAlarmSelectFromTable == Load("select", Same)
ReadAlarmMaskFromTable == Load("mask", Same)
ReadSignalThresholdFromTable == Load("threshold", Same)
\* Only what the message has.
WriteAlarmSelectToTable == Move("msg", "db", "select", Same)
WriteAlarmMaskToTable == Move("msg", "db", "mask", Same)
WriteSignalThresholdToTable == Move("msg", "db", "threshold", Same)
\* A table of another length, of an older version, is filled anew.
FlushAlarmMaskTable == Call("table of masks")

(* The shared memory.                                                      *)

WriteSelectToShareMemory == Show("select")
WriteMaskToShareMemory == Show("mask")
WriteSignalThresholdToShareMemory == Show("threshold")
WriteEnableToShareMemory == Show("monitor")

(* The messages.                                                           *)

sysLevel == <<Call("level")>>
sysMask == <<Take("mask"), WriteMaskToShareMemory, WriteAlarmMaskToTable>>
sysSelect == <<Take("select"), WriteSelectToShareMemory, WriteAlarmSelectToTable>>
sys_inph_thresold ==
  <<Take("threshold"), WriteSignalThresholdToShareMemory, WriteSignalThresholdToTable>>
\* Nothing keeps it over a restart.
sys_port_status == <<Take("monitor")>>
ReadMessageQueue ==
  [MSG_CFG_DBG |-> sysLevel, MSG_CFG_SELECT |-> sysSelect, MSG_CFG_MASK |-> sysMask,
   MSG_CFG_PORT_STATUS |-> sys_port_status, MSG_CFG_INPH_THRESHOLD |-> sys_inph_thresold]
\* Of these settings the users see the new value before it is in the table.
Hasty == {"mask", "select", "threshold"}

(* Start and end.                                                          *)

initializeEventIndexTable == Open("events")
initializeAlarmIndexTable == Open("alarms")
initializeDatabase == Open("database")
initializePriority == Call("priority")
initializeExitSignal == Call("exit signal")
initializeNotifySignal == Call("notify signal")
initializeShareMemory == Call("shared memory")
initializeMessageQueue == Call("queue")
initializeSemaphoreSet == Call("semaphores")
writePid == Call("writePid")
initializeFpga == Open("fpga")
cleanFpga == Close("fpga")
cleanDatabase == Close("database")

Opening ==
  Under("exit_1", <<initializeEventIndexTable>>) \o Under("exit0", <<initializeAlarmIndexTable>>)
    \o Under("exit1", <<initializeDatabase>>)
    \o Under("exit2", <<initializePriority, initializeExitSignal, initializeNotifySignal,
                        initializeShareMemory, initializeMessageQueue, initializeSemaphoreSet,
                        writePid, initializeFpga>>)
ProcAlarm ==
  Opening
    \o Under("exit",
         <<Call("FPGA runs"), FlushAlarmMaskTable,
           ReadAlarmSelectFromTable, WriteSelectToShareMemory,
           ReadAlarmMaskFromTable, WriteMaskToShareMemory,
           ReadSignalThresholdFromTable, WriteSignalThresholdToShareMemory>>)
Exits == <<[label |-> "exit", steps |-> <<cleanFpga>>],
           [label |-> "exit2", steps |-> <<cleanDatabase>>],
           [label |-> "exit1", steps |-> <<Close("alarms")>>],
           [label |-> "exit0", steps |-> <<Close("events")>>],
           [label |-> "exit_1", steps |-> <<>>]>>
LoopExit == "exit"
Turn == <<WriteEnableToShareMemory>>

=============================================================================
