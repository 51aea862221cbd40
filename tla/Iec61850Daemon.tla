---------------------------- MODULE Iec61850Daemon ----------------------------
(***************************************************************************)
(* d-61850: its start, its end and its one setting, the address of the     *)
(* board, which is kept in its table and, so far, given to nobody.  Its    *)
(* serial line to the board is in SerialLink.                              *)
(***************************************************************************)
EXTENDS Programs

Factory == [ip61850 |-> [e \in {"ip"} |-> 0]]

Write61850Ip == Move("msg", "db", "ip61850", Same)
\* The table is read at the start and nothing is done with it.
set61850_network == Call("table")

SysSetIp == <<Write61850Ip>>
ReadMessageQueue == [MSG_CFG_61850_IP |-> SysSetIp]

initializeDatabase == Open("database")
initializeFpga == Open("fpga")
initializeExitSignal == Call("exit signal")
initializeSerial == Open("serial")
initializeNotifySignal == Call("notify signal")
initializeShareMemory == Call("shared memory")
initializeMessageQueue == Call("queue")
initializeSemaphoreSet == Call("semaphores")
writePid == Call("writePid")
cleanSerial == Close("serial")
cleanFpga == Close("fpga")
cleanDatabase == Close("database")

ProcIec61850 ==
  Under("exit1", <<initializeDatabase>>) \o Under("exit2", <<initializeFpga>>)
    \o Under("exit3", <<Call("FPGA runs"), initializeExitSignal, initializeSerial>>)
    \o Under("exit4", <<initializeNotifySignal, initializeShareMemory, initializeMessageQueue,
                        initializeSemaphoreSet, writePid, set61850_network>>)
Exits == <<[label |-> "exit4", steps |-> <<cleanSerial>>],
           [label |-> "exit3", steps |-> <<cleanFpga>>],
           [label |-> "exit2", steps |-> <<cleanDatabase>>],
           [label |-> "exit1", steps |-> <<>>]>>
\* So does a board that is no longer there.
LoopExit == "exit4"

=============================================================================
