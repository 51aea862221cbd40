------------------------------- MODULE WgDaemon -------------------------------
(***************************************************************************)
(* d-wg, which reports to the network management: what it does with its    *)
(* two settings, the address of the management server and the network of   *)
(* the device itself, whose "register" is the interface eth0.  What it     *)
(* reports, and the ring its threads send from, are not here.              *)
(***************************************************************************)
EXTENDS Programs

NetFields == {"ip", "mac", "mask", "gateway"}
Factory == [server |-> [e \in {"ip"} |-> 0], net |-> [f \in NetFields |-> 0]]

(* The tables.                                                             *)

ReadWgIp == Load("server", Same)
WriteWgIp == Move("msg", "db", "server", Same)
\* Only what the message has; all in one statement.
write_virtual_eth == Move("msg", "db", "net", Same)
\* The address it names itself by in its reports: 0 stands for a failure and
\* the caller looks for -1.
ReadipFromTable == Call("own address")

(* The interface.                                                          *)

__Sock_SetIp == Only({"ip"}, Move("msg", "reg", "net", Same))
__Sock_SetMask == Only({"mask"}, Move("msg", "reg", "net", Same))
__Sock_SetGateway == Only({"gateway"}, Move("msg", "reg", "net", Same))
\* Of its failures the caller minds only that of the address.  The physical
\* address is left for the next start of the device.
ethn_add == <<__Sock_SetIp>> \o Ignored(<<__Sock_SetMask, __Sock_SetGateway>>)

(* The messages.                                                           *)

sysLevel == <<Call("level")>>
sendmessage == Ignored(<<Call("log")>>)
sysWgnet == ethn_add \o <<write_virtual_eth, Call("own address")>>
sysServer == <<Take("server"), WriteWgIp>>
ReadMessageQueue ==
  [MSG_CFG_DBG |-> sysLevel, MSG_CFG_WG_LOG |-> sendmessage, MSG_CFG_WG_NET |-> sysWgnet,
   MSG_CFG_WG_SERVER_IP |-> sysServer]

(* Start and end.                                                          *)

initializePriority == Call("priority")
initializeEventIndexTable == Open("events")
initializeDatabase == Open("database")
initializeVethDatabase == Open("addresses")
initializeExitSignal == Call("exit signal")
initializeNotifySignal == Call("notify signal")
initializeShareMemory == Call("shared memory")
initializeMessageQueue == Call("queue")
initializeSemaphoreSet == Call("semaphores")
writePid == Call("writePid")
initializeFpga == Open("fpga")
initializeSocket == Open("socket")
CreateThread == Open("threads")
send_ne_timer == Call("timer")
CloseThread == Close("threads")
cleanFpga == Close("fpga")
cleanVethDatabase == Close("addresses")
cleanDatabase == Close("database")

ProcWg ==
  Under("exit_0", <<initializePriority>>) \o Under("exit0", <<Call("signals")>>)
    \o Under("exit_0", <<initializeEventIndexTable>>) \o Under("exit0", <<initializeDatabase>>)
    \o Under("exit1", <<initializeVethDatabase>>)
    \o Under("exit2", <<initializeExitSignal, initializeNotifySignal, initializeShareMemory,
                        initializeMessageQueue, initializeSemaphoreSet, writePid, initializeFpga>>)
    \o Under("exit3", <<Call("FPGA runs"), ReadWgIp, initializeSocket>>)
    \o Ignored(<<ReadipFromTable>>)
    \o Under("exit4", <<CreateThread>>) \o Under("exit", <<send_ne_timer>>)
Exits == <<[label |-> "exit", steps |-> <<CloseThread>>],
           [label |-> "exit4", steps |-> <<Close("socket")>>],
           [label |-> "exit3", steps |-> <<cleanFpga>>],
           [label |-> "exit2", steps |-> <<cleanVethDatabase>>],
           [label |-> "exit1", steps |-> <<cleanDatabase>>],
           [label |-> "exit0", steps |-> <<Close("events")>>],
           [label |-> "exit_0", steps |-> <<>>]>>
LoopExit == "exit"

=============================================================================
