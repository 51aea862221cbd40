------------------------------- MODULE NtpConfig -------------------------------
(***************************************************************************)
(* How a setting reaches the NTP daemon and survives it: the commands that *)
(* put a message on the daemon's System V queue and signal its pid (the    *)
(* pattern of src/cmd and of send_log_message in src/lib/lib_log.c), the   *)
(* notify flag and the drain loop of ReadMessageQueue in                   *)
(* src/d-ntp/dntp_parser.c, and the three copies of the setting: in the    *)
(* daemon's memory, in the database and in shared memory.                  *)
(*                                                                         *)
(* The queue outlives the daemon.  A command learns the daemon's pid from  *)
(* shared memory, so it may signal a daemon that has gone, and a daemon    *)
(* that has been restarted meanwhile.  Daemon incarnations are numbered.   *)
(***************************************************************************)
EXTENDS Naturals, Sequences, FiniteSets

CONSTANTS
  Commands,   (* the command processes, each with one message to send         *)
  Values,     (* the values of the setting the daemon accepts                 *)
  Bad,        (* a value it rejects                                           *)
  Default,    (* what the database holds at first                             *)
  MaxMsgs,    (* MAX_MSGS of lib_msgQ.h (100)                                 *)
  MaxBoots    (* bound: how often the daemon is started                       *)

ASSUME ConfigAssumption ==
  /\ IsFiniteSet(Commands)
  /\ Default \in Values
  /\ Bad \notin Values
  /\ MaxMsgs \in Nat \ {0}
  /\ MaxBoots \in Nat \ {0}

VARIABLES
  cmd,          \* cmd[c]: how far command c has come
  to,           \* to[c]: the incarnation whose pid the command has read
  value,        \* value[c]: what its message asks for
  queue,        \* the message queue, one entry a command
  daemon,       \* where the daemon stands
  boots,        \* its incarnation
  pid,          \* the incarnation whose pid is in shared memory
  notify_flag,
  mem, db, shm  \* the three copies of the setting

cmdVars == <<cmd, to, value>>
cfgVars == <<mem, db, shm>>
configVars == <<cmd, to, value, queue, daemon, boots, pid, notify_flag, mem, db,
          shm>>

CmdStates == {"idle", "pid", "room", "sent", "ok", "failed"}
Running == {"publish", "share", "loop", "clear", "drain", "store", "write"}

Queued(c) == \E i \in 1..Len(queue) : queue[i] = c

ConfigInit ==
  /\ cmd = [c \in Commands |-> "idle"]
  /\ to = [c \in Commands |-> 0]
  /\ value = [c \in Commands |-> Default]
  /\ queue = <<>>
  /\ daemon = "down"
  /\ boots = 0
  /\ pid = 0
  /\ notify_flag = FALSE
  /\ mem = Default
  /\ db = Default
  /\ shm = Default

-----------------------------------------------------------------------------
(* A command: pid from shared memory, room in the queue, msgsnd, kill.     *)

(* MsgQ_Send compares the number of messages with MAX_MSGS ...             *)
QueueHasRoom == Len(queue) < MaxMsgs

ReadPid(c) ==
  /\ cmd[c] = "idle"
  /\ to' = [to EXCEPT ![c] = pid]
  /\ cmd' = [cmd EXCEPT ![c] = "pid"]
  /\ UNCHANGED <<value, queue, daemon, boots, pid, notify_flag, cfgVars>>

CheckRoom(c) ==
  /\ cmd[c] = "pid"
  /\ cmd' = [cmd EXCEPT ![c] = IF QueueHasRoom THEN "room" ELSE "failed"]
  /\ UNCHANGED <<to, value, queue, daemon, boots, pid, notify_flag, cfgVars>>

(* ... and calls msgsnd in a step of its own, which the kernel may refuse. *)
Msgsnd(c) ==
  /\ cmd[c] = "room"
  /\ \/ /\ queue' = Append(queue, c)
        /\ \E v \in Values \cup {Bad} : value' = [value EXCEPT ![c] = v]
        /\ cmd' = [cmd EXCEPT ![c] = "sent"]
     \/ /\ cmd' = [cmd EXCEPT ![c] = "failed"]
        /\ UNCHANGED <<queue, value>>
  /\ UNCHANGED <<to, daemon, boots, pid, notify_flag, cfgVars>>

(* kill(pid, NOTIFY_SIGNAL) reaches the daemon if it still is the one the  *)
(* command has read of; a pid that has gone makes kill fail, unless it is  *)
(* a zombie or has been given to another process.                          *)
Notify(c) ==
  /\ cmd[c] = "sent"
  /\ IF to[c] = boots /\ daemon \in Running
     THEN /\ notify_flag' = TRUE
          /\ cmd' = [cmd EXCEPT ![c] = "ok"]
     ELSE /\ \E r \in {"ok", "failed"} : cmd' = [cmd EXCEPT ![c] = r]
          /\ UNCHANGED notify_flag
  /\ UNCHANGED <<to, value, queue, daemon, boots, pid, cfgVars>>

-----------------------------------------------------------------------------
(* The daemon.                                                             *)

(* The manager starts it; it reads its settings from the database and      *)
(* installs its signal handlers before it makes its pid known.             *)
Boot ==
  /\ daemon = "down"
  /\ boots < MaxBoots
  /\ boots' = boots + 1
  /\ mem' = db
  /\ notify_flag' = FALSE
  /\ daemon' = "publish"
  /\ UNCHANGED <<cmdVars, queue, pid, db, shm>>

WritePid ==
  /\ daemon = "publish"
  /\ pid' = boots
  /\ daemon' = "share"
  /\ UNCHANGED <<cmdVars, queue, boots, notify_flag, cfgVars>>

WriteConfig ==
  /\ daemon = "share"
  /\ shm' = mem
  /\ daemon' = "loop"
  /\ UNCHANGED <<cmdVars, queue, boots, pid, notify_flag, mem, db>>

(* isNotify tests the flag and clears it in another step.                  *)
IsNotify ==
  /\ daemon = "loop"
  /\ notify_flag
  /\ daemon' = "clear"
  /\ UNCHANGED <<cmdVars, queue, boots, pid, notify_flag, cfgVars>>

ClearFlag ==
  /\ daemon = "clear"
  /\ notify_flag' = FALSE
  /\ daemon' = "drain"
  /\ UNCHANGED <<cmdVars, queue, boots, pid, cfgVars>>

(* The handler takes the next message into memory.  A value it rejects     *)
(* ends the daemon, the message being lost.                                *)
TakeMessage ==
  /\ daemon = "drain"
  /\ queue # <<>>
  /\ queue' = Tail(queue)
  /\ IF value[Head(queue)] \in Values
     THEN /\ mem' = value[Head(queue)]
          /\ daemon' = "store"
     ELSE /\ daemon' = "down"
          /\ UNCHANGED mem
  /\ UNCHANGED <<cmdVars, boots, pid, notify_flag, db, shm>>

(* Fault: the shared memory is left to the next message.                   *)
DrainNext == "drain"
(* The database is followed by the shared memory (writeConfig).            *)
AfterStore == "write"

StoreConfig ==
  /\ daemon = "store"
  /\ db' = mem
  /\ daemon' = AfterStore
  /\ UNCHANGED <<cmdVars, queue, boots, pid, notify_flag, mem, shm>>

(* Fault: one message is read for each notification.                       *)
OneMessage == "loop"
(* while(ret > 0): the queue is read until it is empty.                    *)
AfterMessage == "drain"

ShareConfig ==
  /\ daemon = "write"
  /\ shm' = mem
  /\ daemon' = AfterMessage
  /\ UNCHANGED <<cmdVars, queue, boots, pid, notify_flag, mem, db>>

(* The database or the semaphore fails: return 0, and ProcNtp leaves.      *)
AfterError == "down"

ConfigFails ==
  /\ daemon \in {"store", "write"}
  /\ daemon' = AfterError
  /\ UNCHANGED <<cmdVars, queue, boots, pid, notify_flag, cfgVars>>

QueueEmpty ==
  /\ daemon = "drain"
  /\ queue = <<>>
  /\ daemon' = "loop"
  /\ UNCHANGED <<cmdVars, queue, boots, pid, notify_flag, cfgVars>>

(* An exit signal, a crash, or an error elsewhere in the daemon.           *)
Dies ==
  /\ daemon \in Running
  /\ daemon' = "down"
  /\ UNCHANGED <<cmdVars, queue, boots, pid, notify_flag, cfgVars>>

-----------------------------------------------------------------------------
Command(c) == ReadPid(c) \/ CheckRoom(c) \/ Msgsnd(c) \/ Notify(c)

DaemonStep ==
  \/ WritePid \/ WriteConfig
  \/ IsNotify \/ ClearFlag \/ TakeMessage \/ StoreConfig \/ ShareConfig
  \/ QueueEmpty

ConfigNext ==
  \/ \E c \in Commands : Command(c)
  \/ Boot \/ DaemonStep \/ ConfigFails \/ Dies

ConfigSpec == ConfigInit /\ [][ConfigNext]_configVars

(* The daemon's loop runs (select returns once a second at the latest);    *)
(* nothing is assumed of commands, errors, deaths and restarts.            *)
FairConfigSpec == ConfigSpec /\ WF_configVars(DaemonStep)

-----------------------------------------------------------------------------
ConfigTypeOK ==
  /\ cmd \in [Commands -> CmdStates]
  /\ to \in [Commands -> 0..MaxBoots]
  /\ value \in [Commands -> Values \cup {Bad}]
  /\ queue \in Seq(Commands)
  /\ daemon \in Running \cup {"down"}
  /\ boots \in 0..MaxBoots
  /\ pid \in 0..boots
  /\ notify_flag \in BOOLEAN
  /\ mem \in Values /\ db \in Values /\ shm \in Values

(* A command that was told "ok" by the living daemon is not stranded: as   *)
(* long as its message is in the queue, the daemon has been notified or is *)
(* reading.  Signals do not count and the flag is cleared after it is      *)
(* tested; the order of msgsnd and kill, of clearing and reading, and the  *)
(* drain to the end make up for both.                                      *)
NotStranded ==
  \A c \in Commands :
    cmd[c] = "ok" /\ Queued(c) /\ to[c] = boots /\ daemon \in Running
      => notify_flag \/ daemon \in {"clear", "drain", "store", "write"}

(* Whenever the daemon is back in its loop the three copies agree, after   *)
(* whatever failures and restarts: what a query shows is what is in force  *)
(* and what the next start will read.                                      *)
CopiesAgree == daemon = "loop" => mem = db /\ db = shm

(* A message whose sender was told "ok" is read, unless the daemon leaves. *)
AckedIsRead ==
  \A c \in Commands :
    cmd[c] = "ok" /\ Queued(c) /\ to[c] = boots /\ daemon \in Running
      ~> ~Queued(c) \/ daemon = "down"
=============================================================================
