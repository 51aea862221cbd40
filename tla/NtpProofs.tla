------------------------------ MODULE NtpProofs ------------------------------
(***************************************************************************)
(* Proofs about the two modules of the NTP daemon.                         *)
(*                                                                         *)
(* NtpConfig, for every number of commands, every set of values, every     *)
(* length of the queue and every number of incarnations: the copies of the *)
(* setting agree whenever the daemon is in its loop, and no message whose  *)
(* sender was told "ok" is left without a notification.                    *)
(*                                                                         *)
(* NtpPool, for every number of workers, every capacity and every number   *)
(* of requests.  The invariant is built in layers: WeakType and Phase are  *)
(* inductive together; the queue, the owners of the requests and the       *)
(* counts of workers are added one after the other.  The last part maps    *)
(* each step to a step of TaskService, or to none.                         *)
(***************************************************************************)
EXTENDS NtpPool, NtpConfig, FiniteSetTheorems, SequenceTheorems, TLAPS

(* NtpConfig.                                                              *)

USE ConfigAssumption DEF ConfigAssumption

(* How far the copies have come at each position of the daemon.            *)
CopiesByPosition ==
  /\ daemon \in {"publish", "share", "write"} => mem = db
  /\ daemon = "store" => db = shm
  /\ daemon \in {"loop", "clear", "drain"} => mem = db /\ db = shm

(* A pid that a command has read is that of an incarnation that was there, *)
(* and of the present one only when it has made its pid known.             *)
PidsAreOld ==
  /\ \A c \in Commands : to[c] <= boots
  /\ daemon = "publish" => pid < boots /\ \A c \in Commands : to[c] < boots

(* A command that has not yet sent has nothing in the queue.               *)
Unsent ==
  \A c \in Commands : cmd[c] \in {"idle", "pid", "room"} => ~Queued(c)

(* The inductive invariant.                                                *)
ConfigIInv == ConfigTypeOK /\ CopiesByPosition /\ PidsAreOld /\ Unsent /\ NotStranded

-----------------------------------------------------------------------------
(* The queue.                                                              *)

LEMMA AppendQueued ==
  ASSUME ConfigTypeOK, NEW c \in Commands, queue' = Append(queue, c), NEW e \in Commands
  PROVE  /\ queue' \in Seq(Commands)
         /\ Queued(e)' <=> Queued(e) \/ e = c
<1>1. queue' \in Seq(Commands) /\ Len(queue') = Len(queue) + 1 /\ Len(queue) \in Nat
  BY AppendProperties DEF ConfigTypeOK
<1>2. /\ \A i \in 1..Len(queue) : queue'[i] = queue[i]
      /\ queue'[Len(queue) + 1] = c
  BY AppendProperties DEF ConfigTypeOK
<1>3. \A i \in 1..Len(queue') : i \in 1..Len(queue) \/ i = Len(queue) + 1
  BY <1>1
<1>4. Queued(e)' => Queued(e) \/ e = c
  BY <1>2, <1>3 DEF Queued
<1>5. Queued(e) => Queued(e)'
  <2>1. \A i \in 1..Len(queue) : i \in 1..Len(queue')
    BY <1>1
  <2>2. QED
    BY <1>2, <2>1 DEF Queued
<1>6. e = c => Queued(e)'
  <2>1. Len(queue) + 1 \in 1..Len(queue')
    BY <1>1
  <2>2. QED
    BY <1>2, <2>1 DEF Queued
<1>7. QED
  BY <1>1, <1>4, <1>5, <1>6

LEMMA TailQueued ==
  ASSUME ConfigTypeOK, queue # <<>>, queue' = Tail(queue), NEW e \in Commands
  PROVE  /\ queue' \in Seq(Commands) /\ Head(queue) \in Commands
         /\ Queued(e)' => Queued(e)
<1>1. /\ queue' \in Seq(Commands) /\ Head(queue) \in Commands
      /\ Len(queue) \in Nat \ {0} /\ Len(queue') = Len(queue) - 1
      /\ \A i \in 1..Len(queue') : queue'[i] = queue[i + 1]
  BY HeadTailProperties DEF ConfigTypeOK
<1>2. \A i \in 1..Len(queue') : i + 1 \in 1..Len(queue)
  BY <1>1
<1>3. QED
  BY <1>1, <1>2 DEF Queued

-----------------------------------------------------------------------------
LEMMA ConfigInitIInv == ConfigInit => ConfigIInv
<1> SUFFICES ASSUME ConfigInit PROVE ConfigIInv
  OBVIOUS
<1>1. ConfigTypeOK
  <2>1. queue \in Seq(Commands)
    BY EmptySeq DEF ConfigInit
  <2>2. boots \in 0..MaxBoots /\ pid \in 0..boots /\ to \in [Commands -> 0..MaxBoots]
    BY DEF ConfigInit
  <2>3. cmd \in [Commands -> CmdStates] /\ value \in [Commands -> Values \cup {Bad}]
    BY DEF ConfigInit, CmdStates
  <2>4. QED
    BY <2>1, <2>2, <2>3 DEF ConfigInit, ConfigTypeOK
<1>2. \A c \in Commands : ~Queued(c)
  BY EmptySeq DEF ConfigInit, Queued
<1>3. CopiesByPosition /\ PidsAreOld /\ Unsent /\ NotStranded
  BY <1>2 DEF ConfigInit, CopiesByPosition, PidsAreOld, Unsent, NotStranded
<1>4. QED
  BY <1>1, <1>3 DEF ConfigIInv

(* The types.                                                              *)
LEMMA ConfigTypeStep ==
  ASSUME ConfigTypeOK, [ConfigNext]_configVars PROVE ConfigTypeOK'
<1> USE DEF ConfigTypeOK, CmdStates, Running, cmdVars, cfgVars
<1>1. ASSUME NEW c \in Commands, ReadPid(c) PROVE ConfigTypeOK'
  BY <1>1 DEF ReadPid
<1>2. ASSUME NEW c \in Commands, CheckRoom(c) PROVE ConfigTypeOK'
  BY <1>2 DEF CheckRoom
<1>3. ASSUME NEW c \in Commands, Msgsnd(c) PROVE ConfigTypeOK'
  <2>1. queue' \in Seq(Commands)
    BY <1>3, AppendQueued DEF Msgsnd
  <2>2. value' \in [Commands -> Values \cup {Bad}]
    BY <1>3 DEF Msgsnd
  <2>3. cmd' \in [Commands -> CmdStates]
    BY <1>3 DEF Msgsnd
  <2>4. UNCHANGED <<to, daemon, boots, pid, notify_flag, mem, db, shm>>
    BY <1>3 DEF Msgsnd
  <2>5. QED
    BY <2>1, <2>2, <2>3, <2>4
<1>4. ASSUME NEW c \in Commands, Notify(c) PROVE ConfigTypeOK'
  BY <1>4 DEF Notify
<1>5. CASE Boot
  <2>1. boots' \in 0..MaxBoots /\ pid' \in 0..boots'
    BY <1>5 DEF Boot
  <2>2. UNCHANGED <<cmd, to, value, queue, db, shm>>
    BY <1>5 DEF Boot
  <2>3. mem' \in Values /\ daemon' \in Running /\ notify_flag' \in BOOLEAN
    BY <1>5 DEF Boot
  <2>4. QED
    BY <2>1, <2>2, <2>3
<1>6. CASE TakeMessage
  BY <1>6, TailQueued DEF TakeMessage
<1>7. CASE WritePid
  <2>1. pid' \in 0..boots'
    BY <1>7 DEF WritePid
  <2>2. daemon' \in Running /\ UNCHANGED <<cmd, to, value, queue, boots, notify_flag, mem, db, shm>>
    BY <1>7 DEF WritePid
  <2>3. QED
    BY <2>1, <2>2
<1>8. CASE WriteConfig \/ IsNotify \/ ClearFlag
  BY <1>8 DEF WriteConfig, IsNotify, ClearFlag
<1>9. CASE StoreConfig \/ ShareConfig \/ QueueEmpty \/ ConfigFails \/ Dies
  BY <1>9 DEF StoreConfig, AfterStore, ShareConfig, AfterMessage, QueueEmpty, ConfigFails,
              AfterError, Dies
<1>10. CASE UNCHANGED configVars
  BY <1>10 DEF configVars
<1>11. QED
  BY <1>1, <1>2, <1>3, <1>4, <1>5, <1>6, <1>7, <1>8, <1>9, <1>10 DEF ConfigNext, Command, DaemonStep

(* The copies: no command touches them, and each step of the daemon makes  *)
(* the one agree that it writes.                                           *)
LEMMA CopiesStep ==
  ASSUME ConfigTypeOK, CopiesByPosition, [ConfigNext]_configVars PROVE CopiesByPosition'
<1> USE DEF CopiesByPosition, cmdVars, cfgVars
<1>1. ASSUME NEW c \in Commands, Command(c) PROVE CopiesByPosition'
  BY <1>1 DEF Command, ReadPid, CheckRoom, Msgsnd, Notify
<1>2. CASE Boot \/ WritePid \/ WriteConfig
  BY <1>2 DEF Boot, WritePid, WriteConfig
<1>3. CASE IsNotify \/ ClearFlag \/ QueueEmpty
  BY <1>3 DEF IsNotify, ClearFlag, QueueEmpty
<1>4. CASE TakeMessage
  BY <1>4 DEF TakeMessage
<1>5. CASE StoreConfig
  BY <1>5 DEF StoreConfig, AfterStore
<1>6. CASE ShareConfig
  BY <1>6 DEF ShareConfig, AfterMessage
<1>7. CASE ConfigFails \/ Dies
  BY <1>7 DEF ConfigFails, AfterError, Dies
<1>8. CASE UNCHANGED configVars
  BY <1>8 DEF configVars
<1>9. QED
  BY <1>1, <1>2, <1>3, <1>4, <1>5, <1>6, <1>7, <1>8 DEF ConfigNext, DaemonStep

LEMMA PidsStep ==
  ASSUME ConfigTypeOK, PidsAreOld, [ConfigNext]_configVars PROVE PidsAreOld'
<1> USE DEF ConfigTypeOK, PidsAreOld, cmdVars, cfgVars
<1>1. ASSUME NEW c \in Commands, ReadPid(c) PROVE PidsAreOld'
  BY <1>1 DEF ReadPid
<1>2. ASSUME NEW c \in Commands, CheckRoom(c) \/ Msgsnd(c) \/ Notify(c) PROVE PidsAreOld'
  BY <1>2 DEF CheckRoom, Msgsnd, Notify
<1>3. CASE Boot
  BY <1>3 DEF Boot
<1>4. CASE DaemonStep
  BY <1>4 DEF DaemonStep, WritePid, WriteConfig, IsNotify, ClearFlag, TakeMessage, StoreConfig,
              AfterStore, ShareConfig, AfterMessage, QueueEmpty
<1>5. CASE ConfigFails \/ Dies \/ UNCHANGED configVars
  BY <1>5 DEF ConfigFails, AfterError, Dies, configVars
<1>6. QED
  BY <1>1, <1>2, <1>3, <1>4, <1>5 DEF ConfigNext, Command

LEMMA UnsentStep ==
  ASSUME ConfigTypeOK, Unsent, [ConfigNext]_configVars PROVE Unsent'
<1> USE DEF Unsent, cmdVars, cfgVars
<1>1. ASSUME NEW c \in Commands, ReadPid(c) \/ CheckRoom(c) \/ Notify(c) PROVE Unsent'
  BY <1>1 DEF ReadPid, CheckRoom, Notify, ConfigTypeOK, Queued
<1>2. ASSUME NEW c \in Commands, Msgsnd(c) PROVE Unsent'
  <2>1. CASE queue' = Append(queue, c) /\ cmd' = [cmd EXCEPT ![c] = "sent"]
    BY <2>1, AppendQueued DEF ConfigTypeOK
  <2>2. CASE queue' = queue /\ cmd' = [cmd EXCEPT ![c] = "failed"]
    BY <2>2 DEF ConfigTypeOK, Queued
  <2>3. QED
    BY <1>2, <2>1, <2>2 DEF Msgsnd
<1>3. CASE TakeMessage
  BY <1>3, TailQueued DEF TakeMessage
<1>4. CASE UNCHANGED <<cmd, queue>>
  BY <1>4 DEF Queued
<1>5. QED
  BY <1>1, <1>2, <1>3, <1>4
  DEF ConfigNext, Command, DaemonStep, Boot, WritePid, WriteConfig, IsNotify, ClearFlag, StoreConfig,
      ShareConfig, QueueEmpty, ConfigFails, Dies, configVars

(* The order of msgsnd and kill, of clearing the flag and reading, and the *)
(* drain to the end: for each step that takes one of the reasons away.     *)
LEMMA NotStrandedStep ==
  ASSUME ConfigTypeOK, PidsAreOld, Unsent, NotStranded, [ConfigNext]_configVars PROVE NotStranded'
<1> USE DEF NotStranded, Running, cmdVars, cfgVars
<1>1. ASSUME NEW c \in Commands, ReadPid(c) \/ CheckRoom(c) PROVE NotStranded'
  BY <1>1 DEF ReadPid, CheckRoom, ConfigTypeOK, Queued, QueueHasRoom
<1>2. ASSUME NEW c \in Commands, Msgsnd(c) PROVE NotStranded'
  <2>1. CASE queue' = Append(queue, c) /\ cmd' = [cmd EXCEPT ![c] = "sent"]
    BY <1>2, <2>1, AppendQueued DEF ConfigTypeOK, Msgsnd
  <2>2. CASE queue' = queue /\ cmd' = [cmd EXCEPT ![c] = "failed"]
    BY <1>2, <2>2 DEF ConfigTypeOK, Queued, Msgsnd
  <2>3. QED
    BY <1>2, <2>1, <2>2 DEF Msgsnd
<1>3. ASSUME NEW c \in Commands, Notify(c) PROVE NotStranded'
  <2>1. CASE notify_flag'
    BY <2>1
  <2>2. CASE ~(to[c] = boots /\ daemon \in Running)
    <3>1. UNCHANGED <<to, queue, daemon, boots, notify_flag>>
      BY <1>3, <2>2 DEF Notify
    <3>2. \A e \in Commands : e # c => cmd'[e] = cmd[e]
      BY <1>3 DEF Notify, ConfigTypeOK
    <3>3. QED
      BY <2>2, <3>1, <3>2 DEF Queued
  <2>3. QED
    BY <1>3, <2>1, <2>2 DEF Notify
<1>4. CASE Boot
  <2>1. \A c \in Commands : to'[c] # boots'
    BY <1>4 DEF Boot, PidsAreOld, ConfigTypeOK
  <2>2. QED
    BY <2>1
<1>5. CASE WritePid \/ WriteConfig
  <2>1. UNCHANGED <<cmd, to, queue, boots, notify_flag>>
    BY <1>5 DEF WritePid, WriteConfig
  <2>2. QED
    BY <1>5, <2>1 DEF WritePid, WriteConfig, Queued
<1>6. CASE IsNotify \/ ClearFlag \/ StoreConfig \/ ShareConfig
  BY <1>6 DEF IsNotify, ClearFlag, StoreConfig, AfterStore, ShareConfig, AfterMessage
<1>7. CASE TakeMessage
  BY <1>7 DEF TakeMessage
<1>8. CASE QueueEmpty
  <2>1. \A c \in Commands : ~Queued(c)'
    BY <1>8, EmptySeq DEF QueueEmpty, Queued
  <2>2. QED
    BY <2>1
<1>9. CASE ConfigFails \/ Dies
  BY <1>9 DEF ConfigFails, AfterError, Dies
<1>10. CASE UNCHANGED configVars
  BY <1>10 DEF configVars, Queued
<1>11. QED
  BY <1>1, <1>2, <1>3, <1>4, <1>5, <1>6, <1>7, <1>8, <1>9, <1>10 DEF ConfigNext, Command, DaemonStep

-----------------------------------------------------------------------------
(* The theorems.                                                           *)

LEMMA ConfigIInvStep == ConfigIInv /\ [ConfigNext]_configVars => ConfigIInv'
BY ConfigTypeStep, CopiesStep, PidsStep, UnsentStep, NotStrandedStep DEF ConfigIInv

LEMMA ConfigIInvHolds == ConfigSpec => []ConfigIInv
BY ConfigInitIInv, ConfigIInvStep, PTL DEF ConfigSpec

(* Type correctness of the commands, the queue and the daemon.             *)
THEOREM ConfigTypeCorrect == ConfigSpec => []ConfigTypeOK
<1>1. ConfigIInv => ConfigTypeOK
  BY DEF ConfigIInv
<1>2. QED
  BY <1>1, ConfigIInvHolds, PTL

(* In its loop the daemon, the database and the shared memory have the     *)
(* same setting, after whatever failures, deaths and restarts.             *)
THEOREM CopiesAgreeHolds == ConfigSpec => []CopiesAgree
<1>1. ConfigIInv => CopiesAgree
  BY DEF ConfigIInv, CopiesByPosition, CopiesAgree
<1>2. QED
  BY <1>1, ConfigIInvHolds, PTL

(* A message that was acknowledged by the living daemon is not stranded:   *)
(* what AckedIsRead says of its end rests on this at every moment.         *)
THEOREM NotStrandedHolds == ConfigSpec => []NotStranded
<1>1. ConfigIInv => NotStranded
  BY DEF ConfigIInv
<1>2. QED
  BY <1>1, ConfigIInvHolds, PTL

HIDE ConfigAssumption DEF ConfigAssumption


-----------------------------------------------------------------------------
(* NtpPool.                                                                *)

Leaving == {"exiting", "exited"}
Closing == {"poll", "sleep", "join", "closed"}

(* Types that need no counting argument.                                   *)
WeakType ==
  /\ main \in MainStates
  /\ created \in 0..Threads
  /\ arrived \in 0..MaxReq
  /\ req \in [Requests -> ReqStates]
  /\ frees \in [Requests -> Nat]
  /\ bExit \in BOOLEAN
  /\ tqHead \in Seq(Requests)
  /\ curTasks \in Int
  /\ curThreads \in Int
  /\ tmp \in Int
  /\ num \in Int
  /\ pc \in [Workers -> WorkerStates]
  /\ task \in [Workers -> Requests \cup {NoTask}]

(* Which positions of the main thread go with which positions of the       *)
(* workers.                                                                *)
Phase ==
  /\ \A w \in Workers : pc[w] = "none" <=> w > created
  /\ main = "create" => created < Threads
  /\ main = "count" => created >= 1
  /\ main \notin {"create", "count", "failed"} => created = Threads
  /\ main = "got" => arrived >= 1
  /\ bExit <=> main \in Closing
  /\ \A w \in Workers : pc[w] \in Leaving => bExit /\ tqHead = <<>>
  /\ \A w \in Workers : pc[w] = "run" => task[w] # NoTask

USE PoolAssumption DEF PoolAssumption

LEMMA InitWeakType == Init => WeakType /\ Phase
<1> SUFFICES ASSUME Init PROVE WeakType /\ Phase
  OBVIOUS
<1>1. <<>> \in Seq(Requests)
  BY EmptySeq
<1>2. WeakType
  <2>1. /\ main \in MainStates
        /\ req \in [Requests -> ReqStates]
        /\ frees \in [Requests -> Nat]
        /\ pc \in [Workers -> WorkerStates]
        /\ task \in [Workers -> Requests \cup {NoTask}]
    BY DEF Init, MainStates, ReqStates, WorkerStates
  <2>2. /\ created \in 0..Threads
        /\ arrived \in 0..MaxReq
    BY DEF Init
  <2>3. bExit \in BOOLEAN
    BY DEF Init
  <2>4. tqHead \in Seq(Requests)
    BY <1>1 DEF Init
  <2>5. curTasks \in Int /\ curThreads \in Int /\ tmp \in Int /\ num \in Int
    BY DEF Init
  <2>6. QED
    BY <2>1, <2>2, <2>3, <2>4, <2>5 DEF WeakType
<1>3. Phase
  BY DEF Init, Phase, Workers, Closing, Leaving
<1>4. QED
  BY <1>2, <1>3

(* The steps of the main thread, then those of a worker, keep the weak     *)
(* types and the phases.                                                   *)
LEMMA MainWeakType ==
  ASSUME WeakType, Phase, Main PROVE WeakType' /\ Phase'
<1> USE DEF WeakType, Phase, MainStates, ReqStates, WorkerStates, Workers,
            Requests, NoTask, Closing, Leaving
<1>1. CASE CreateThread
  BY <1>1 DEF CreateThread
<1>2. CASE CreateFails
  BY <1>2 DEF CreateFails
<1>3. CASE CountThread
  BY <1>3 DEF CountThread
<1>4. CASE ReqReceive
  BY <1>4 DEF ReqReceive
<1>5. CASE DropRequest
  BY <1>5 DEF DropRequest, FreeHeld
<1>6. CASE FpgaStopped
  BY <1>6 DEF FpgaStopped
<1>7. CASE LeaveLoop
  BY <1>7 DEF LeaveLoop
<1>8. ASSUME NEW noMemory \in BOOLEAN, TpAddTaskRefuses(noMemory)
      PROVE  WeakType' /\ Phase'
  BY <1>8 DEF TpAddTaskRefuses, FreeHeld
<1>9. CASE TpAddTask
  <2>1. arrived \in Requests
    BY <1>9 DEF TpAddTask
  <2>2. Append(tqHead, arrived) \in Seq(Requests)
    BY <2>1, AppendProperties
  <2>3. /\ pc' \in [Workers -> WorkerStates]
        /\ \A w \in Workers : pc'[w] = "none" <=> pc[w] = "none"
        /\ \A w \in Workers : pc'[w] \in Leaving <=> pc[w] \in Leaving
        /\ \A w \in Workers : pc'[w] = "run" <=> pc[w] = "run"
    BY <1>9 DEF TpAddTask, Signal, Waiting, At
  <2>4. WeakType'
    BY <1>9, <2>2, <2>3 DEF TpAddTask
  <2>5. Phase'
    BY <1>9, <2>3 DEF TpAddTask
  <2>6. QED
    BY <2>4, <2>5
<1>10. CASE SetExit
  BY <1>10 DEF SetExit
<1>11. CASE Broadcast
  BY <1>11 DEF Broadcast, WokenByBroadcast, Waiting, At
<1>12. CASE SleepOver
  BY <1>12 DEF SleepOver
<1>13. CASE Join
  BY <1>13 DEF Join
<1>14. QED
  BY <1>1, <1>2, <1>3, <1>4, <1>5, <1>6, <1>7, <1>8, <1>9, <1>10, <1>11,
     <1>12, <1>13 DEF Main

LEMMA WorkerWeakType ==
  ASSUME WeakType, Phase, NEW w \in Workers, Worker(w)
  PROVE  WeakType' /\ Phase'
<1> USE DEF WeakType, Phase, MainStates, ReqStates, WorkerStates, Workers,
            Requests, NoTask, Closing, Leaving
<1>1. CASE WorkerLeaves(w)
  BY <1>1 DEF WorkerLeaves, MayLeave
<1>2. CASE CondWait(w)
  BY <1>2 DEF CondWait
<1>3. CASE SpuriousWakeup(w)
  BY <1>3 DEF SpuriousWakeup
<1>4. CASE TakeTask(w)
  <2>1. Head(tqHead) \in Requests /\ Tail(tqHead) \in Seq(Requests)
    BY <1>4, HeadTailProperties DEF TakeTask
  <2>2. QED
    BY <1>4, <2>1, SMTT(30) DEF TakeTask, FirstTask, RemainingTasks
<1>5. CASE FinishTask(w)
  <2>1. frees' \in [Requests -> Nat]
    <3>1. task[w] \in Requests /\ frees[task[w]] + 1 \in Nat
      BY <1>5 DEF FinishTask
    <3>2. QED
      BY <1>5, <3>1 DEF FinishTask
  <2>2. req' \in [Requests -> ReqStates] /\ task' \in [Workers -> Requests \cup {NoTask}]
    BY <1>5 DEF FinishTask
  <2>3. pc' \in [Workers -> WorkerStates]
    BY <1>5 DEF FinishTask
  <2>4. WeakType'
    BY <1>5, <2>1, <2>2, <2>3 DEF FinishTask
  <2>5. Phase'
    BY <1>5 DEF FinishTask
  <2>6. QED
    BY <2>4, <2>5
<1>6. CASE PthreadExit(w)
  BY <1>6 DEF PthreadExit
<1>7. QED
  BY <1>1, <1>2, <1>3, <1>4, <1>5, <1>6 DEF Worker

LEMMA NextWeakType ==
  ASSUME WeakType, Phase, [Next]_vars PROVE WeakType' /\ Phase'
<1>1. CASE Main
  BY <1>1, MainWeakType
<1>2. ASSUME NEW w \in Workers, Worker(w) PROVE WeakType' /\ Phase'
  BY <1>2, WorkerWeakType
<1>3. CASE UNCHANGED vars
  BY <1>3 DEF vars, WeakType, Phase, At, Closing, Leaving
<1>4. QED
  BY <1>1, <1>2, <1>3 DEF Next, Terminated

(* The types without bounds, and what each state of ProcNtp implies.       *)
THEOREM WeakTypeHolds == Spec => [](WeakType /\ Phase)
<1>1. WeakType /\ Phase /\ [Next]_vars => WeakType' /\ Phase'
  BY NextWeakType
<1>2. QED
  BY InitWeakType, <1>1, PTL DEF Spec

-----------------------------------------------------------------------------
(***************************************************************************)
(* The queue and the owners of the requests.                               *)
(***************************************************************************)

(* The main thread turns down the request it holds.                        *)
LEMMA FreeHeldOwnership ==
  ASSUME WeakType, Phase, Ownership, QueueAccounting,
         main = "got", FreeHeld,
         UNCHANGED <<arrived, tqHead, curTasks, pc, task>>
  PROVE  Ownership' /\ QueueAccounting'
<1> USE DEF WeakType, Phase, MainStates, ReqStates, Workers, Requests, NoTask,
            Ownership, QueueAccounting, FreeHeld
<1>1. arrived \in Requests /\ req[arrived] = "held" /\ frees[arrived] = 0
  <2>1. arrived \in Requests
    OBVIOUS
  <2>2. req[arrived] = "held"
    BY <2>1
  <2>3. frees[arrived] = IF req[arrived] \in {"done", "dropped"} THEN 1 ELSE 0
    BY <2>1
  <2>4. QED
    BY <2>1, <2>2, <2>3
<1>2. QueueAccounting'
  OBVIOUS
<1>3. ASSUME NEW r \in Requests
      PROVE  /\ req'[r] = "held" <=> main' = "got" /\ r = arrived'
             /\ frees'[r] = IF req'[r] \in {"done", "dropped"} THEN 1 ELSE 0
             /\ req'[r] = "new" <=> r > arrived'
  BY <1>1
<1>4. ASSUME NEW r \in Requests
      PROVE  req'[r] = "queued" <=> \E i \in 1..Len(tqHead') : tqHead'[i] = r
  BY <1>1
<1>5. ASSUME NEW r \in Requests
      PROVE  req'[r] = "running" <=> \E v \in Workers : task'[v] = r
  BY <1>1
<1>6. \A i, j \in 1..Len(tqHead') : tqHead'[i] = tqHead'[j] => i = j
  OBVIOUS
<1>7. /\ \A u, v \in Workers : task'[u] = task'[v] /\ task'[v] # NoTask => u = v
      /\ \A v \in Workers : task'[v] # NoTask <=> pc'[v] = "run"
  OBVIOUS
<1>8. QED
  BY <1>2, <1>3, <1>4, <1>5, <1>6, <1>7

(* The steps of the main thread.                                           *)
LEMMA MainOwnership ==
  ASSUME WeakType, Phase, Ownership, QueueAccounting, Main
  PROVE  Ownership' /\ QueueAccounting'
<1> USE DEF WeakType, Phase, MainStates, ReqStates, Workers,
            Requests, NoTask, Ownership, QueueAccounting
<1>1. CASE CreateThread
  BY <1>1 DEF CreateThread
<1>2. CASE CreateFails
  BY <1>2 DEF CreateFails
<1>3. CASE CountThread
  BY <1>3 DEF CountThread
<1>4. CASE ReqReceive
  BY <1>4 DEF ReqReceive
<1>5. CASE DropRequest
  BY <1>5, FreeHeldOwnership DEF DropRequest
<1>6. CASE FpgaStopped
  BY <1>6 DEF FpgaStopped
<1>7. CASE LeaveLoop
  BY <1>7 DEF LeaveLoop
<1>8. ASSUME NEW noMemory \in BOOLEAN, TpAddTaskRefuses(noMemory)
      PROVE  Ownership' /\ QueueAccounting'
  BY <1>8, FreeHeldOwnership DEF TpAddTaskRefuses
<1>9. CASE TpAddTask
  <2>1. /\ Len(tqHead') = Len(tqHead) + 1
        /\ \A i \in 1..Len(tqHead) : tqHead'[i] = tqHead[i]
        /\ tqHead'[Len(tqHead) + 1] = arrived
        /\ Len(tqHead) \in Nat
        /\ \A i \in 1..Len(tqHead) : tqHead[i] \in Requests
    <3>1. arrived \in Requests /\ tqHead' = Append(tqHead, arrived)
      BY <1>9 DEF TpAddTask
    <3>2. Len(tqHead) \in Nat /\ \A i \in 1..Len(tqHead) : tqHead[i] \in Requests
      BY LenProperties, ElementOfSeq
    <3>. QED
      BY <3>1, <3>2, AppendProperties
  <2>2. \A i \in 1..Len(tqHead) : tqHead[i] < arrived
    <3>1. arrived \in Requests /\ req[arrived] = "held"
      BY <1>9 DEF TpAddTask
    <3>2. ASSUME NEW i \in 1..Len(tqHead) PROVE tqHead[i] < arrived
      <4>1. tqHead[i] \in Requests /\ req[tqHead[i]] = "queued"
        BY <2>1
      <4>2. tqHead[i] # arrived /\ ~(tqHead[i] > arrived)
        BY <3>1, <4>1
      <4>3. QED
        BY <3>1, <4>1, <4>2
    <3>3. QED
      BY <3>2
  <2>3. \A w \in Workers : pc'[w] = "run" <=> pc[w] = "run"
    BY <1>9 DEF TpAddTask, Signal, Waiting, At
  <2>4. QueueAccounting'
    BY <1>9, <2>1, <2>2 DEF TpAddTask, HasRoom
  <2>5. Ownership'
    <3>1. ASSUME NEW i \in 1..Len(tqHead'), NEW j \in 1..Len(tqHead'),
                 tqHead'[i] = tqHead'[j]
          PROVE  i = j
      <4>1. CASE i = Len(tqHead) + 1 /\ j = Len(tqHead) + 1
        BY <4>1
      <4>2. CASE i = Len(tqHead) + 1 /\ j \in 1..Len(tqHead)
        <5>1. tqHead'[j] = tqHead[j] /\ tqHead'[i] = arrived /\ tqHead[j] < arrived
          BY <2>1, <2>2, <4>2
        <5>2. QED
          BY <2>1, <3>1, <4>2, <5>1
      <4>3. CASE i \in 1..Len(tqHead) /\ j = Len(tqHead) + 1
        <5>1. tqHead'[i] = tqHead[i] /\ tqHead'[j] = arrived /\ tqHead[i] < arrived
          BY <2>1, <2>2, <4>3
        <5>2. QED
          BY <2>1, <3>1, <4>3, <5>1
      <4>4. CASE i \in 1..Len(tqHead) /\ j \in 1..Len(tqHead)
        BY <2>1, <3>1, <4>4
      <4>5. \A k \in 1..Len(tqHead') : k = Len(tqHead) + 1 \/ k \in 1..Len(tqHead)
        BY <2>1
      <4>6. QED
        BY <4>1, <4>2, <4>3, <4>4, <4>5
    <3>2. ASSUME NEW r \in Requests
          PROVE  req'[r] = "queued" <=> \E i \in 1..Len(tqHead') : tqHead'[i] = r
      BY <1>9, <2>1 DEF TpAddTask
    <3>3. ASSUME NEW r \in Requests
          PROVE  /\ req'[r] = "held" <=> main' = "got" /\ r = arrived'
                 /\ frees'[r] = IF req'[r] \in {"done", "dropped"} THEN 1 ELSE 0
                 /\ req'[r] = "new" <=> r > arrived'
      BY <1>9 DEF TpAddTask
    <3>4. ASSUME NEW r \in Requests
          PROVE  req'[r] = "running" <=> \E v \in Workers : task'[v] = r
      BY <1>9 DEF TpAddTask
    <3>5. /\ \A u, v \in Workers : task'[u] = task'[v] /\ task'[v] # NoTask => u = v
          /\ \A v \in Workers : task'[v] # NoTask <=> pc'[v] = "run"
      BY <1>9, <2>3 DEF TpAddTask
    <3>6. QED
      BY <3>1, <3>2, <3>3, <3>4, <3>5
  <2>6. QED
    BY <2>4, <2>5
<1>10. CASE SetExit
  BY <1>10 DEF SetExit
<1>11. CASE Broadcast
  BY <1>11 DEF Broadcast, WokenByBroadcast, Waiting, At
<1>12. CASE SleepOver
  BY <1>12 DEF SleepOver
<1>13. CASE Join
  BY <1>13 DEF Join
<1>14. QED
  BY <1>1, <1>2, <1>3, <1>4, <1>5, <1>6, <1>7, <1>8, <1>9, <1>10, <1>11,
     <1>12, <1>13 DEF Main

LEMMA WorkerOwnership ==
  ASSUME WeakType, Phase, Ownership, QueueAccounting, NEW w \in Workers,
         Worker(w)
  PROVE  Ownership' /\ QueueAccounting'
<1> USE DEF WeakType, Phase, MainStates, ReqStates, Workers, WorkerStates,
            Requests, NoTask, Ownership, QueueAccounting
<1>1. CASE WorkerLeaves(w)
  BY <1>1 DEF WorkerLeaves, MayLeave
<1>2. CASE CondWait(w)
  BY <1>2 DEF CondWait
<1>3. CASE SpuriousWakeup(w)
  BY <1>3 DEF SpuriousWakeup
<1>4. CASE TakeTask(w)
  <2>1. /\ Len(tqHead) \in Nat \ {0}
        /\ Head(tqHead) = tqHead[1]
        /\ \A i \in 1..Len(tqHead) : tqHead[i] \in Requests
        /\ Len(Tail(tqHead)) = Len(tqHead) - 1
        /\ \A i \in 1..Len(Tail(tqHead)) : Tail(tqHead)[i] = tqHead[i + 1]
    <3>1. tqHead \in Seq(Requests) /\ tqHead # <<>>
      BY <1>4 DEF TakeTask
    <3>2. Len(tqHead) \in Nat /\ \A i \in 1..Len(tqHead) : tqHead[i] \in Requests
      BY <3>1, LenProperties, ElementOfSeq
    <3>3. /\ Len(Tail(tqHead)) = Len(tqHead) - 1
          /\ \A i \in 1..Len(Tail(tqHead)) : Tail(tqHead)[i] = tqHead[i + 1]
      BY <3>1, HeadTailProperties
    <3>4. Len(tqHead) # 0 /\ Head(tqHead) = tqHead[1]
      BY <3>1
    <3>5. QED
      BY <3>2, <3>3, <3>4
  <2>2. /\ tqHead' = Tail(tqHead)
        /\ curTasks' = curTasks - 1
        /\ req' = [req EXCEPT ![tqHead[1]] = "running"]
        /\ task' = [task EXCEPT ![w] = tqHead[1]]
        /\ pc' = [pc EXCEPT ![w] = "run"]
        /\ pc[w] # "run"
        /\ UNCHANGED <<main, arrived, frees>>
    BY <1>4, <2>1 DEF TakeTask, FirstTask, RemainingTasks
  <2>3. QueueAccounting'
    BY <2>1, <2>2
  <2>4. \A i, j \in 1..Len(tqHead') : tqHead'[i] = tqHead'[j] => i = j
    BY <2>1, <2>2, SMTT(30)
  <2>5. ASSUME NEW r \in Requests
        PROVE  req'[r] = "queued" <=> \E i \in 1..Len(tqHead') : tqHead'[i] = r
    <3>1. CASE r = tqHead[1]
      BY <2>1, <2>2, <3>1
    <3>2. CASE r # tqHead[1]
      <4>1. req'[r] = "queued" <=> \E i \in 1..Len(tqHead) : tqHead[i] = r
        BY <2>1, <2>2, <3>2
      <4>2. ASSUME NEW i \in 1..Len(tqHead), tqHead[i] = r
            PROVE  \E j \in 1..Len(tqHead') : tqHead'[j] = r
        <5>1. i - 1 \in 1..Len(tqHead') /\ tqHead'[i - 1] = r
          BY <2>1, <2>2, <3>2, <4>2
        <5>2. QED
          BY <5>1
      <4>3. ASSUME NEW j \in 1..Len(tqHead'), tqHead'[j] = r
            PROVE  \E i \in 1..Len(tqHead) : tqHead[i] = r
        <5>1. j + 1 \in 1..Len(tqHead) /\ tqHead[j + 1] = r
          BY <2>1, <2>2, <4>3
        <5>2. QED
          BY <5>1
      <4>4. QED
        BY <4>1, <4>2, <4>3
    <3>3. QED
      BY <3>1, <3>2
  <2>6. req[tqHead[1]] = "queued" /\ tqHead[1] \in Requests
    BY <2>1
  <2>7. \A v \in Workers : task[v] # tqHead[1]
    <3>1. req[tqHead[1]] # "running"
      BY <2>6
    <3>2. ASSUME NEW v \in Workers, task[v] = tqHead[1] PROVE FALSE
      <4>1. req[tqHead[1]] = "running" <=> \E u \in Workers : task[u] = tqHead[1]
        BY <2>6
      <4>2. QED
        BY <3>1, <3>2, <4>1
    <3>3. QED
      BY <3>2
  <2>8. \A v \in Workers : task'[v] # NoTask <=> pc'[v] = "run"
    BY <2>2, <2>6
  <2>9. \A u, v \in Workers : task'[u] = task'[v] /\ task'[v] # NoTask => u = v
    BY <2>2, <2>6, <2>7
  <2>10. ASSUME NEW r \in Requests
         PROVE  req'[r] = "running" <=> \E v \in Workers : task'[v] = r
    BY <2>2, <2>6, <2>7
  <2>11. ASSUME NEW r \in Requests
         PROVE  /\ req'[r] = "held" <=> main' = "got" /\ r = arrived'
                /\ frees'[r] = IF req'[r] \in {"done", "dropped"} THEN 1 ELSE 0
                /\ req'[r] = "new" <=> r > arrived'
    <3>1. CASE r = tqHead[1]
      <4>1. req'[r] = "running" /\ req[r] = "queued"
        BY <2>2, <2>6, <3>1
      <4>2. QED
        BY <2>2, <2>6, <3>1, <4>1
    <3>2. CASE r # tqHead[1]
      <4>1. req'[r] = req[r]
        BY <2>2, <2>6, <3>2
      <4>2. QED
        BY <2>2, <4>1
    <3>3. QED
      BY <3>1, <3>2
  <2>12. Ownership'
    BY <2>4, <2>5, <2>8, <2>9, <2>10, <2>11
  <2>13. QED
    BY <2>3, <2>12
<1>5. CASE FinishTask(w)
  <2>1. /\ task[w] \in Requests
        /\ req[task[w]] = "running"
        /\ frees[task[w]] = 0
    <3>1. task[w] \in Requests
      BY <1>5 DEF FinishTask
    <3>2. req[task[w]] = "running"
      BY <3>1
    <3>3. frees[task[w]] = IF req[task[w]] \in {"done", "dropped"} THEN 1 ELSE 0
      BY <3>1
    <3>4. QED
      BY <3>1, <3>2, <3>3
  <2>2. QueueAccounting'
    <3>1. UNCHANGED <<tqHead, curTasks>>
      BY <1>5 DEF FinishTask
    <3>2. QED
      BY <3>1
  <2>3. ASSUME NEW r \in Requests
        PROVE  /\ req'[r] = "held" <=> main' = "got" /\ r = arrived'
               /\ frees'[r] = IF req'[r] \in {"done", "dropped"} THEN 1 ELSE 0
               /\ req'[r] = "new" <=> r > arrived'
    BY <1>5, <2>1 DEF FinishTask
  <2>4. ASSUME NEW r \in Requests
        PROVE  req'[r] = "running" <=> \E v \in Workers : task'[v] = r
    BY <1>5, <2>1 DEF FinishTask
  <2>5. ASSUME NEW r \in Requests
        PROVE  req'[r] = "queued" <=> \E i \in 1..Len(tqHead') : tqHead'[i] = r
    BY <1>5, <2>1 DEF FinishTask
  <2>6. \A v \in Workers : task'[v] # NoTask <=> pc'[v] = "run"
    BY <1>5 DEF FinishTask
  <2>7. \A u, v \in Workers : task'[u] = task'[v] /\ task'[v] # NoTask => u = v
    BY <1>5 DEF FinishTask
  <2>8. \A i, j \in 1..Len(tqHead') : tqHead'[i] = tqHead'[j] => i = j
    BY <1>5 DEF FinishTask
  <2>9. QED
    BY <2>2, <2>3, <2>4, <2>5, <2>6, <2>7, <2>8
<1>6. CASE PthreadExit(w)
  BY <1>6 DEF PthreadExit
<1>7. QED
  BY <1>1, <1>2, <1>3, <1>4, <1>5, <1>6 DEF Worker

LEMMA InitOwnership == Init => Ownership /\ QueueAccounting
BY DEF Init, Ownership, QueueAccounting, Requests, Workers, NoTask

LEMMA NextOwnership ==
  ASSUME WeakType, Phase, Ownership, QueueAccounting, [Next]_vars
  PROVE  Ownership' /\ QueueAccounting'
<1>1. CASE Main
  BY <1>1, MainOwnership
<1>2. ASSUME NEW w \in Workers, Worker(w) PROVE Ownership' /\ QueueAccounting'
  BY <1>2, WorkerOwnership
<1>3. CASE UNCHANGED vars
  BY <1>3 DEF vars, Ownership, QueueAccounting
<1>4. QED
  BY <1>1, <1>2, <1>3 DEF Next, Terminated

(* A request has one owner and is freed exactly once; the queue, its count *)
(* and its order agree (tpAddTask, thread_start_routine, ProcNtp).         *)
THEOREM OwnershipHolds == Spec => [](Ownership /\ QueueAccounting)
<1>1. WeakType /\ Phase /\ Ownership /\ QueueAccounting /\ [Next]_vars
        => Ownership' /\ QueueAccounting'
  BY NextOwnership
<1>2. QED
  BY InitOwnership, WeakTypeHolds, <1>1, PTL DEF Spec

(* Requests leave the queue in the order they came in: the worker takes    *)
(* the head, and the head is the oldest request of the queue.              *)
THEOREM FifoHolds == Spec => FifoDispatch
<1>1. ASSUME WeakType, Phase, Ownership, QueueAccounting, [Next]_vars
      PROVE  FifoStep
  <2> SUFFICES ASSUME NEW r \in Requests, NEW s \in Requests,
                      r < s, req[s] = "queued", req'[s] = "running"
               PROVE  req[r] # "queued"
    BY DEF FifoStep
  <2>1. PICK w \in Workers : TakeTask(w)
    <3>1. ASSUME Main PROVE FALSE
      <4>1. CASE TpAddTask
        BY <4>1 DEF TpAddTask, WeakType, Requests
      <4>2. CASE ReqReceive
        BY <4>2 DEF ReqReceive, WeakType, Requests
      <4>3. CASE FreeHeld
        BY <4>3 DEF FreeHeld, WeakType, Requests
      <4>4. CASE FpgaStopped
        BY <4>4 DEF FpgaStopped, WeakType, Requests
      <4>5. CASE UNCHANGED req
        BY <4>5
      <4>6. QED
        BY <3>1, <4>1, <4>2, <4>3, <4>4, <4>5
        DEF Main, CreateThread, CreateFails, CountThread, DropRequest,
            LeaveLoop, TpAddTaskRefuses, SetExit, Broadcast, SleepOver, Join
    <3>2. ASSUME UNCHANGED req PROVE FALSE
      BY <3>2
    <3>3. ASSUME NEW w \in Workers, Worker(w), ~TakeTask(w) PROVE FALSE
      <4>1. CASE FinishTask(w)
        BY <4>1 DEF FinishTask, WeakType, Requests
      <4>2. CASE UNCHANGED req
        BY <3>2, <4>2
      <4>3. QED
        BY <3>3, <4>1, <4>2
        DEF Worker, WorkerLeaves, CondWait, SpuriousWakeup, PthreadExit
    <3>4. \E w \in Workers : Worker(w)
      BY <1>1, <3>1, <3>2 DEF Next, Terminated, vars
    <3>5. QED
      BY <3>3, <3>4
  <2>2. tqHead # <<>> /\ s = tqHead[1]
    BY <2>1 DEF TakeTask, FirstTask, WeakType, Requests
  <2>3. SUFFICES ASSUME req[r] = "queued" PROVE FALSE
    OBVIOUS
  <2>4. PICK i \in 1..Len(tqHead) : tqHead[i] = r
    <3>1. req[r] = "queued" <=> \E i \in 1..Len(tqHead) : tqHead[i] = r
      BY <1>1 DEF Ownership
    <3>2. QED
      BY <2>3, <3>1
  <2>5. 1 \in 1..Len(tqHead) /\ (1 < i => tqHead[1] < tqHead[i])
    <3>1. Len(tqHead) \in Nat
      BY <1>1, LenProperties DEF WeakType
    <3>2. 1 \in 1..Len(tqHead)
      BY <3>1
    <3>3. QED
      BY <1>1, <2>4, <3>2 DEF QueueAccounting
  <2>6. i = 1
    BY <2>2, <2>4, <2>5 DEF Requests
  <2>7. QED
    BY <2>2, <2>4, <2>6 DEF Requests
<1>2. WeakType /\ Phase /\ Ownership /\ QueueAccounting /\ [Next]_vars
        => [FifoStep]_vars
  BY <1>1
<1>3. QED
  BY WeakTypeHolds, OwnershipHolds, <1>2, PTL DEF Spec, FifoDispatch

-----------------------------------------------------------------------------
(***************************************************************************)
(* The counts of workers: how curThreads and the wait set move.            *)
(***************************************************************************)
Fetching == {"ready", "woken"}

LEMMA AtCount ==
  ASSUME NEW S
  PROVE  /\ IsFiniteSet(At(S))
         /\ Cardinality(At(S)) \in 0..Threads
         /\ At(S) = Workers <=> Cardinality(At(S)) = Threads
<1>1. IsFiniteSet(Workers) /\ Cardinality(Workers) = Threads
  BY FS_Interval DEF Workers
<1>2. At(S) \in SUBSET Workers
  BY DEF At
<1>3. QED
  BY <1>1, <1>2, FS_Subset, FS_CardinalityType

(* A worker enters or leaves a class of positions, the others stay.        *)
LEMMA AtMove ==
  ASSUME NEW S, NEW w \in Workers, pc \in [Workers -> WorkerStates],
         NEW p \in WorkerStates, pc' = [pc EXCEPT ![w] = p]
  PROVE  /\ p \in S /\ pc[w] \notin S
              => Cardinality(At(S)') = Cardinality(At(S)) + 1
         /\ p \notin S /\ pc[w] \in S
              => Cardinality(At(S)') = Cardinality(At(S)) - 1
         /\ (p \in S <=> pc[w] \in S)
              => Cardinality(At(S)') = Cardinality(At(S))
<1>1. At(S)' = IF p \in S THEN At(S) \cup {w} ELSE At(S) \ {w}
  BY DEF At
<1>2. IsFiniteSet(At(S)) /\ Cardinality(At(S)) \in Nat
  BY AtCount
<1>3. w \in At(S) <=> pc[w] \in S
  BY DEF At
<1>4. CASE p \in S
  BY <1>1, <1>2, <1>3, <1>4, FS_AddElement
<1>5. CASE p \notin S
  <2>1. Cardinality(At(S) \ {w}) =
          IF w \in At(S) THEN Cardinality(At(S)) - 1 ELSE Cardinality(At(S))
    BY <1>2, FS_RemoveElement
  <2>2. QED
    BY <1>1, <1>2, <1>3, <1>5, <2>1
<1>6. QED
  BY <1>4, <1>5

(* The positions that count as alive, and those that are on the way to the *)
(* queue.                                                                  *)
LEMMA Positions ==
  /\ {"ready", "waiting", "woken", "run"} \subseteq Alive
  /\ {"none", "exiting", "exited"} \cap Alive = {}
  /\ {"ready", "woken"} \subseteq Fetching
  /\ {"none", "waiting", "run", "exiting", "exited"} \cap Fetching = {}
  /\ {"none", "ready", "waiting", "woken", "run", "exiting", "exited"}
       \subseteq WorkerStates
BY DEF Alive, Fetching, WorkerStates

LEMMA InitCounts == Init => ThreadAccounting /\ NoLostWakeup
<1> SUFFICES ASSUME Init PROVE ThreadAccounting /\ NoLostWakeup
  OBVIOUS
<1>1. At(Alive) = {} /\ Waiting = {}
  BY DEF Init, At, Alive, Waiting
<1>2. QED
  BY <1>1, FS_EmptySet DEF Init, ThreadAccounting, NoLostWakeup

LEMMA MainCounts ==
  ASSUME WeakType, Phase, ThreadAccounting, NoLostWakeup, Main
  PROVE  ThreadAccounting' /\ NoLostWakeup'
<1> USE DEF ThreadAccounting, NoLostWakeup
<1>1. CASE CreateThread
  <2>1. /\ created + 1 \in Workers
        /\ pc[created + 1] = "none"
        /\ pc' = [pc EXCEPT ![created + 1] = "ready"]
        /\ main = "create" /\ main' = "count"
        /\ UNCHANGED <<tqHead, curThreads>>
    BY <1>1 DEF CreateThread, Phase, WeakType, Workers
  <2>2. Cardinality(At(Alive)') = Cardinality(At(Alive)) + 1
    BY <2>1, AtMove, Positions DEF WeakType
  <2>3. Cardinality(At(Fetching)') = Cardinality(At(Fetching)) + 1
    BY <2>1, AtMove, Positions DEF WeakType
  <2>4. Waiting' = Waiting
    BY <2>1 DEF Waiting, At, WeakType
  <2>5. /\ Cardinality(At(Alive)) \in Nat
        /\ Cardinality(At(Fetching)) \in Nat
        /\ Len(tqHead) \in Nat
    BY AtCount, LenProperties DEF WeakType
  <2>6. ThreadAccounting'
    BY <2>1, <2>2, <2>5
  <2>7. NoLostWakeup'
    BY <2>1, <2>3, <2>4, <2>5 DEF Fetching
  <2>8. QED
    BY <2>6, <2>7
<1>2. CASE CountThread
  <2>1. /\ main = "count" /\ main' # "count"
        /\ curThreads' = curThreads + 1
        /\ UNCHANGED <<pc, tqHead>>
    BY <1>2 DEF CountThread
  <2>2. Cardinality(At(Alive)) \in Nat
    BY AtCount
  <2>3. QED
    BY <2>1, <2>2 DEF At, Waiting, WeakType
<1>3. CASE TpAddTask
  <2>1. /\ main = "got" /\ main' = "loop"
        /\ curThreads' = curThreads
        /\ Len(tqHead') = Len(tqHead) + 1
        /\ Len(tqHead) \in Nat
        /\ arrived \in Requests
    BY <1>3, AppendProperties, LenProperties
    DEF TpAddTask, WeakType, Phase, Requests
  <2>2. CASE Waiting = {}
    <3>1. pc' = pc
      BY <1>3, <2>2 DEF TpAddTask, Signal
    <3>2. QED
      BY <2>1, <2>2, <3>1 DEF At, Waiting
  <2>3. CASE Waiting # {}
    <3>1. PICK w \in Waiting : pc' = [pc EXCEPT ![w] = "woken"]
      BY <1>3, <2>3 DEF TpAddTask, Signal
    <3>2. w \in Workers /\ pc[w] = "waiting"
      BY DEF Waiting, At
    <3>3. Cardinality(At(Alive)') = Cardinality(At(Alive))
      <4>1. Cardinality(At(Alive)) \in Nat
        BY AtCount
      <4>2. QED
        BY <3>1, <3>2, <4>1, AtMove, Positions DEF WeakType
    <3>4. Cardinality(At(Fetching)') = Cardinality(At(Fetching)) + 1
      BY <3>1, <3>2, AtMove, Positions DEF WeakType
    <3>5. Cardinality(At(Fetching)) \in Nat
      BY AtCount
    <3>6. QED
      BY <2>1, <2>3, <3>3, <3>4, <3>5 DEF Fetching
  <2>4. QED
    BY <2>2, <2>3
<1>4. CASE Broadcast
  <2>1. /\ main = "poll" /\ main' = "sleep"
        /\ curThreads' = curThreads
    BY <1>4 DEF Broadcast
  <2>2. At(Alive)' = At(Alive) /\ Waiting' = {}
    BY <1>4 DEF Broadcast, WokenByBroadcast, Waiting, At, Alive, WeakType
  <2>3. QED
    BY <2>1, <2>2
<1>5. CASE UNCHANGED <<pc, tqHead, curThreads>> /\ main # "count" /\ main' # "count"
  BY <1>5 DEF At, Waiting
<1>6. QED
  BY <1>1, <1>2, <1>3, <1>4, <1>5
  DEF Main, CreateFails, ReqReceive, DropRequest, FreeHeld, FpgaStopped,
      LeaveLoop, TpAddTaskRefuses, SetExit, SleepOver, Join

LEMMA WorkerCounts ==
  ASSUME WeakType, Phase, ThreadAccounting, NoLostWakeup,
         NEW w \in Workers, Worker(w)
  PROVE  ThreadAccounting' /\ NoLostWakeup'
<1> DEFINE alive == Cardinality(At(Alive))
           fetching == Cardinality(At(Fetching))
<1>1. /\ alive \in Nat /\ fetching \in Nat
      /\ Len(tqHead) \in Nat
      /\ tqHead = <<>> => Len(tqHead) = 0
      /\ Cardinality(At(Alive)') \in Nat
      /\ Cardinality(At(Fetching)') \in Nat
  <2>1. alive \in Nat /\ fetching \in Nat
    BY AtCount
  <2>2. Cardinality(At(Alive)') \in Nat /\ Cardinality(At(Fetching)') \in Nat
    <3>1. IsFiniteSet(Workers)
      BY FS_Interval DEF Workers
    <3>2. At(Alive)' \in SUBSET Workers /\ At(Fetching)' \in SUBSET Workers
      BY DEF At
    <3>3. QED
      BY <3>1, <3>2, FS_Subset, FS_CardinalityType
  <2>3. Len(tqHead) \in Nat
    BY LenProperties DEF WeakType
  <2>4. tqHead = <<>> => Len(tqHead) = 0
    BY EmptySeq
  <2>5. QED
    BY <2>1, <2>2, <2>3, <2>4
<1>2. ASSUME NEW p \in WorkerStates, pc' = [pc EXCEPT ![w] = p]
      PROVE  /\ p \in Alive /\ pc[w] \in Alive
                  => Cardinality(At(Alive)') = alive
             /\ p \notin Alive /\ pc[w] \in Alive
                  => Cardinality(At(Alive)') = alive - 1
             /\ p \notin Alive /\ pc[w] \notin Alive
                  => Cardinality(At(Alive)') = alive
             /\ p \in Fetching /\ pc[w] \notin Fetching
                  => Cardinality(At(Fetching)') = fetching + 1
             /\ p \notin Fetching /\ pc[w] \in Fetching
                  => Cardinality(At(Fetching)') = fetching - 1
             /\ p \notin Fetching /\ pc[w] \notin Fetching
                  => Cardinality(At(Fetching)') = fetching
             /\ p # "waiting" => Waiting' \subseteq Waiting
  <2>1. Waiting' = {v \in Workers : IF v = w THEN p = "waiting"
                                             ELSE pc[v] = "waiting"}
    BY <1>2 DEF WeakType, Waiting, At
  <2>2. p # "waiting" => Waiting' \subseteq Waiting
    BY <2>1 DEF Waiting, At
  <2>3. QED
    BY <1>2, <2>2, AtMove DEF WeakType
<1>3. CASE WorkerLeaves(w)
  <2>1. pc' = [pc EXCEPT ![w] = "exiting"] /\ "exiting" \in WorkerStates
    BY <1>3 DEF WorkerLeaves, WorkerStates
  <2>2. Cardinality(At(Alive)') = alive - 1
    BY <1>1, <1>2, <1>3, <2>1, Positions DEF WorkerLeaves
  <2>3. ThreadAccounting'
    BY <1>1, <1>3, <2>2 DEF WorkerLeaves, ThreadAccounting, WeakType
  <2>4. NoLostWakeup'
    BY <1>1, <1>3 DEF WorkerLeaves, MayLeave, NoLostWakeup, Fetching
  <2>5. QED
    BY <2>3, <2>4
<1>4. CASE CondWait(w)
  <2>1. pc' = [pc EXCEPT ![w] = "waiting"] /\ "waiting" \in WorkerStates
    BY <1>4 DEF CondWait, WorkerStates
  <2>2. Cardinality(At(Alive)') = alive
    BY <1>1, <1>2, <1>4, <2>1, Positions DEF CondWait
  <2>3. ThreadAccounting'
    BY <1>4, <2>2 DEF CondWait, ThreadAccounting
  <2>4. NoLostWakeup'
    BY <1>1, <1>4 DEF CondWait, NoLostWakeup, Fetching
  <2>5. QED
    BY <2>3, <2>4
<1>5. CASE SpuriousWakeup(w)
  <2>1. pc' = [pc EXCEPT ![w] = "woken"] /\ "woken" \in WorkerStates
    BY <1>5 DEF SpuriousWakeup, WorkerStates
  <2>2. /\ Cardinality(At(Alive)') = alive
        /\ Cardinality(At(Fetching)') = fetching + 1
        /\ Waiting' \subseteq Waiting
    BY <1>1, <1>2, <1>5, <2>1, Positions DEF SpuriousWakeup
  <2>3. UNCHANGED <<main, curThreads, tqHead>>
    BY <1>5 DEF SpuriousWakeup
  <2>4. QED
    BY <1>1, <2>2, <2>3 DEF ThreadAccounting, NoLostWakeup, Fetching
<1>6. CASE TakeTask(w)
  <2>1. pc' = [pc EXCEPT ![w] = "run"] /\ "run" \in WorkerStates
    BY <1>6 DEF TakeTask, WorkerStates
  <2>2. /\ Cardinality(At(Alive)') = alive
        /\ Cardinality(At(Fetching)') = fetching - 1
        /\ Waiting' \subseteq Waiting
    BY <1>1, <1>2, <1>6, <2>1, Positions DEF TakeTask
  <2>3. Len(tqHead') = Len(tqHead) - 1
    BY <1>6, HeadTailProperties DEF TakeTask, RemainingTasks, WeakType
  <2>4. UNCHANGED <<main, curThreads>>
    BY <1>6 DEF TakeTask
  <2>5. QED
    BY <1>1, <2>2, <2>3, <2>4 DEF ThreadAccounting, NoLostWakeup, Fetching
<1>7. CASE FinishTask(w)
  <2>1. pc' = [pc EXCEPT ![w] = "ready"] /\ "ready" \in WorkerStates
    BY <1>7 DEF FinishTask, WorkerStates
  <2>2. /\ Cardinality(At(Alive)') = alive
        /\ Cardinality(At(Fetching)') = fetching + 1
        /\ Waiting' \subseteq Waiting
    BY <1>1, <1>2, <1>7, <2>1, Positions DEF FinishTask
  <2>3. UNCHANGED <<main, curThreads, tqHead>>
    BY <1>7 DEF FinishTask
  <2>4. QED
    BY <1>1, <2>2, <2>3 DEF ThreadAccounting, NoLostWakeup, Fetching
<1>8. CASE PthreadExit(w)
  <2>1. pc' = [pc EXCEPT ![w] = "exited"] /\ "exited" \in WorkerStates
    BY <1>8 DEF PthreadExit, WorkerStates
  <2>2. /\ Cardinality(At(Alive)') = alive
        /\ Cardinality(At(Fetching)') = fetching
        /\ Waiting' \subseteq Waiting
    BY <1>1, <1>2, <1>8, <2>1, Positions DEF PthreadExit
  <2>3. UNCHANGED <<main, curThreads, tqHead>>
    BY <1>8 DEF PthreadExit
  <2>4. QED
    BY <1>1, <2>2, <2>3 DEF ThreadAccounting, NoLostWakeup, Fetching
<1>9. QED
  BY <1>3, <1>4, <1>5, <1>6, <1>7, <1>8 DEF Worker

(* curThreads is the number of workers that have not left, and no worker   *)
(* sleeps while a queued request has nobody on the way to it.              *)
THEOREM CountsHold == Spec => [](ThreadAccounting /\ NoLostWakeup)
<1>1. ASSUME WeakType, Phase, ThreadAccounting, NoLostWakeup, [Next]_vars
      PROVE  ThreadAccounting' /\ NoLostWakeup'
  <2>1. CASE Main
    BY <1>1, <2>1, MainCounts
  <2>2. ASSUME NEW w \in Workers, Worker(w)
        PROVE  ThreadAccounting' /\ NoLostWakeup'
    BY <1>1, <2>2, WorkerCounts
  <2>3. CASE UNCHANGED vars
    BY <1>1, <2>3 DEF vars, ThreadAccounting, NoLostWakeup, At, Waiting
  <2>4. QED
    BY <1>1, <2>1, <2>2, <2>3 DEF Next, Terminated
<1>2. WeakType /\ Phase /\ ThreadAccounting /\ NoLostWakeup /\ [Next]_vars
        => ThreadAccounting' /\ NoLostWakeup'
  BY <1>1
<1>3. QED
  BY InitCounts, WeakTypeHolds, <1>2, PTL DEF Spec

-----------------------------------------------------------------------------
(***************************************************************************)
(* The shutdown: what tpDestroy knows of the workers without looking.      *)
(***************************************************************************)
ClosingInv ==
  /\ tmp \in 0..Threads
  /\ num \in 0..Threads
  /\ main \in Closing => num = Threads
  /\ main = "sleep" /\ tmp = 0 => \A w \in Workers : pc[w] \in Leaving
  /\ main \in {"join", "closed"} => \A w \in Workers : pc[w] \in Leaving
  /\ main = "closed" => \A w \in Workers : pc[w] = "exited"

(* curThreads is zero only when every worker has left, and it is the       *)
(* number of workers when tpDestroy begins.                                *)
LEMMA CountMeaning ==
  ASSUME WeakType, Phase, ThreadAccounting
  PROVE  /\ curThreads \in 0..Threads
         /\ main = "poll" /\ curThreads = 0
              => \A w \in Workers : pc[w] \in Leaving
         /\ main = "destroy" => curThreads = Threads
<1>1. /\ Cardinality(At(Alive)) \in 0..Threads
      /\ IsFiniteSet(At(Alive))
      /\ At(Alive) = Workers => Cardinality(At(Alive)) = Threads
  BY AtCount
<1>2. Cardinality(At(Alive)) = 0 => At(Alive) = {}
  BY <1>1, FS_EmptySet
<1>3. curThreads \in 0..Threads
  <2>1. CASE main = "count"
    <3>1. created \in Workers /\ pc[created] \in Alive
      BY <2>1 DEF WeakType, Phase, Workers, Alive, WorkerStates, Leaving, Closing
    <3>2. At(Alive) # {}
      BY <3>1 DEF At
    <3>3. Cardinality(At(Alive)) # 0
      BY <1>2, <3>2
    <3>4. QED
      BY <1>1, <2>1, <3>3 DEF ThreadAccounting
  <2>2. CASE main # "count"
    BY <1>1, <2>2 DEF ThreadAccounting
  <2>3. QED
    BY <2>1, <2>2
<1>4. ASSUME main = "poll", curThreads = 0, NEW w \in Workers
      PROVE  pc[w] \in Leaving
  <2>1. At(Alive) = {}
    BY <1>1, <1>2, <1>4 DEF ThreadAccounting
  <2>2. pc[w] \notin Alive
    BY <2>1 DEF At
  <2>3. pc[w] # "none"
    BY <1>4 DEF Phase, WeakType, Workers
  <2>4. QED
    BY <2>2, <2>3 DEF WeakType, WorkerStates, Alive, Leaving
<1>5. ASSUME main = "destroy" PROVE curThreads = Threads
  <2>1. \A w \in Workers : pc[w] \notin Leaving /\ pc[w] # "none"
    BY <1>5 DEF Phase, WeakType, Workers, Closing
  <2>2. At(Alive) = Workers
    BY <2>1 DEF WeakType, WorkerStates, Alive, Leaving, At
  <2>3. QED
    BY <1>1, <1>5, <2>2 DEF ThreadAccounting
<1>6. QED
  BY <1>3, <1>4, <1>5

LEMMA InitClosing == Init => ClosingInv
BY DEF Init, ClosingInv, Closing

LEMMA NextClosing ==
  ASSUME WeakType, Phase, ThreadAccounting, ClosingInv, [Next]_vars
  PROVE  ClosingInv'
<1> USE DEF ClosingInv, Closing
<1>1. ASSUME Main PROVE ClosingInv'
  <2>1. CASE SetExit
    BY <2>1, CountMeaning DEF SetExit
  <2>2. CASE Broadcast
    <3>1. curThreads = 0 => \A w \in Workers : pc[w] \in Leaving
      BY <2>2, CountMeaning DEF Broadcast
    <3>2. ASSUME curThreads = 0, NEW w \in Workers PROVE pc'[w] \in Leaving
      BY <2>2, <3>1, <3>2
      DEF Broadcast, WokenByBroadcast, Waiting, At, Leaving
    <3>3. tmp' = curThreads /\ main' = "sleep" /\ num' = num /\ main = "poll"
      BY <2>2 DEF Broadcast
    <3>4. QED
      BY <3>2, <3>3, CountMeaning
  <2>3. CASE SleepOver
    BY <2>3 DEF SleepOver
  <2>4. CASE Join
    BY <2>4 DEF Join, Workers
  <2>5. CASE /\ UNCHANGED <<tmp, num>>
             /\ main' \in {"count", "failed", "loop", "create", "got", "destroy"}
    BY <2>5
  <2>6. QED
    BY <1>1, <2>1, <2>2, <2>3, <2>4, <2>5
    DEF Main, CreateThread, CreateFails, CountThread, ReqReceive, DropRequest,
        FreeHeld, FpgaStopped, LeaveLoop, TpAddTaskRefuses, TpAddTask
<1>2. ASSUME NEW w \in Workers, Worker(w) PROVE ClosingInv'
  <2>1. UNCHANGED <<main, tmp, num>>
    BY <1>2 DEF Worker, WorkerLeaves, CondWait, SpuriousWakeup, TakeTask,
                FinishTask, PthreadExit
  <2>2. \A v \in Workers : pc[v] \in Leaving => pc'[v] \in Leaving
    BY <1>2 DEF Worker, WorkerLeaves, CondWait, SpuriousWakeup, TakeTask,
                FinishTask, PthreadExit, Leaving, WeakType
  <2>3. \A v \in Workers : pc[v] = "exited" => pc'[v] = "exited"
    BY <1>2 DEF Worker, WorkerLeaves, CondWait, SpuriousWakeup, TakeTask,
                FinishTask, PthreadExit, WeakType
  <2>4. QED
    BY <2>1, <2>2, <2>3
<1>3. ASSUME UNCHANGED vars PROVE ClosingInv'
  BY <1>3 DEF vars
<1>4. QED
  BY <1>1, <1>2, <1>3 DEF Next, Terminated

(* What bExit and the copies tpDestroy takes mean on the way to its end.   *)
THEOREM ClosingHolds == Spec => []ClosingInv
<1>1. WeakType /\ Phase /\ ThreadAccounting /\ ClosingInv /\ [Next]_vars
        => ClosingInv'
  BY NextClosing
<1>2. QED
  BY InitClosing, WeakTypeHolds, CountsHold, <1>1, PTL DEF Spec

-----------------------------------------------------------------------------
(* Type correctness, the bounds of the counters of the pool included:      *)
(* curTasks stays within the capacity and curThreads, which is decremented *)
(* by the workers and read by tpDestroy, within the number of workers.     *)
THEOREM TypeCorrect == Spec => []TypeOK
<1>1. ASSUME WeakType, Phase, Ownership, QueueAccounting, ThreadAccounting,
             ClosingInv
      PROVE  TypeOK
  <2>1. frees \in [Requests -> 0..1]
    BY <1>1 DEF WeakType, Ownership
  <2>2. curTasks \in 0..MaxTasks
    BY <1>1, LenProperties DEF WeakType, QueueAccounting
  <2>3. curThreads \in 0..Threads
    BY <1>1, CountMeaning
  <2>4. QED
    BY <1>1, <2>1, <2>2, <2>3 DEF TypeOK, WeakType, ClosingInv
<1>2. WeakType /\ Phase /\ Ownership /\ QueueAccounting /\ ThreadAccounting
        /\ ClosingInv => TypeOK
  BY <1>1
<1>3. QED
  BY WeakTypeHolds, OwnershipHolds, CountsHold, ClosingHolds, <1>2, PTL

(* tpDestroy comes back only to an empty pool: every worker has exited and *)
(* every request it ever accepted was served.                              *)
THEOREM DrainedHolds == Spec => []DrainedWhenClosed
<1>1. ASSUME WeakType, Phase, Ownership, ClosingInv, main = "closed"
      PROVE  /\ \A w \in Workers : pc[w] = "exited"
             /\ tqHead = <<>>
             /\ \A r \in Requests : req[r] \in {"new", "done", "dropped", "leaked"}
  <2>1. \A w \in Workers : pc[w] = "exited"
    BY <1>1 DEF ClosingInv
  <2>2. 1 \in Workers
    BY DEF Workers
  <2>3. tqHead = <<>>
    BY <1>1, <2>1, <2>2 DEF Phase, Leaving
  <2>4. ASSUME NEW r \in Requests
        PROVE  req[r] \notin {"queued", "running", "held"}
    <3>1. req[r] # "queued"
      <4>1. Len(tqHead) = 0
        BY <2>3, EmptySeq
      <4>2. QED
        BY <1>1, <4>1 DEF Ownership
    <3>2. req[r] # "running"
      <4>1. \A w \in Workers : task[w] = NoTask
        BY <1>1, <2>1 DEF Ownership
      <4>2. r # NoTask
        BY DEF Requests, NoTask
      <4>3. QED
        BY <1>1, <4>1, <4>2 DEF Ownership
    <3>3. req[r] # "held"
      BY <1>1 DEF Ownership
    <3>4. QED
      BY <3>1, <3>2, <3>3
  <2>5. QED
    BY <1>1, <2>1, <2>3, <2>4 DEF WeakType, ReqStates
<1>2. WeakType /\ Phase /\ Ownership /\ ClosingInv => DrainedWhenClosed
  BY <1>1 DEF DrainedWhenClosed
<1>3. QED
  BY WeakTypeHolds, OwnershipHolds, ClosingHolds, <1>2, PTL

-----------------------------------------------------------------------------
(***************************************************************************)
(* The refinement: every step of the pool is a step of TaskService or      *)
(* leaves the service as it is.                                            *)
(***************************************************************************)

Statuses == [r \in Requests |-> AbsStatus(req[r])]

(* The abstract status tells the states of a request apart as it should.   *)
LEMMA AbsStatusOf ==
  ASSUME NEW s \in ReqStates
  PROVE  /\ AbsStatus(s) = "new" <=> s \in {"new", "held"}
         /\ AbsStatus(s) = "pending" <=> s = "queued"
         /\ AbsStatus(s) = "serving" <=> s = "running"
         /\ AbsStatus(s) = "served" <=> s = "done"
         /\ AbsStatus(s) = "refused" <=> s \in {"dropped", "leaked"}
BY DEF AbsStatus, ReqStates

(* One request changes hands, or only the main thread's copy of it does.   *)
LEMMA StatusMove ==
  ASSUME WeakType, NEW x \in Requests, NEW s \in ReqStates,
         req' = [req EXCEPT ![x] = s]
  PROVE  /\ Statuses' = [Statuses EXCEPT ![x] = AbsStatus(s)]
         /\ AbsStatus(s) = AbsStatus(req[x]) => Statuses' = Statuses
<1>1. req \in [Requests -> ReqStates] BY DEF WeakType
<1>2. \A r \in Requests : req'[r] = IF r = x THEN s ELSE req[r]
  BY <1>1
<1>3. \A r \in Requests :
        AbsStatus(req[r])' = IF r = x THEN AbsStatus(s) ELSE AbsStatus(req[r])
  BY <1>2
<1>. QED
  BY <1>3 DEF Statuses

(* The count of TaskService is the one of this module.                     *)
LEMMA SameCardinality ==
  ASSUME NEW S PROVE Service!Cardinality(S) = Cardinality(S)
BY DEF Service!Cardinality, Cardinality

(* What is pending is what is queued, and no more than curTasks counts.    *)
LEMMA PendingIsQueued ==
  ASSUME WeakType, Ownership, QueueAccounting
  PROVE  /\ Service!In("pending") = {tqHead[i] : i \in 1..Len(tqHead)}
         /\ Cardinality(Service!In("pending")) <= curTasks
<1>1. /\ req \in [Requests -> ReqStates]
      /\ tqHead \in Seq(Requests)
  BY DEF WeakType
<1>2. Service!In("pending") = {r \in Requests : req[r] = "queued"}
  BY <1>1, AbsStatusOf DEF Service!In
<1>3. \A r \in Requests : req[r] = "queued" <=> \E i \in 1..Len(tqHead) : tqHead[i] = r
  BY DEF Ownership
<1>4. \A i \in 1..Len(tqHead) : tqHead[i] \in Requests
  BY <1>1
<1>5. Service!In("pending") = {tqHead[i] : i \in 1..Len(tqHead)}
  BY <1>2, <1>3, <1>4
<1>6. /\ IsFiniteSet(1..Len(tqHead))
      /\ Cardinality(1..Len(tqHead)) = Len(tqHead)
  <2>1. Len(tqHead) \in Nat BY <1>1
  <2>. QED
    BY <2>1, FS_Interval, 0 + 1 = 1, SMTT(30)
<1>7. [i \in 1..Len(tqHead) |-> tqHead[i]]
        \in Surjection(1..Len(tqHead), Service!In("pending"))
  BY <1>5 DEF Surjection
<1>8. Cardinality(Service!In("pending")) <= Len(tqHead)
  BY <1>6, <1>7, FS_Surjection
<1>. QED
  BY <1>5, <1>8 DEF QueueAccounting

(* What is being served is what some worker holds, so a worker that holds  *)
(* nothing leaves room for one more.                                       *)
LEMMA RoomToServe ==
  ASSUME WeakType, Ownership, NEW w \in Workers, task[w] = NoTask
  PROVE  Cardinality(Service!In("serving")) < Threads
<1>. DEFINE others == Workers \ {w}
            busy   == {v \in others : task[v] # NoTask}
            held   == [v \in busy |-> task[v]]
            serving == Service!In("serving")
<1>1. /\ req \in [Requests -> ReqStates]
      /\ task \in [Workers -> Requests \cup {NoTask}]
  BY DEF WeakType
<1>2. serving = {r \in Requests : req[r] = "running"}
  BY <1>1, AbsStatusOf DEF Service!In
<1>3. \A r \in Requests : req[r] = "running" <=> \E v \in Workers : task[v] = r
  BY DEF Ownership
<1>4. \A r \in Requests : r # NoTask
  BY DEF Requests, NoTask
<1>5. held \in Surjection(busy, serving)
  <2>1. \A v \in busy : task[v] \in serving
    BY <1>1, <1>2, <1>3
  <2>2. \A r \in serving : \E v \in busy : task[v] = r
    BY <1>2, <1>3, <1>4
  <2>. QED
    BY <2>1, <2>2 DEF Surjection
<1>6. /\ IsFiniteSet(Workers)
      /\ Cardinality(Workers) = Threads
  BY FS_Interval DEF Workers
<1>7. /\ IsFiniteSet(others)
      /\ Cardinality(others) = Threads - 1
  BY <1>6, FS_RemoveElement
<1>8. /\ IsFiniteSet(busy)
      /\ Cardinality(busy) <= Threads - 1
  BY <1>7, FS_Subset, busy \in SUBSET others
<1>9. /\ IsFiniteSet(serving)
      /\ Cardinality(serving) <= Cardinality(busy)
  BY <1>5, <1>8, FS_Surjection
<1>10. Cardinality(busy) \in Nat /\ Cardinality(serving) \in Nat
  BY <1>8, <1>9, FS_CardinalityType
<1>. HIDE DEF serving, busy, others
<1>11. Cardinality(serving) < Threads
  BY <1>8, <1>9, <1>10
<1>. QED
  BY <1>11 DEF serving

(* The steps that hand a request on, each as the step of the service it is. *)
LEMMA AddIsAccept ==
  ASSUME WeakType, Phase, Ownership, QueueAccounting, TpAddTask
  PROVE  Service!Accept(arrived)
<1>1. /\ main = "got" /\ main' = "loop" /\ HasRoom
      /\ req' = [req EXCEPT ![arrived] = "queued"]
  BY DEF TpAddTask
<1>2. arrived \in Requests
  BY <1>1 DEF WeakType, Phase, Requests
<1>3. req \in [Requests -> ReqStates] /\ req[arrived] = "held"
  BY <1>1, <1>2 DEF WeakType, Ownership
<1>4. Statuses' = [Statuses EXCEPT ![arrived] = "pending"]
  BY <1>1, <1>2, StatusMove, AbsStatusOf, "queued" \in ReqStates DEF ReqStates
<1>5. Statuses[arrived] = "new"
  BY <1>2, <1>3, AbsStatusOf, "held" \in ReqStates DEF ReqStates, Statuses
<1>6. Cardinality(Service!In("pending")) < MaxTasks
  <2>1. Cardinality(Service!In("pending")) <= curTasks /\ curTasks < MaxTasks
    BY <1>1, PendingIsQueued DEF HasRoom
  <2>2. curTasks \in Int
    BY DEF WeakType
  <2>3. Cardinality(Service!In("pending")) \in Nat
    <3>1. Service!In("pending") \in SUBSET Requests
      BY DEF Service!In
    <3>2. IsFiniteSet(Requests)
      BY FS_Interval DEF Requests
    <3>. QED
      BY <3>1, <3>2, FS_Subset, FS_CardinalityType
  <2>. QED
    BY <2>1, <2>2, <2>3
<1>. QED
  BY <1>1, <1>4, <1>5, <1>6, SameCardinality DEF Service!Accept, Statuses

(* Dropping, refusing or leaking the request in hand.                      *)
LEMMA HeldIsRefused ==
  ASSUME WeakType, Phase, Ownership, main = "got", main' # "closed",
         NEW s \in {"dropped", "leaked"},
         req' = [req EXCEPT ![arrived] = s]
  PROVE  \E r \in Requests : Service!Refuse(r)
<1>1. arrived \in Requests
  BY DEF WeakType, Phase, Requests
<1>2. req \in [Requests -> ReqStates] /\ req[arrived] = "held"
  BY <1>1 DEF WeakType, Ownership
<1>3. Statuses' = [Statuses EXCEPT ![arrived] = "refused"]
  <2>1. s \in ReqStates
    BY DEF ReqStates
  <2>2. AbsStatus(s) = "refused"
    BY <2>1, AbsStatusOf
  <2>. QED
    BY <1>1, <2>1, <2>2, StatusMove
<1>4. Statuses[arrived] = "new"
  BY <1>1, <1>2, AbsStatusOf, "held" \in ReqStates DEF ReqStates, Statuses
<1>. QED
  BY <1>1, <1>3, <1>4 DEF Service!Refuse, Statuses

LEMMA TakeIsBegin ==
  ASSUME WeakType, Phase, Ownership, QueueAccounting,
         NEW w \in Workers, TakeTask(w)
  PROVE  \E r \in Requests : Service!Begin(r)
<1>. DEFINE r == Head(tqHead)
<1>1. /\ pc[w] \in {"ready", "woken"}
      /\ tqHead # <<>>
      /\ req' = [req EXCEPT ![r] = "running"]
      /\ main' = main
  BY DEF TakeTask, FirstTask
<1>2. /\ req \in [Requests -> ReqStates]
      /\ tqHead \in Seq(Requests)
  BY DEF WeakType
<1>3. /\ Len(tqHead) \in Nat
      /\ 1 \in 1..Len(tqHead)
      /\ r = tqHead[1]
      /\ r \in Requests
  BY <1>1, <1>2
<1>4. req[r] = "queued"
  BY <1>3 DEF Ownership
<1>5. Statuses' = [Statuses EXCEPT ![r] = "serving"]
  BY <1>1, <1>3, StatusMove, AbsStatusOf, "running" \in ReqStates DEF ReqStates
<1>6. Statuses[r] = "pending"
  BY <1>3, <1>4, AbsStatusOf, "queued" \in ReqStates DEF ReqStates, Statuses
<1>7. ASSUME NEW q \in Service!In("pending") PROVE r <= q
  <2>1. PICK i \in 1..Len(tqHead) : q = tqHead[i]
    BY PendingIsQueued
  <2>2. tqHead[i] \in Nat /\ tqHead[1] \in Nat
    BY <1>2, <1>3 DEF Requests
  <2>3. CASE i = 1
    BY <1>3, <2>1, <2>2, <2>3
  <2>4. CASE 1 < i
    <3>1. tqHead[1] < tqHead[i]
      BY <1>3, <2>1, <2>4 DEF QueueAccounting
    <3>. QED
      BY <1>3, <2>1, <2>2, <3>1
  <2>. QED
    BY <1>3, <2>1, <2>3, <2>4
<1>8. task[w] = NoTask
  BY <1>1 DEF Ownership
<1>9. Cardinality(Service!In("serving")) < Threads
  BY <1>8, RoomToServe
<1>. HIDE DEF r
<1>10. Service!Begin(r)
  BY <1>1, <1>5, <1>6, <1>7, <1>9, SameCardinality
     DEF Service!Begin, Statuses
<1>. QED
  BY <1>3, <1>10

LEMMA FinishIsComplete ==
  ASSUME WeakType, Phase, Ownership, NEW w \in Workers, FinishTask(w)
  PROVE  \E r \in Requests : Service!Complete(r)
<1>1. /\ pc[w] = "run" /\ main' = main
      /\ req' = [req EXCEPT ![task[w]] = "done"]
  BY DEF FinishTask
<1>2. task[w] # NoTask
  BY <1>1 DEF Ownership
<1>3. task[w] \in Requests
  BY <1>2 DEF WeakType
<1>4. req[task[w]] = "running"
  BY <1>3 DEF Ownership
<1>5. Statuses' = [Statuses EXCEPT ![task[w]] = "served"]
  BY <1>1, <1>3, StatusMove, AbsStatusOf, "done" \in ReqStates DEF ReqStates
<1>6. Statuses[task[w]] = "serving"
  BY <1>3, <1>4, AbsStatusOf, "running" \in ReqStates DEF ReqStates, Statuses
<1>7. Service!Complete(task[w])
  BY <1>1, <1>5, <1>6 DEF Service!Complete, Statuses
<1>. QED
  BY <1>3, <1>7

(* tpDestroy is through: nothing accepted is left.                         *)
LEMMA JoinIsClose ==
  ASSUME WeakType, DrainedWhenClosed', Join
  PROVE  Service!Close
<1>1. main = "join" /\ main' = "closed" /\ req' = req
  BY DEF Join
<1>2. \A r \in Requests : req[r] \in {"new", "done", "dropped", "leaked"}
  BY <1>1 DEF DrainedWhenClosed
<1>3. Service!In("pending") = {} /\ Service!In("serving") = {}
  BY <1>2 DEF Service!In, AbsStatus
<1>4. Statuses' = Statuses
  BY <1>1 DEF Statuses
<1>. QED
  BY <1>1, <1>3, <1>4 DEF Service!Close, Statuses

LEMMA InitIsServiceInit == Init => Service!TSInit
<1>. SUFFICES ASSUME Init PROVE Service!TSInit
  OBVIOUS
<1>1. main # "closed"
  BY DEF Init
<1>2. \A r \in Requests : AbsStatus(req[r]) = "new"
  BY DEF Init, AbsStatus
<1>. QED
  BY <1>1, <1>2 DEF Service!TSInit

LEMMA StepIsService ==
  ASSUME WeakType, Phase, Ownership, QueueAccounting, DrainedWhenClosed',
         [Next]_vars
  PROVE  [Service!TSNext]_(Service!tsVars)
<1>a. (main' # "closed") = (main # "closed") /\ Statuses' = Statuses
        => UNCHANGED Service!tsVars
  BY DEF Service!tsVars, Statuses
<1>b. req' = req => Statuses' = Statuses
  BY DEF Statuses
<1>1. CASE CreateThread
  BY <1>a, <1>b, <1>1 DEF CreateThread
<1>2. CASE CreateFails
  BY <1>a, <1>b, <1>2 DEF CreateFails
<1>3. CASE CountThread
  BY <1>a, <1>b, <1>3 DEF CountThread
<1>4. CASE ReqReceive
  <2>1. /\ main = "loop" /\ main' = "got"
        /\ arrived + 1 \in Requests
        /\ req' = [req EXCEPT ![arrived + 1] = "held"]
    BY <1>4 DEF ReqReceive, WeakType, Requests
  <2>2. req[arrived + 1] = "new"
    BY <2>1 DEF Ownership, WeakType
  <2>3. AbsStatus("held") = AbsStatus("new")
    BY DEF AbsStatus
  <2>4. Statuses' = Statuses
    BY <2>1, <2>2, <2>3, StatusMove, "held" \in ReqStates DEF ReqStates
  <2>. QED
    BY <1>a, <2>1, <2>4
<1>5. CASE DropRequest \/ \E noMemory \in BOOLEAN : TpAddTaskRefuses(noMemory)
  <2>1. /\ main = "got" /\ main' = "loop"
        /\ req' = [req EXCEPT ![arrived] = "dropped"]
    BY <1>5 DEF DropRequest, TpAddTaskRefuses, FreeHeld
  <2>2. \E r \in Requests : Service!Refuse(r)
    BY <2>1, HeldIsRefused
  <2>. QED
    BY <2>2 DEF Service!TSNext
<1>6. CASE FpgaStopped
  <2>1. /\ main = "got" /\ main' = "destroy"
        /\ req' = [req EXCEPT ![arrived] = "leaked"]
    BY <1>6 DEF FpgaStopped
  <2>2. \E r \in Requests : Service!Refuse(r)
    BY <2>1, HeldIsRefused
  <2>. QED
    BY <2>2 DEF Service!TSNext
<1>7. CASE LeaveLoop
  BY <1>a, <1>b, <1>7 DEF LeaveLoop
<1>8. CASE TpAddTask
  <2>1. arrived \in Requests
    BY <1>8 DEF TpAddTask, WeakType, Phase, Requests
  <2>. QED
    BY <1>8, <2>1, AddIsAccept DEF Service!TSNext
<1>9. CASE SetExit
  BY <1>a, <1>b, <1>9 DEF SetExit
<1>10. CASE Broadcast
  BY <1>a, <1>b, <1>10 DEF Broadcast
<1>11. CASE SleepOver
  BY <1>a, <1>b, <1>11 DEF SleepOver
<1>12. CASE Join
  BY <1>12, JoinIsClose DEF Service!TSNext
<1>13. ASSUME NEW w \in Workers, Worker(w)
       PROVE  [Service!TSNext]_(Service!tsVars)
  <2>1. CASE TakeTask(w)
    BY <2>1, TakeIsBegin DEF Service!TSNext
  <2>2. CASE FinishTask(w)
    BY <2>2, FinishIsComplete DEF Service!TSNext
  <2>3. CASE WorkerLeaves(w) \/ CondWait(w) \/ SpuriousWakeup(w)
             \/ PthreadExit(w)
    <3>1. main' = main /\ req' = req
      BY <2>3 DEF WorkerLeaves, CondWait, SpuriousWakeup, PthreadExit
    <3>. QED
      BY <1>a, <1>b, <3>1
  <2>. QED
    BY <1>13, <2>1, <2>2, <2>3 DEF Worker
<1>14. CASE UNCHANGED vars
  BY <1>a, <1>b, <1>14 DEF vars
<1>. QED
  BY <1>1, <1>2, <1>3, <1>4, <1>5, <1>6, <1>7, <1>8, <1>9, <1>10, <1>11,
     <1>12, <1>13, <1>14 DEF Next, Main, Terminated

(* The pool, its threads and their shutdown implement TaskService: a       *)
(* bounded backlog served in order of arrival by a bounded number of       *)
(* servers, each request once, and closed only when nothing accepted is    *)
(* left.                                                                   *)
THEOREM ImplementsServiceHolds == Spec => ImplementsService
<1>1. Init => Service!TSInit
  BY InitIsServiceInit
<1>2. WeakType /\ Phase /\ Ownership /\ QueueAccounting
        /\ DrainedWhenClosed' /\ [Next]_vars
        => [Service!TSNext]_(Service!tsVars)
  BY StepIsService
<1>. QED
  BY <1>1, <1>2, WeakTypeHolds, OwnershipHolds, DrainedHolds, PTL
     DEF Spec, ImplementsService, Service!TSSpec
===============================================================================
