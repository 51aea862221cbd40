------------------------------ MODULE Supervisor ------------------------------
(***************************************************************************)
(* The manager daemon as the parent of the others: procStart, procRestart, *)
(* procStop and the main loop of src/d-manager/dmgr_manager.c, the SIGCHLD *)
(* handler of dmgr_alloc.c and system_run of src/lib/lib_system.c.         *)
(*                                                                         *)
(* The handler interrupts the main flow at any point.  What matters is     *)
(* that system_run returns the pid of a child and the caller stores it in  *)
(* pid[] in a later step, so that the child may have died, and may have    *)
(* been reaped by the handler, in between.  The kernel hands out pids that *)
(* are free, those of reaped children included.                            *)
(***************************************************************************)
EXTENDS Naturals, Sequences, FiniteSets

CONSTANTS
  Daemons,       (* the daemons the manager starts                            *)
  StartOrder,    (* the order of procStart, each daemon once                  *)
  RestartOrder,  (* the order of procRestart, which leaves p350_http out      *)
  Killall,       (* the daemons procStop kills by name (p350_http)            *)
  NoDaemon,
  Pids,          (* the pids the kernel hands out                             *)
  MaxFail,       (* bound: how often fork() fails                             *)
  MaxDeaths      (* bound: how many children die on their own                 *)

ASSUME SupervisorAssumption ==
  /\ StartOrder \in Seq(Daemons)
  /\ RestartOrder \in Seq(Daemons)
  /\ \A i, j \in 1..Len(StartOrder) : StartOrder[i] = StartOrder[j] => i = j
  /\ \A i, j \in 1..Len(RestartOrder) : RestartOrder[i] = RestartOrder[j] => i = j
  /\ Killall \subseteq Daemons
  /\ NoDaemon \notin Daemons
  /\ Pids \subseteq Nat \ {0}
  /\ MaxFail \in Nat
  /\ MaxDeaths \in Nat

VARIABLES
  main,         \* where the main flow of ProcManager stands
  todo,         \* the daemons the running procStart or procRestart has left
  starting,     \* the pass is the one of procStart
  pid_g,        \* the pid system_run has returned, not yet stored
  pid,          \* pid[d].p_id, 0 for a daemon that is not running
  guard_flag,
  loop_flag,
  ipc,          \* the shared memory, message queues and semaphores
  owner, life,  \* the process table of the kernel: who p is, and its state
  sigchld,      \* SIGCHLD is pending
  told,         \* the live children that have been sent an exit signal
  fails, deaths \* what has been used up of the two bounds

managerVars == <<main, todo, starting, pid_g, pid, guard_flag>>
kernelVars  == <<owner, life, sigchld>>
boundVars   == <<fails, deaths>>
vars == <<main, todo, starting, pid_g, pid, guard_flag, loop_flag, ipc, owner,
          life, sigchld, told, fails, deaths>>

MainStates == {"init", "pass", "store", "loop", "stop", "clean", "exited"}
Running == {p \in Pids : life[p] = "running"}
Zombies == {p \in Pids : life[p] = "zombie"}

Init ==
  /\ main = "init"
  /\ todo = <<>>
  /\ starting = TRUE
  /\ pid_g = 0
  /\ pid = [d \in Daemons |-> 0]
  /\ guard_flag = 0
  /\ loop_flag = TRUE
  /\ ipc = "none"
  /\ owner = [p \in Pids |-> NoDaemon]
  /\ life = [p \in Pids |-> "free"]
  /\ sigchld = FALSE
  /\ told = {}
  /\ fails = 0
  /\ deaths = 0

-----------------------------------------------------------------------------
(* Everything up to procStart: FPGA, signals, IPC, database, network.      *)
Initialize ==
  /\ main = "init"
  /\ ipc' = "up"
  /\ main' = "pass"
  /\ todo' = StartOrder
  /\ UNCHANGED <<starting, pid_g, pid, guard_flag, loop_flag, kernelVars, told,
                 boundVars>>

(* One of the steps fails and what the earlier ones created is removed.    *)
InitializeFails ==
  /\ main = "init"
  /\ main' = "exited"
  /\ UNCHANGED <<todo, starting, pid_g, pid, guard_flag, loop_flag, ipc,
                 kernelVars, told, boundVars>>

(* Fault: procRestart tests the entry the wrong way round.                 *)
NeverAgain(d) == starting \/ pid[d] # 0
(* procStart starts every daemon, procRestart those without a pid.         *)
IsNeeded(d) == starting \/ pid[d] = 0

Fork ==
  /\ main = "pass"
  /\ todo # <<>>
  /\ IsNeeded(Head(todo))
  /\ \E p \in Pids :
       /\ life[p] = "free"
       /\ owner' = [owner EXCEPT ![p] = Head(todo)]
       /\ life' = [life EXCEPT ![p] = "running"]
       /\ pid_g' = p
  /\ main' = "store"
  /\ UNCHANGED <<todo, starting, pid, guard_flag, loop_flag, ipc, sigchld, told,
                 boundVars>>

(* procStart gives up and ProcManager leaves; procRestart gives up this    *)
(* pass, the daemons behind the one that failed wait for the next.         *)
ForkFails ==
  /\ main = "pass"
  /\ todo # <<>>
  /\ IsNeeded(Head(todo))
  /\ fails < MaxFail
  /\ fails' = fails + 1
  /\ main' = IF starting THEN "stop" ELSE "loop"
  /\ todo' = <<>>
  /\ starting' = FALSE
  /\ UNCHANGED <<pid_g, pid, guard_flag, loop_flag, ipc, kernelVars, told,
                 deaths>>

(* pid[d].p_id = pid_g.                                                    *)
Store ==
  /\ main = "store"
  /\ pid' = [pid EXCEPT ![Head(todo)] = pid_g]
  /\ todo' = Tail(todo)
  /\ main' = "pass"
  /\ UNCHANGED <<starting, pid_g, guard_flag, loop_flag, ipc, kernelVars, told,
                 boundVars>>

SkipRunning ==
  /\ main = "pass"
  /\ todo # <<>>
  /\ ~IsNeeded(Head(todo))
  /\ todo' = Tail(todo)
  /\ UNCHANGED <<main, starting, pid_g, pid, guard_flag, loop_flag, ipc,
                 kernelVars, told, boundVars>>

PassDone ==
  /\ main = "pass"
  /\ todo = <<>>
  /\ main' = "loop"
  /\ starting' = FALSE
  /\ UNCHANGED <<todo, pid_g, pid, guard_flag, loop_flag, ipc, kernelVars, told,
                 boundVars>>

-----------------------------------------------------------------------------
(* The loop of ProcManager.                                                *)

(* ReadMessageQueue with a MSG_CFG_GUARD.                                  *)
SetGuard(on) ==
  /\ main = "loop"
  /\ loop_flag
  /\ guard_flag' = on
  /\ UNCHANGED <<main, todo, starting, pid_g, pid, loop_flag, ipc, kernelVars,
                 told, boundVars>>

BeginRestart ==
  /\ main = "loop"
  /\ loop_flag
  /\ guard_flag = 1
  /\ main' = "pass"
  /\ todo' = RestartOrder
  /\ UNCHANGED <<starting, pid_g, pid, guard_flag, loop_flag, ipc, kernelVars,
                 told, boundVars>>

LeaveLoop ==
  /\ main = "loop"
  /\ ~loop_flag
  /\ main' = "stop"
  /\ UNCHANGED <<todo, starting, pid_g, pid, guard_flag, loop_flag, ipc,
                 kernelVars, told, boundVars>>

(* Fault: procStop forgets the daemons that are killed by name.            *)
TableOnly == {pid[d] : d \in Daemons \ Killall} \cap Running
(* procStop sends EXIT_SIGNAL2 to the pids of the table and has p350_http  *)
(* killed by name; a signal to a pid that no longer exists is lost.        *)
StopTargets ==
  ({pid[d] : d \in Daemons \ Killall} \cup {p \in Pids : owner[p] \in Killall})
    \cap Running

ProcStop ==
  /\ main = "stop"
  /\ told' = told \cup StopTargets
  /\ main' = "clean"
  /\ UNCHANGED <<todo, starting, pid_g, pid, guard_flag, loop_flag, ipc,
                 kernelVars, boundVars>>

(* After sleep(2) the semaphores, queues and shared memory are removed,    *)
(* whether or not the daemons have come to their end.                      *)
Clean ==
  /\ main = "clean"
  /\ ipc' = "removed"
  /\ main' = "exited"
  /\ UNCHANGED <<todo, starting, pid_g, pid, guard_flag, loop_flag, kernelVars,
                 told, boundVars>>

-----------------------------------------------------------------------------
(* Signals and the children.                                               *)

ExitHandler ==
  /\ main \notin {"init", "exited"}
  /\ loop_flag
  /\ loop_flag' = FALSE
  /\ UNCHANGED <<managerVars, ipc, kernelVars, told, boundVars>>

(* A child ends: told to, or on its own (execv fails, a crash, an error    *)
(* return of its main function).                                           *)
ChildEnds(p) ==
  /\ life[p] = "running"
  /\ p \in told \/ deaths < MaxDeaths
  /\ deaths' = IF p \in told THEN deaths ELSE deaths + 1
  /\ life' = [life EXCEPT ![p] = "zombie"]
  /\ sigchld' = TRUE
  /\ told' = told \ {p}
  /\ UNCHANGED <<managerVars, loop_flag, ipc, owner, fails>>

(* Fault: the handler reaps one child per signal.                          *)
OneReaped == {CHOOSE p \in Zombies : TRUE}
(* The loop over waitpid: every child that has ended by now.               *)
Reaped == Zombies

(* The handler's inner loop over pid[].                                    *)
Reclaimed == [d \in Daemons |-> IF pid[d] \in Reaped THEN 0 ELSE pid[d]]

ChlidHandler ==
  /\ sigchld
  /\ main # "exited"
  /\ sigchld' = FALSE
  /\ pid' = Reclaimed
  /\ owner' = [p \in Pids |-> IF p \in Reaped THEN NoDaemon ELSE owner[p]]
  /\ life' = [p \in Pids |-> IF p \in Reaped THEN "free" ELSE life[p]]
  /\ UNCHANGED <<main, todo, starting, pid_g, guard_flag, loop_flag, ipc, told,
                 boundVars>>

-----------------------------------------------------------------------------
Pass == Fork \/ ForkFails \/ Store \/ SkipRunning \/ PassDone
Stop == LeaveLoop \/ ProcStop \/ Clean
Terminated == main = "exited" /\ UNCHANGED vars

Next ==
  \/ Initialize \/ InitializeFails
  \/ Pass
  \/ \E on \in {0, 1} : SetGuard(on)
  \/ BeginRestart
  \/ Stop
  \/ ExitHandler
  \/ \E p \in Pids : ChildEnds(p)
  \/ ChlidHandler
  \/ Terminated

Spec == Init /\ [][Next]_vars

(* The manager's own steps and the delivery of a pending signal; a child   *)
(* that is told to end does.  Nothing is assumed of children that die on   *)
(* their own, of the guard messages or of the exit signal.  A free pid is  *)
(* taken for granted.                                                      *)
Fairness ==
  /\ WF_vars(Initialize)
  /\ WF_vars(Fork \/ Store \/ SkipRunning \/ PassDone)
  /\ WF_vars(BeginRestart)
  /\ WF_vars(Stop)
  /\ WF_vars(ChlidHandler)
  /\ \A p \in Pids : WF_vars(p \in told /\ ChildEnds(p))

FairSpec == Spec /\ Fairness

-----------------------------------------------------------------------------
TypeOK ==
  /\ main \in MainStates
  /\ todo \in Seq(Daemons)
  /\ starting \in BOOLEAN
  /\ pid_g \in Pids \cup {0}
  /\ pid \in [Daemons -> Pids \cup {0}]
  /\ guard_flag \in {0, 1}
  /\ loop_flag \in BOOLEAN
  /\ ipc \in {"none", "up", "removed"}
  /\ owner \in [Pids -> Daemons \cup {NoDaemon}]
  /\ life \in [Pids -> {"free", "running", "zombie"}]
  /\ \A p \in Pids : life[p] = "free" <=> owner[p] = NoDaemon
  /\ sigchld \in BOOLEAN
  /\ told \subseteq Running
  /\ fails \in 0..MaxFail
  /\ deaths \in 0..MaxDeaths

(* No child is ever out of the manager's sight: the pid of one that runs   *)
(* is in its place of the table, or is just being put there, and one that  *)
(* has ended keeps its SIGCHLD, however many end before it is delivered.   *)
(* An entry cleared for the wrong child, through a reused pid say, or a    *)
(* child that is not reaped would lose one.                                *)
NoneForgotten ==
  /\ \A p \in Running :
       \/ pid[owner[p]] = p
       \/ main = "store" /\ pid_g = p /\ owner[p] = Head(todo)
  /\ Zombies # {} => sigchld

(* A daemon is never started a second time while it runs: two input        *)
(* daemons would both drive the FPGA and write the same shared memory.     *)
OneInstance ==
  \A p, q \in Running : owner[p] = owner[q] => p = q

(* The IPC objects are removed only when every daemon that still runs has  *)
(* been told to end: no daemon outlives the manager unawares.              *)
NoOrphans ==
  main # "exited" \/ \A p \in Running : p \in told

(* What dmgr_manager.c says of its SIGCHLD handler, "initialise the child  *)
(* signal, reclaim the pids of the processes that have ended": in its loop *)
(* the manager holds no pid of a child that has been reaped.               *)
ExitedPidIsReclaimed ==
  main = "loop" => \A d \in Daemons :
                     pid[d] # 0 => life[pid[d]] # "free" /\ owner[pid[d]] = d

(* With the guard on, a daemon known to be dead is started again, unless   *)
(* the guard is taken off or the manager told to exit.                     *)
DeadIsRestarted ==
  \A i \in 1..Len(RestartOrder) :
    pid[RestartOrder[i]] = 0 /\ guard_flag = 1 /\ main = "loop"
      ~> pid[RestartOrder[i]] # 0 \/ guard_flag = 0 \/ ~loop_flag

(* The manager comes to its end when it is told to, and the daemons with   *)
(* it.                                                                     *)
StopCompletes ==
  main \in MainStates \ {"init"} /\ ~loop_flag
    ~> main = "exited" /\ Running = {}

(* The manager's two promises: procRestart brings the dead back as long as *)
(* it is meant to, procStop and the end of ProcManager leave nobody.       *)
RestartsThenStops == DeadIsRestarted /\ StopCompletes
=============================================================================
