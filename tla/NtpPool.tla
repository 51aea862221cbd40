------------------------------- MODULE NtpPool -------------------------------
(***************************************************************************)
(* The request pool of the NTP daemon: the threads, the task queue and the *)
(* condition variable of src/d-ntp/dntp_threadpool.c, driven by the main   *)
(* loop of ProcNtp (src/d-ntp/dntp_server.c), which creates the pool,      *)
(* hands it the requests it receives and destroys it on its way out.       *)
(*                                                                         *)
(* A critical section of pool->lock is one action: every access to         *)
(* bExit, tqHead, curTasks and curThreads is made under that lock (the     *)
(* increments of tpCreate excepted, which are steps of their own).         *)
(* Waiting on pool->notify, being woken and getting the lock back are      *)
(* separate, and so is the handler, which runs outside the lock.           *)
(***************************************************************************)
EXTENDS Naturals, Sequences, FiniteSets

CONSTANTS
  Threads,   (* the number of workers tpCreate is asked for (3 in ProcNtp)    *)
  MaxTasks,  (* pool->maxTasks (1200 in ProcNtp)                              *)
  MaxReq     (* bound: how many requests arrive in a behaviour                *)

ASSUME PoolAssumption ==
  /\ Threads \in Nat \ {0}
  /\ MaxTasks \in Nat \ {0}
  /\ MaxReq \in Nat

Workers  == 1..Threads
Requests == 1..MaxReq
NoTask   == 0

VARIABLES
  main,        \* where the main thread stands
  created,     \* workers pthread_create has started
  arrived,     \* requests received so far, numbered in order of arrival
  req,         \* req[r]: who owns the memory of request r, or how it ended
  frees,       \* frees[r]: how often request r was passed to free()
  bExit,       \* pool->bExit
  tqHead,      \* pool->tqHead, the queued requests, oldest first
  curTasks,    \* pool->curTasks
  curThreads,  \* pool->curThreads
  tmp,         \* tpDestroy's copy of curThreads, taken under the lock
  num,         \* tpDestroy's copy of curThreads, the threads it will join
  pc,          \* pc[w]: where worker w stands in thread_start_routine
  task         \* task[w]: the request worker w has taken off the queue

mainVars   == <<main, created, arrived, tmp, num>>
workerVars == <<pc, task>>
vars == <<main, created, arrived, req, frees, bExit, tqHead, curTasks,
          curThreads, tmp, num, pc, task>>

MainStates == {"create", "count", "loop", "got", "destroy", "poll", "sleep",
               "join", "closed", "failed"}
WorkerStates == {"none", "ready", "waiting", "woken", "run", "exiting", "exited"}
ReqStates == {"new", "held", "queued", "running", "done", "dropped", "leaked"}

(* The workers that stand in one of the states S.                          *)
At(S) == {w \in Workers : pc[w] \in S}
Waiting == At({"waiting"})

(***************************************************************************)
(* The decisions the threads take under the lock.  Where a definition is   *)
(* preceded by one marked Fault, the latter is a plausible slip in the     *)
(* same lines of the code; the properties below are shown to notice it.    *)
(***************************************************************************)

(* tpAddTask's test of curTasks against maxTasks.                          *)
HasRoom == curTasks < MaxTasks

(* Fault: a worker leaves as soon as it is told to, queue or no queue.     *)
LeavesAtOnce == bExit
(* The test of the routine, made before the loop over cond_wait and again  *)
(* after each return from it: shutting down and nothing left to do.        *)
MayLeave == bExit /\ tqHead = <<>>

(* STAILQ_FIRST.                                                           *)
FirstTask == Head(tqHead)

(* Fault: the task stays on the queue when it is taken.                    *)
NothingRemoved == tqHead
(* STAILQ_REMOVE_HEAD.                                                     *)
RemainingTasks == Tail(tqHead)

(* Fault: tpAddTask forgets to signal.                                     *)
NoSignal == pc' = pc
(* pthread_cond_signal wakes one waiter, if there is any.                  *)
Signal ==
  IF Waiting = {} THEN pc' = pc
  ELSE \E w \in Waiting : pc' = [pc EXCEPT ![w] = "woken"]

(* pthread_cond_broadcast wakes every waiter.                              *)
WokenByBroadcast == Waiting

Init ==
  /\ main = "create"
  /\ created = 0
  /\ arrived = 0
  /\ req = [r \in Requests |-> "new"]
  /\ frees = [r \in Requests |-> 0]
  /\ bExit = FALSE
  /\ tqHead = <<>>
  /\ curTasks = 0
  /\ curThreads = 0
  /\ tmp = 0
  /\ num = 0
  /\ pc = [w \in Workers |-> "none"]
  /\ task = [w \in Workers |-> NoTask]

-----------------------------------------------------------------------------
(* tpCreate: the loop over pthread_create and curThreads += 1.             *)

CreateThread ==
  /\ main = "create"
  /\ main' = "count"
  /\ created' = created + 1
  /\ pc' = [pc EXCEPT ![created + 1] = "ready"]
  /\ UNCHANGED <<arrived, req, frees, bExit, tqHead, curTasks, curThreads,
                 tmp, num, task>>

(* pthread_create fails: the condition variable and the mutex are          *)
(* destroyed and ProcNtp goes to its exit, where tpDestroy gives up on the *)
(* destroyed mutex and the process takes the threads with it.              *)
CreateFails ==
  /\ main = "create"
  /\ main' = "failed"
  /\ UNCHANGED <<created, arrived, req, frees, bExit, tqHead, curTasks,
                 curThreads, tmp, num, pc, task>>

CountThread ==
  /\ main = "count"
  /\ curThreads' = curThreads + 1
  /\ main' = IF created = Threads THEN "loop" ELSE "create"
  /\ UNCHANGED <<created, arrived, req, frees, bExit, tqHead, curTasks,
                 tmp, num, pc, task>>

-----------------------------------------------------------------------------
(* The receive loop of ProcNtp.                                            *)

ReqReceive ==
  /\ main = "loop"
  /\ arrived < MaxReq
  /\ arrived' = arrived + 1
  /\ req' = [req EXCEPT ![arrived + 1] = "held"]
  /\ main' = "got"
  /\ UNCHANGED <<created, frees, bExit, tqHead, curTasks, curThreads, tmp, num,
                 pc, task>>

(* The loop frees a request it does not hand over.                         *)
FreeHeld ==
  /\ req' = [req EXCEPT ![arrived] = "dropped"]
  /\ frees' = [frees EXCEPT ![arrived] = @ + 1]
  /\ main' = "loop"

(* li # 0, or the FPGA time fails its plausibility check.                  *)
DropRequest ==
  /\ main = "got"
  /\ FreeHeld
  /\ UNCHANGED <<created, arrived, bExit, tqHead, curTasks, curThreads, tmp,
                 num, pc, task>>

(* The FPGA has stopped: goto exit, the request in hand is never freed.    *)
FpgaStopped ==
  /\ main = "got"
  /\ req' = [req EXCEPT ![arrived] = "leaked"]
  /\ main' = "destroy"
  /\ UNCHANGED <<created, arrived, frees, bExit, tqHead, curTasks, curThreads,
                 tmp, num, pc, task>>

(* An exit signal, or an error of ReadMessageQueue, ends the loop.         *)
LeaveLoop ==
  /\ main = "loop"
  /\ main' = "destroy"
  /\ UNCHANGED <<created, arrived, req, frees, bExit, tqHead, curTasks,
                 curThreads, tmp, num, pc, task>>

(* tpAddTask refuses: the queue is full, the pool is shutting down, or     *)
(* malloc fails (noMemory); its caller frees the request.                  *)
TpAddTaskRefuses(noMemory) ==
  /\ main = "got"
  /\ ~HasRoom \/ bExit \/ noMemory
  /\ FreeHeld
  /\ UNCHANGED <<created, arrived, bExit, tqHead, curTasks, curThreads, tmp,
                 num, pc, task>>

TpAddTask ==
  /\ main = "got"
  /\ HasRoom
  /\ ~bExit
  /\ tqHead' = Append(tqHead, arrived)
  /\ curTasks' = curTasks + 1
  /\ req' = [req EXCEPT ![arrived] = "queued"]
  /\ Signal
  /\ main' = "loop"
  /\ UNCHANGED <<created, arrived, frees, bExit, curThreads, tmp, num, task>>

-----------------------------------------------------------------------------
(* tpDestroy.                                                              *)

SetExit ==
  /\ main = "destroy"
  /\ bExit' = TRUE
  /\ num' = curThreads
  /\ main' = "poll"
  /\ UNCHANGED <<created, arrived, req, frees, tqHead, curTasks, curThreads,
                 tmp, pc, task>>

(* One turn of the do-while: read curThreads and wake everybody.           *)
Broadcast ==
  /\ main = "poll"
  /\ tmp' = curThreads
  /\ pc' = [w \in Workers |-> IF w \in WokenByBroadcast THEN "woken" ELSE pc[w]]
  /\ main' = "sleep"
  /\ UNCHANGED <<created, arrived, req, frees, bExit, tqHead, curTasks,
                 curThreads, num, task>>

SleepOver ==
  /\ main = "sleep"
  /\ main' = IF tmp = 0 THEN "join" ELSE "poll"
  /\ UNCHANGED <<created, arrived, req, frees, bExit, tqHead, curTasks,
                 curThreads, tmp, num, pc, task>>

(* pthread_join on threadId[0..num-1], then mutex and condition go.        *)
Join ==
  /\ main = "join"
  /\ \A w \in 1..num : pc[w] = "exited"
  /\ main' = "closed"
  /\ UNCHANGED <<created, arrived, req, frees, bExit, tqHead, curTasks,
                 curThreads, tmp, num, pc, task>>

-----------------------------------------------------------------------------
(* thread_start_routine, for worker w.                                     *)

WorkerLeaves(w) ==
  /\ pc[w] \in {"ready", "woken"}
  /\ MayLeave
  /\ curThreads' = curThreads - 1
  /\ pc' = [pc EXCEPT ![w] = "exiting"]
  /\ UNCHANGED <<main, created, arrived, req, frees, bExit, tqHead, curTasks,
                 tmp, num, task>>

CondWait(w) ==
  /\ pc[w] \in {"ready", "woken"}
  /\ ~bExit
  /\ tqHead = <<>>
  /\ pc' = [pc EXCEPT ![w] = "waiting"]
  /\ UNCHANGED <<main, created, arrived, req, frees, bExit, tqHead, curTasks,
                 curThreads, tmp, num, task>>

(* pthread_cond_wait may return without a signal.                          *)
SpuriousWakeup(w) ==
  /\ pc[w] = "waiting"
  /\ pc' = [pc EXCEPT ![w] = "woken"]
  /\ UNCHANGED <<main, created, arrived, req, frees, bExit, tqHead, curTasks,
                 curThreads, tmp, num, task>>

TakeTask(w) ==
  /\ pc[w] \in {"ready", "woken"}
  /\ tqHead # <<>>
  /\ task' = [task EXCEPT ![w] = FirstTask]
  /\ req' = [req EXCEPT ![FirstTask] = "running"]
  /\ tqHead' = RemainingTasks
  /\ curTasks' = curTasks - 1
  /\ pc' = [pc EXCEPT ![w] = "run"]
  /\ UNCHANGED <<main, created, arrived, frees, bExit, curThreads, tmp, num>>

(* The handler returns; the worker frees the request and the node.         *)
FinishTask(w) ==
  /\ pc[w] = "run"
  /\ req' = [req EXCEPT ![task[w]] = "done"]
  /\ frees' = [frees EXCEPT ![task[w]] = @ + 1]
  /\ task' = [task EXCEPT ![w] = NoTask]
  /\ pc' = [pc EXCEPT ![w] = "ready"]
  /\ UNCHANGED <<main, created, arrived, bExit, tqHead, curTasks, curThreads,
                 tmp, num>>

PthreadExit(w) ==
  /\ pc[w] = "exiting"
  /\ pc' = [pc EXCEPT ![w] = "exited"]
  /\ UNCHANGED <<main, created, arrived, req, frees, bExit, tqHead, curTasks,
                 curThreads, tmp, num, task>>

-----------------------------------------------------------------------------
Main ==
  \/ CreateThread \/ CreateFails \/ CountThread
  \/ ReqReceive \/ DropRequest \/ FpgaStopped \/ LeaveLoop
  \/ \E noMemory \in BOOLEAN : TpAddTaskRefuses(noMemory)
  \/ TpAddTask
  \/ SetExit \/ Broadcast \/ SleepOver \/ Join

Worker(w) ==
  \/ WorkerLeaves(w) \/ CondWait(w) \/ SpuriousWakeup(w)
  \/ TakeTask(w) \/ FinishTask(w) \/ PthreadExit(w)

(* The daemon has left tpDestroy, or never had a pool.                     *)
Terminated == main \in {"closed", "failed"} /\ UNCHANGED vars

Next == Main \/ (\E w \in Workers : Worker(w)) \/ Terminated

Spec == Init /\ [][Next]_vars

(* The kernel runs every thread that can run: the workers and the main     *)
(* thread share one SCHED_FIFO priority and each of them blocks (select,   *)
(* cond_wait, the sleep(1) of tpDestroy), and the handler always returns.  *)
(* Nothing is assumed of arrivals, of spurious wakeups or of the signal    *)
(* that ends the loop.                                                     *)
Fairness ==
  /\ WF_vars(CreateThread \/ CountThread)
  /\ WF_vars(DropRequest \/ TpAddTask
             \/ \E noMemory \in BOOLEAN : TpAddTaskRefuses(noMemory))
  /\ WF_vars(SetExit \/ Broadcast \/ SleepOver \/ Join)
  /\ \A w \in Workers :
       WF_vars(WorkerLeaves(w) \/ TakeTask(w) \/ FinishTask(w) \/ PthreadExit(w))

FairSpec == Spec /\ Fairness

-----------------------------------------------------------------------------
(* The properties.                                                         *)

TypeOK ==
  /\ main \in MainStates
  /\ created \in 0..Threads
  /\ arrived \in 0..MaxReq
  /\ req \in [Requests -> ReqStates]
  /\ frees \in [Requests -> 0..1]
  /\ bExit \in BOOLEAN
  /\ tqHead \in Seq(Requests)
  /\ curTasks \in 0..MaxTasks
  /\ curThreads \in 0..Threads
  /\ tmp \in 0..Threads
  /\ num \in 0..Threads
  /\ pc \in [Workers -> WorkerStates]
  /\ task \in [Workers -> Requests \cup {NoTask}]

(* A request has one owner: the main thread while it holds it, the queue,  *)
(* one worker; and it has been freed exactly when it was served or turned  *)
(* down, so nothing is freed twice or used after it was freed.             *)
Ownership ==
  /\ \A i, j \in 1..Len(tqHead) : tqHead[i] = tqHead[j] => i = j
  /\ \A r \in Requests :
       /\ req[r] = "held" <=> main = "got" /\ r = arrived
       /\ req[r] = "queued" <=> \E i \in 1..Len(tqHead) : tqHead[i] = r
       /\ req[r] = "running" <=> \E w \in Workers : task[w] = r
       /\ frees[r] = IF req[r] \in {"done", "dropped"} THEN 1 ELSE 0
       /\ req[r] = "new" <=> r > arrived
  /\ \A v, w \in Workers : task[v] = task[w] /\ task[v] # NoTask => v = w
  /\ \A w \in Workers : task[w] # NoTask <=> pc[w] = "run"

(* Nobody sleeps on work: as long as some worker waits on pool->notify,    *)
(* every queued request has a worker of its own on the way to fetch it.    *)
(* A signal given to a worker that had already found other work, a signal  *)
(* given too early or too few of them would leave a request behind.        *)
NoLostWakeup ==
  Waiting # {} => Len(tqHead) <= Cardinality(At({"ready", "woken"}))

(* The count under the lock is the queue, in order of arrival, and it      *)
(* never exceeds the capacity tpCreate was given.                          *)
QueueAccounting ==
  /\ curTasks = Len(tqHead)
  /\ curTasks <= MaxTasks
  /\ \A i, j \in 1..Len(tqHead) : i < j => tqHead[i] < tqHead[j]

(* curThreads, which tpDestroy polls without ever looking at a thread,     *)
(* counts the workers that have not left yet; tpCreate runs one behind     *)
(* between starting a thread and counting it.                              *)
Alive == {"ready", "waiting", "woken", "run"}
ThreadAccounting ==
  curThreads = Cardinality(At(Alive)) - (IF main = "count" THEN 1 ELSE 0)

(* Once tpDestroy has returned no thread is left that could touch the      *)
(* mutex, the condition variable or the queue it has destroyed, and all    *)
(* that tpAddTask ever accepted has been served.                           *)
DrainedWhenClosed ==
  main = "closed" =>
    /\ \A w \in Workers : pc[w] \in {"none", "exited"}
    /\ tqHead = <<>>
    /\ \A r \in Requests : req[r] \in {"new", "done", "dropped", "leaked"}

(* Requests are taken off the queue in the order they arrived, whichever   *)
(* workers take them and however the wakeups fall.                         *)
FifoStep ==
  \A r, s \in Requests :
    r < s /\ req[s] = "queued" /\ req'[s] = "running" => req[r] # "queued"
FifoDispatch == [][FifoStep]_vars

(* What tpAddTask accepted is served, shutting down or not.                *)
AcceptedIsServed ==
  \A r \in Requests : req[r] = "queued" ~> req[r] = "done"

(* tpDestroy returns: no worker is left asleep by the broadcast, and the   *)
(* loop over curThreads comes to its end.                                  *)
DestroyReturns == main = "destroy" ~> main = "closed"

(* The pool neither strands a request nor hangs the end of the daemon.     *)
EndsServed == AcceptedIsServed /\ DestroyReturns

-----------------------------------------------------------------------------
(* NtpPool implements TaskService.                                         *)

AbsStatus(s) ==
  CASE s \in {"new", "held"}       -> "new"
    [] s = "queued"                -> "pending"
    [] s = "running"               -> "serving"
    [] s = "done"                  -> "served"
    [] s \in {"dropped", "leaked"} -> "refused"

Service == INSTANCE TaskService WITH
             Servers <- Threads, Backlog <- MaxTasks, Reqs <- Requests,
             open <- (main # "closed"),
             status <- [r \in Requests |-> AbsStatus(req[r])]

(* Every step of the threads is a step of the service or invisible to it.  *)
ImplementsService == Service!TSSpec
=============================================================================
