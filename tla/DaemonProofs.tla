------------------------------ MODULE DaemonProofs ------------------------------
(***************************************************************************)
(* Proofs about the daemons as processes.                                  *)
(*                                                                         *)
(* Supervisor, for every set of daemons and every set of pids: no child is *)
(* lost, no daemon runs twice and none is left behind.  The invariant says *)
(* what the place of a daemon in the table is worth while system_run has   *)
(* returned and its result is not yet stored, and while procStart, which   *)
(* does not look at the table, has daemons left.                           *)
(*                                                                         *)
(* Settings, for every number of sessions, lines and faults: a daemon that *)
(* is gone has left nothing open but what the label it left by forgets,    *)
(* wherever it left its start or its loop.                                 *)
(***************************************************************************)
EXTENDS Supervisor, Settings, SequenceTheorems, TLAPS

USE SupervisorAssumption DEF SupervisorAssumption

(* Between fork() and the store nobody but the new child is the daemon     *)
(* that is being started.                                                  *)
OnlyTheNew ==
  main = "store" =>
    /\ todo # <<>>
    /\ pid_g \in Pids
    /\ \A p \in Running : owner[p] = Head(todo) => p = pid_g

(* The daemons that procStart has left are not in the table; it names each *)
(* once.                                                                   *)
Unstarted ==
  /\ main = "init" => starting /\ \A d \in Daemons : pid[d] = 0
  /\ main \in {"loop", "stop", "clean"} => ~starting
  /\ starting =>
       /\ \A i \in 1..Len(todo) : pid[todo[i]] = 0
       /\ \A i, j \in 1..Len(todo) : todo[i] = todo[j] => i = j

(* When procStop has run every child has been told.                        *)
AllTold ==
  main \in {"clean", "exited"} => \A p \in Running : p \in told

(* The inductive invariant.                                                *)
IInv == TypeOK /\ NoneForgotten /\ OnlyTheNew /\ Unstarted /\ AllTold

-----------------------------------------------------------------------------
(* What the invariant says at once.                                        *)

LEMMA FreshIsAlone ==
  ASSUME TypeOK, NoneForgotten, NEW d \in Daemons, pid[d] = 0, main # "store"
  PROVE  \A p \in Running : owner[p] # d
BY DEF TypeOK, NoneForgotten, Running

LEMMA OneByTable ==
  ASSUME TypeOK, NoneForgotten, OnlyTheNew PROVE OneInstance
BY DEF TypeOK, NoneForgotten, OnlyTheNew, OneInstance, Running

LEMMA HeadOfTodo ==
  ASSUME TypeOK, todo # <<>>
  PROVE  /\ Head(todo) \in Daemons /\ Head(todo) = todo[1]
         /\ Tail(todo) \in Seq(Daemons) /\ Len(todo) \in Nat \ {0}
         /\ Len(Tail(todo)) = Len(todo) - 1
         /\ \A i \in 1..Len(Tail(todo)) : Tail(todo)[i] = todo[i + 1]
BY HeadTailProperties DEF TypeOK

-----------------------------------------------------------------------------
(* The start.                                                              *)

LEMMA InitIInv == Init => IInv
<1> SUFFICES ASSUME Init PROVE IInv
  OBVIOUS
<1>1. TypeOK
  <2>1. todo \in Seq(Daemons) /\ pid \in [Daemons -> Pids \cup {0}]
    BY EmptySeq DEF Init
  <2>2. /\ owner \in [Pids -> Daemons \cup {NoDaemon}]
        /\ life \in [Pids -> {"free", "running", "zombie"}]
        /\ \A p \in Pids : life[p] = "free" <=> owner[p] = NoDaemon
    BY DEF Init
  <2>3. fails \in 0..MaxFail /\ deaths \in 0..MaxDeaths
    BY DEF Init
  <2>4. QED
    BY <2>1, <2>2, <2>3 DEF Init, TypeOK, MainStates
<1>2. NoneForgotten /\ OnlyTheNew /\ AllTold
  BY DEF Init, NoneForgotten, OnlyTheNew, AllTold, Running, Zombies
<1>3. Unstarted
  BY DEF Init, Unstarted
<1>4. QED
  BY <1>1, <1>2, <1>3 DEF IInv

-----------------------------------------------------------------------------
(* The types.                                                              *)

LEMMA TypeStep ==
  ASSUME TypeOK, OnlyTheNew, [Next]_vars PROVE TypeOK'
<1> USE DEF TypeOK, MainStates, Running, kernelVars, boundVars, managerVars
<1>1. CASE Initialize
  BY <1>1 DEF Initialize
<1>2. CASE InitializeFails
  BY <1>2 DEF InitializeFails
<1>3. CASE Fork
  <2>1. Head(todo) \in Daemons
    BY <1>3, HeadOfTodo DEF Fork
  <2>2. PICK p \in Pids :
          /\ life[p] = "free"
          /\ owner' = [owner EXCEPT ![p] = Head(todo)]
          /\ life' = [life EXCEPT ![p] = "running"]
          /\ pid_g' = p
    BY <1>3 DEF Fork
  <2>3. /\ owner' \in [Pids -> Daemons \cup {NoDaemon}]
        /\ life' \in [Pids -> {"free", "running", "zombie"}]
        /\ \A q \in Pids : life'[q] = "free" <=> owner'[q] = NoDaemon
    BY <2>1, <2>2
  <2>4. told' \subseteq Running'
    BY <1>3, <2>2 DEF Fork
  <2>5. QED
    BY <1>3, <2>2, <2>3, <2>4 DEF Fork
<1>4. CASE ForkFails
  <2>1. fails' \in 0..MaxFail
    BY <1>4 DEF ForkFails
  <2>2. todo' \in Seq(Daemons)
    BY <1>4, EmptySeq DEF ForkFails
  <2>3. QED
    BY <1>4, <2>1, <2>2 DEF ForkFails
<1>5. CASE Store
  <2>1. todo # <<>>
    BY <1>5 DEF Store, OnlyTheNew
  <2>2. QED
    BY <1>5, <2>1, HeadOfTodo DEF Store
<1>6. CASE SkipRunning
  BY <1>6, HeadOfTodo DEF SkipRunning
<1>7. CASE PassDone
  BY <1>7 DEF PassDone
<1>8. ASSUME NEW on \in {0, 1}, SetGuard(on) PROVE TypeOK'
  BY <1>8 DEF SetGuard
<1>9. CASE BeginRestart
  BY <1>9 DEF BeginRestart
<1>10. CASE Stop
  BY <1>10 DEF Stop, LeaveLoop, ProcStop, Clean, StopTargets
<1>11. CASE ExitHandler
  BY <1>11 DEF ExitHandler
<1>12. ASSUME NEW p \in Pids, ChildEnds(p) PROVE TypeOK'
  BY <1>12 DEF ChildEnds
<1>13. CASE ChlidHandler
  BY <1>13 DEF ChlidHandler, Reclaimed, Reaped, Zombies
<1>14. CASE UNCHANGED vars
  BY <1>14 DEF vars
<1>15. QED
  BY <1>1, <1>2, <1>3, <1>4, <1>5, <1>6, <1>7, <1>8, <1>9, <1>10, <1>11,
     <1>12, <1>13, <1>14 DEF Next, Pass, Terminated
-----------------------------------------------------------------------------
(* The steps by what they do to the children: most leave the process table *)
(* and the table of the manager alone.                                     *)

(* No running child is lost: the daemon that is started has no other, the  *)
(* handler clears the entries of the dead only.                            *)
LEMMA NoneForgottenStep ==
  ASSUME TypeOK, NoneForgotten, OnlyTheNew, Unstarted, [Next]_vars
  PROVE  NoneForgotten'
<1> USE DEF NoneForgotten, Running, Zombies, kernelVars, boundVars, managerVars
<1>1. CASE UNCHANGED <<pid, kernelVars>> /\ main # "store"
  BY <1>1
<1>2. CASE Fork
  <2>1. PICK p \in Pids :
          /\ life[p] = "free"
          /\ owner' = [owner EXCEPT ![p] = Head(todo)]
          /\ life' = [life EXCEPT ![p] = "running"]
          /\ pid_g' = p
    BY <1>2 DEF Fork
  <2>2. UNCHANGED <<pid, todo, sigchld>> /\ main' = "store" /\ main # "store"
    BY <1>2 DEF Fork
  <2>3. ASSUME NEW q \in Running'
        PROVE  \/ pid'[owner'[q]] = q
               \/ main' = "store" /\ pid_g' = q /\ owner'[q] = Head(todo')
    <3>1. CASE q = p
      BY <3>1, <2>1, <2>2 DEF TypeOK
    <3>2. CASE q # p
      BY <3>2, <2>1, <2>2, <2>3 DEF TypeOK
    <3>3. QED
      BY <3>1, <3>2
  <2>4. Zombies' = Zombies
    BY <2>1 DEF TypeOK
  <2>5. QED
    BY <2>2, <2>3, <2>4
<1>3. CASE Store
  <2>1. todo # <<>> /\ Head(todo) \in Daemons
    BY <1>3, HeadOfTodo DEF Store, OnlyTheNew
  <2>2. ASSUME NEW q \in Running PROVE pid'[owner[q]] = q
    <3>1. owner[q] \in Daemons
      BY DEF TypeOK
    <3>2. CASE owner[q] = Head(todo)
      BY <1>3, <2>1, <3>2 DEF Store, OnlyTheNew, TypeOK
    <3>3. CASE owner[q] # Head(todo)
      BY <1>3, <2>1, <3>1, <3>3 DEF Store, TypeOK
    <3>4. QED
      BY <3>2, <3>3
  <2>3. QED
    BY <1>3, <2>2 DEF Store
<1>4. ASSUME NEW p \in Pids, ChildEnds(p) PROVE NoneForgotten'
  BY <1>4 DEF ChildEnds, TypeOK
<1>5. CASE ChlidHandler
  <2>1. Running' = Running /\ Zombies' = {}
    BY <1>5 DEF ChlidHandler, Reaped, TypeOK
  <2>2. ASSUME NEW q \in Running PROVE owner'[q] = owner[q] /\ owner[q] \in Daemons
    BY <1>5 DEF ChlidHandler, Reaped, TypeOK
  <2>3. ASSUME NEW q \in Running, pid[owner[q]] = q PROVE pid'[owner[q]] = q
    BY <1>5, <2>2, <2>3 DEF ChlidHandler, Reclaimed, Reaped
  <2>4. UNCHANGED <<main, pid_g, todo>>
    BY <1>5 DEF ChlidHandler
  <2>5. QED
    BY <2>1, <2>2, <2>3, <2>4
<1>6. CASE ExitHandler \/ UNCHANGED vars
  BY <1>6 DEF ExitHandler, vars
<1>7. QED
  BY <1>1, <1>2, <1>3, <1>4, <1>5, <1>6
  DEF Next, Pass, Stop, Terminated, Initialize, InitializeFails, ForkFails, SkipRunning,
      PassDone, SetGuard, BeginRestart, LeaveLoop, ProcStop, Clean

LEMMA OnlyTheNewStep ==
  ASSUME TypeOK, NoneForgotten, OnlyTheNew, Unstarted, [Next]_vars
  PROVE  OnlyTheNew'
<1> USE DEF OnlyTheNew, Running, kernelVars, boundVars, managerVars
<1>1. CASE main' # "store"
  BY <1>1
<1>2. CASE Fork
  <2>1. PICK p \in Pids :
          /\ life[p] = "free"
          /\ owner' = [owner EXCEPT ![p] = Head(todo)]
          /\ life' = [life EXCEPT ![p] = "running"]
          /\ pid_g' = p
    BY <1>2 DEF Fork
  <2>2. todo # <<>> /\ todo' = todo /\ main = "pass"
    BY <1>2 DEF Fork
  <2>3. Head(todo) \in Daemons /\ Len(todo) \in Nat \ {0} /\ Head(todo) = todo[1]
    BY <2>2, HeadOfTodo
  <2>4. pid[Head(todo)] = 0
    BY <1>2, <2>3 DEF Fork, IsNeeded, Unstarted
  <2>5. \A q \in Running : owner[q] # Head(todo)
    BY <2>2, <2>3, <2>4, FreshIsAlone
  <2>6. \A q \in Running' : owner'[q] = Head(todo') => q = pid_g'
    BY <2>1, <2>2, <2>5 DEF TypeOK
  <2>7. QED
    BY <2>1, <2>2, <2>6
<1>3. ASSUME NEW p \in Pids, ChildEnds(p) PROVE OnlyTheNew'
  BY <1>3 DEF ChildEnds, TypeOK
<1>4. CASE ChlidHandler
  <2>1. Running' = Running /\ \A q \in Running : owner'[q] = owner[q]
    BY <1>4 DEF ChlidHandler, Reaped, Zombies, TypeOK
  <2>2. QED
    BY <1>4, <2>1 DEF ChlidHandler
<1>5. CASE ExitHandler \/ UNCHANGED vars
  BY <1>5 DEF ExitHandler, vars
<1>6. QED
  BY <1>1, <1>2, <1>3, <1>4, <1>5
  DEF Next, Pass, Stop, Terminated, Initialize, InitializeFails, ForkFails, Store,
      SkipRunning, PassDone, SetGuard, BeginRestart, LeaveLoop, ProcStop, Clean

(* What procStart has left is not in the table: it stores an entry only    *)
(* for the daemon it takes from its list, and names none twice.            *)
LEMMA UnstartedStep ==
  ASSUME TypeOK, OnlyTheNew, Unstarted, [Next]_vars
  PROVE  Unstarted'
<1> USE DEF Unstarted
<1>1. CASE Initialize
  <2>1. ASSUME NEW i \in 1..Len(StartOrder) PROVE pid[StartOrder[i]] = 0
    BY <1>1, ElementOfSeq DEF Initialize
  <2>2. QED
    BY <1>1, <2>1 DEF Initialize
<1>2. CASE InitializeFails
  BY <1>2 DEF InitializeFails
<1>3. CASE Fork
  BY <1>3 DEF Fork
<1>4. CASE ForkFails
  BY <1>4 DEF ForkFails
<1>5. CASE Store
  <2>1. todo # <<>>
    BY <1>5 DEF Store, OnlyTheNew
  <2>2. /\ Head(todo) = todo[1] /\ Len(todo) \in Nat \ {0}
        /\ Len(todo') = Len(todo) - 1
        /\ \A i \in 1..Len(todo') : todo'[i] = todo[i + 1]
    BY <1>5, <2>1, HeadOfTodo DEF Store
  <2>3. ASSUME starting, NEW i \in 1..Len(todo') PROVE pid'[todo'[i]] = 0
    <3>1. i + 1 \in 1..Len(todo) /\ 1 \in 1..Len(todo) /\ i + 1 # 1
      BY <2>2
    <3>2. todo[i + 1] # todo[1] /\ pid[todo[i + 1]] = 0
      BY <2>3, <3>1
    <3>3. todo[i + 1] \in Daemons
      BY <3>1, ElementOfSeq DEF TypeOK
    <3>4. QED
      BY <1>5, <2>2, <3>2, <3>3 DEF Store, TypeOK
  <2>4. ASSUME starting, NEW i \in 1..Len(todo'), NEW j \in 1..Len(todo'), todo'[i] = todo'[j]
        PROVE  i = j
    <3>1. i + 1 \in 1..Len(todo) /\ j + 1 \in 1..Len(todo)
      BY <2>2
    <3>2. i + 1 = j + 1
      BY <2>2, <2>4, <3>1
    <3>3. QED
      BY <2>2, <3>2
  <2>5. QED
    BY <1>5, <2>3, <2>4 DEF Store
<1>6. CASE SkipRunning
  <2>1. ~starting
    <3>1. SUFFICES ASSUME starting PROVE FALSE
      OBVIOUS
    <3>2. QED
      BY <1>6, <3>1 DEF SkipRunning, IsNeeded
  <2>2. QED
    BY <1>6, <2>1 DEF SkipRunning
<1>7. CASE PassDone \/ BeginRestart \/ LeaveLoop \/ ProcStop \/ Clean \/ ExitHandler
  BY <1>7 DEF PassDone, BeginRestart, LeaveLoop, ProcStop, Clean, ExitHandler, managerVars
<1>8. ASSUME NEW on \in {0, 1}, SetGuard(on) PROVE Unstarted'
  BY <1>8 DEF SetGuard
<1>9. ASSUME NEW p \in Pids, ChildEnds(p) PROVE Unstarted'
  BY <1>9 DEF ChildEnds, managerVars
<1>10. CASE ChlidHandler
  <2>1. \A d \in Daemons : pid[d] = 0 => pid'[d] = 0
    BY <1>10 DEF ChlidHandler, Reclaimed
  <2>2. \A i \in 1..Len(todo) : todo[i] \in Daemons
    BY ElementOfSeq DEF TypeOK
  <2>3. QED
    BY <1>10, <2>1, <2>2 DEF ChlidHandler
<1>11. CASE UNCHANGED vars
  BY <1>11 DEF vars
<1>12. QED
  BY <1>1, <1>2, <1>3, <1>4, <1>5, <1>6, <1>7, <1>8, <1>9, <1>10, <1>11
  DEF Next, Pass, Stop, Terminated

(* When procStop runs every child is in the table, so that it is told; no  *)
(* child is started behind it.                                             *)
LEMMA AllToldStep ==
  ASSUME TypeOK, NoneForgotten, OnlyTheNew, Unstarted, AllTold, [Next]_vars
  PROVE  AllTold'
<1> USE DEF AllTold, Running, kernelVars, boundVars, managerVars
<1>1. CASE main' \notin {"clean", "exited"}
  BY <1>1
<1>2. CASE InitializeFails
  <2>1. \A p \in Running : pid[owner[p]] = p /\ owner[p] \in Daemons /\ p # 0
    BY <1>2 DEF InitializeFails, NoneForgotten, TypeOK
  <2>2. Running = {}
    BY <1>2, <2>1 DEF InitializeFails, Unstarted
  <2>3. QED
    BY <1>2, <2>2 DEF InitializeFails
<1>3. CASE ProcStop
  <2>1. \A p \in Running : pid[owner[p]] = p /\ owner[p] \in Daemons
    BY <1>3 DEF ProcStop, NoneForgotten, TypeOK
  <2>2. \A p \in Running : p \in StopTargets
    BY <2>1 DEF StopTargets
  <2>3. QED
    BY <1>3, <2>2 DEF ProcStop
<1>4. CASE Clean
  BY <1>4 DEF Clean
<1>5. ASSUME NEW p \in Pids, ChildEnds(p) PROVE AllTold'
  BY <1>5 DEF ChildEnds, TypeOK
<1>6. CASE ChlidHandler
  <2>1. Running' = Running
    BY <1>6 DEF ChlidHandler, Reaped, Zombies, TypeOK
  <2>2. QED
    BY <1>6, <2>1 DEF ChlidHandler
<1>7. CASE ExitHandler \/ UNCHANGED vars
  BY <1>7 DEF ExitHandler, vars
<1>8. QED
  BY <1>1, <1>2, <1>3, <1>4, <1>5, <1>6, <1>7
  DEF Next, Pass, Stop, Terminated, Initialize, Fork, ForkFails, Store, SkipRunning,
      PassDone, SetGuard, BeginRestart, LeaveLoop

-----------------------------------------------------------------------------
(* The theorems.                                                           *)

LEMMA IInvStep == IInv /\ [Next]_vars => IInv'
BY TypeStep, NoneForgottenStep, OnlyTheNewStep, UnstartedStep, AllToldStep DEF IInv

LEMMA IInvHolds == Spec => []IInv
BY InitIInv, IInvStep, PTL DEF Spec

(* Type correctness of the manager, its table and the kernel's processes.  *)
THEOREM TypeCorrect == Spec => []TypeOK
<1>1. IInv => TypeOK
  BY DEF IInv
<1>2. QED
  BY <1>1, IInvHolds, PTL

(* No child is ever out of the manager's sight, for every number of        *)
(* daemons and pids, wherever SIGCHLD interrupts it and however pids are   *)
(* used again (dmgr_manager.c, dmgr_alloc.c).                              *)
THEOREM NoneForgottenHolds == Spec => []NoneForgotten
<1>1. IInv => NoneForgotten
  BY DEF IInv
<1>2. QED
  BY <1>1, IInvHolds, PTL

(* A daemon is never started a second time while it runs.                  *)
THEOREM OneInstanceHolds == Spec => []OneInstance
<1>1. IInv => OneInstance
  BY OneByTable DEF IInv
<1>2. QED
  BY <1>1, IInvHolds, PTL

(* When the manager has gone every daemon that still runs was told to end. *)
THEOREM NoOrphansHolds == Spec => []NoOrphans
<1>1. IInv => NoOrphans
  BY DEF IInv, AllTold, NoOrphans
<1>2. QED
  BY <1>1, IInvHolds, PTL

-----------------------------------------------------------------------------
(* Settings.                                                               *)

(* What the start has opened so far, and all that the daemon ever opens.   *)
Opening == Keys("open", U.boot[setting], 1..(daemon.pc - 1))
Openable == AllKeys("open", U.boot[setting]) \cup AllKeys("open", U.turn)
            \cup UNION {AllKeys("open", U.handlers[type]) : type \in DOMAIN U.handlers}
Onward(pc) == {j \in Nat : j >= pc}
(* What is open is what the way to here has opened, and on the way to the  *)
(* end what the rest of it will close, but for what the label forgets.     *)
HeldIsClosed ==
  /\ unit \in DOMAIN Units /\ setting \in SettingsOf(U)
  /\ daemon = [at |-> daemon.at, from |-> daemon.from, pc |-> daemon.pc] /\ daemon.pc \in Nat \ {0}
  /\ daemon.at \in {"down", "boot", "loop", "drain", "handle", "turn", "exit"}
  /\ NothingElseIsOpen
  /\ daemon.at = "boot" => held \subseteq Opening
  /\ daemon.at \in {"loop", "drain", "handle", "turn"} => held \subseteq Openable
  /\ daemon.at = "exit" =>
       /\ daemon.from \in DOMAIN U.exits
       /\ held \subseteq Forgotten(U, U.boot[setting], daemon.from)
                         \cup Keys("close", U.exits[daemon.from], Onward(daemon.pc))
  /\ daemon.at = "handle" => hand.type \in DOMAIN U.handlers

LEMMA KeyOf ==
  ASSUME NEW verb, NEW steps, NEW places, NEW i \in DOMAIN steps \cap places, steps[i].do = verb
  PROVE  steps[i].key \in Keys(verb, steps, places)
BY DEF Keys

(* What ProgramsAssumption says of the unit of a behaviour.                *)
LEMMA WellFormed ==
  ASSUME unit \in DOMAIN Units, setting \in SettingsOf(U)
  PROVE  /\ U.loopExit \in DOMAIN U.exits /\ "nowhere" \notin DOMAIN U.exits
         /\ \A i \in DOMAIN U.boot[setting] :
              U.boot[setting][i].fail \in DOMAIN U.exits \cup {"none"}
         /\ \A label \in DOMAIN U.exits :
              /\ DOMAIN U.exits[label] = 1..Len(U.exits[label]) /\ Len(U.exits[label]) \in Nat
              /\ \A i \in DOMAIN U.exits[label] : U.exits[label][i].do \in {"close", "call"}
BY ProgramsAssumption DEF U

LEMMA Comes ==
  ASSUME unit \in DOMAIN Units, setting \in SettingsOf(U), UNCHANGED <<unit, setting>>,
         NEW a \in {"down", "boot", "loop", "drain", "handle", "turn"}, daemon' = At(a),
         a \in {"down", "boot"} => held' = {},
         a \in {"loop", "drain", "handle", "turn"} => held' \subseteq Openable,
         a = "handle" => hand'.type \in DOMAIN U.handlers
  PROVE  HeldIsClosed'
<1>1. daemon' = [at |-> a, from |-> "nowhere", pc |-> 1]
  BY DEF At
<1>2. daemon'.at = a /\ daemon'.from = "nowhere" /\ daemon'.pc = 1
  BY <1>1
<1>3. daemon' = [at |-> daemon'.at, from |-> daemon'.from, pc |-> daemon'.pc]
  BY <1>1, <1>2
<1>4. Openable' = Openable /\ U' = U
  BY DEF Openable, U
<1>5. NothingElseIsOpen'
  BY <1>2 DEF NothingElseIsOpen
<1>. QED
  BY <1>2, <1>3, <1>4, <1>5 DEF HeldIsClosed

LEMMA Leaves ==
  ASSUME unit \in DOMAIN Units, setting \in SettingsOf(U), UNCHANGED <<unit, setting, held>>,
         NEW label \in DOMAIN U.exits, daemon' = Leaving(label),
         held \subseteq OpenAt(U, U.boot[setting], label)
  PROVE  HeldIsClosed'
<1>1. daemon' = [at |-> "exit", from |-> label, pc |-> 1]
  BY DEF Leaving
<1>2. U' = U
  BY DEF U
<1>. DEFINE end == U.exits[label]
             boot == U.boot[setting]
<1>3. DOMAIN end = 1..Len(end) /\ Len(end) \in Nat
  BY WellFormed
<1>4. held \subseteq Forgotten(U, boot, label) \cup AllKeys("close", end)
  BY DEF Forgotten
<1>. HIDE DEF end
<1>5. AllKeys("close", end) \subseteq Keys("close", end, Onward(1))
  BY <1>3 DEF AllKeys, Keys, Onward
<1>6. held' \subseteq Forgotten(U, boot, label) \cup Keys("close", end, Onward(1))
  BY <1>4, <1>5
<1>7. NothingElseIsOpen'
  BY <1>1 DEF NothingElseIsOpen
<1>8. U'.boot[setting'] = boot /\ U'.exits[label] = end
  BY <1>2 DEF end
<1>. HIDE DEF boot
<1>. QED
  BY <1>1, <1>2, <1>6, <1>7, <1>8 DEF HeldIsClosed

(* The label of the loop may be left to with all that is ever opened.      *)
LEMMA LoopOpens ==
  ASSUME unit \in DOMAIN Units, setting \in SettingsOf(U)
  PROVE  Openable \subseteq OpenAt(U, U.boot[setting], U.loopExit)
<1>. DEFINE handled == UNION {AllKeys("open", U.handlers[type]) : type \in DOMAIN U.handlers}
<1>1. Openable = AllKeys("open", U.boot[setting]) \cup AllKeys("open", U.turn) \cup handled
  BY DEF Openable
<1>. DEFINE boot == U.boot[setting]
             before == UNION {Keys("open", boot, 1..(i - 1)) : i \in {i \in DOMAIN boot : boot[i].fail = U.loopExit}}
<1>2. OpenAt(U, boot, U.loopExit)
        = before \cup (AllKeys("open", boot) \cup AllKeys("open", U.turn) \cup handled)
  BY Zenon DEF OpenAt
<1>. HIDE DEF handled, before
<1>. QED
  BY <1>1, <1>2

LEMMA FailsClosed ==
  ASSUME HeldIsClosed, NEW s \in Now, Fails(s), daemon.at \in {"boot", "handle", "turn"}
  PROVE  HeldIsClosed'
<1>1. UNCHANGED <<unit, setting, held>> /\ U' = U /\ unit \in DOMAIN Units /\ setting \in SettingsOf(U)
  BY DEF Fails, world, U, HeldIsClosed
<1>2. s = TodoOf(U)[daemon.pc] /\ daemon.pc \in DOMAIN TodoOf(U)
  BY DEF Now, StepAt
<1>3. CASE s.fail = "none"
  <2>1. daemon' = [daemon EXCEPT !.pc = @ + 1] /\ hand' = hand
    BY <1>3 DEF Fails
  <2>2. daemon' = [at |-> daemon.at, from |-> daemon.from, pc |-> daemon.pc + 1] /\ daemon.pc \in Nat \ {0}
    BY <2>1 DEF HeldIsClosed
  <2>3. daemon.at = "boot" => held \subseteq Opening'
    <3>1. daemon'.pc = daemon.pc + 1
      BY <2>2
    <3>2. 1..(daemon.pc - 1) \subseteq 1..(daemon'.pc - 1)
      BY <2>2, <3>1
    <3>3. Keys("open", U.boot[setting], 1..(daemon.pc - 1))
            \subseteq Keys("open", U.boot[setting], 1..(daemon'.pc - 1))
      BY <3>2 DEF Keys
    <3>4. Opening \subseteq Opening'
      BY <1>1, <3>3 DEF Opening
    <3>. QED
      BY <3>4 DEF HeldIsClosed
  <2>4. NothingElseIsOpen'
    BY <2>2 DEF NothingElseIsOpen
  <2>5. Openable' = Openable
    BY <1>1 DEF Openable
  <2>. QED
    BY <1>1, <2>1, <2>2, <2>3, <2>4, <2>5 DEF HeldIsClosed
<1>4. CASE s.fail # "none" /\ daemon.at = "boot"
  <2>1. daemon' = Leaving(s.fail)
    BY <1>4 DEF Fails
  <2>2. s = U.boot[setting][daemon.pc] /\ daemon.pc \in DOMAIN U.boot[setting]
    BY <1>2, <1>4 DEF TodoOf
  <2>3. s.fail \in DOMAIN U.exits
    BY <1>1, <1>4, <2>2, WellFormed
  <2>4. Opening \subseteq OpenAt(U, U.boot[setting], s.fail)
    BY <2>2 DEF OpenAt, Opening
  <2>5. held \subseteq OpenAt(U, U.boot[setting], s.fail)
    BY <1>4, <2>4 DEF HeldIsClosed
  <2>. QED
    BY <1>1, <2>1, <2>3, <2>5, Leaves
<1>5. CASE s.fail # "none" /\ daemon.at \in {"handle", "turn"}
  <2>1. daemon' = Leaving(U.loopExit)
    BY <1>5 DEF Fails
  <2>2. held \subseteq OpenAt(U, U.boot[setting], U.loopExit)
    BY <1>1, <1>5, LoopOpens DEF HeldIsClosed
  <2>3. U.loopExit \in DOMAIN U.exits
    BY <1>1, WellFormed
  <2>. QED
    BY <1>1, <2>1, <2>2, <2>3, Leaves
<1>. QED
  BY <1>3, <1>4, <1>5

LEMMA WorksClosed ==
  ASSUME HeldIsClosed, NEW s \in Now, StepWorks(s)
  PROVE  HeldIsClosed'
<1>1. UNCHANGED <<unit, setting, hand>> /\ U' = U /\ unit \in DOMAIN Units /\ setting \in SettingsOf(U)
  BY DEF StepWorks, world, U, HeldIsClosed
<1>2. s = TodoOf(U)[daemon.pc] /\ daemon.pc \in DOMAIN TodoOf(U)
  BY DEF Now, StepAt
<1>3. /\ daemon' = [at |-> daemon.at, from |-> daemon.from, pc |-> daemon.pc + 1]
      /\ daemon.pc \in Nat \ {0}
  BY DEF HeldIsClosed, StepWorks
<1>4. /\ s.do = "open" => held' = held \cup {s.key}
      /\ s.do = "close" => held' = held \ {s.key}
      /\ s.do \notin {"open", "close"} => held' = held
  BY DEF StepWorks
<1>5. daemon.at \in {"boot", "handle", "turn", "exit"}
  BY <1>2 DEF TodoOf, HeldIsClosed
<1>6. NothingElseIsOpen'
  BY <1>3, <1>5 DEF NothingElseIsOpen
<1>7. CASE daemon.at = "boot"
  <2>1. s = U.boot[setting][daemon.pc] /\ daemon.pc \in DOMAIN U.boot[setting]
    BY <1>2, <1>7 DEF TodoOf
  <2>2. Opening \subseteq Opening' /\ (s.do = "open" => s.key \in Opening')
    <3>1. daemon'.pc = daemon.pc + 1
      BY <1>3
    <3>. DEFINE boot == U.boot[setting]
    <3>2. 1..(daemon.pc - 1) \subseteq 1..(daemon'.pc - 1) /\ daemon.pc \in 1..(daemon'.pc - 1)
      BY <1>3, <3>1
    <3>3. Opening = Keys("open", boot, 1..(daemon.pc - 1))
      BY DEF Opening
    <3>4. Opening' = Keys("open", boot, 1..(daemon'.pc - 1))
      BY <1>1 DEF Opening
    <3>. HIDE DEF boot
    <3>5. Keys("open", boot, 1..(daemon.pc - 1)) \subseteq Keys("open", boot, 1..(daemon'.pc - 1))
      BY <3>2 DEF Keys
    <3>6. s.do = "open" => s.key \in Keys("open", boot, 1..(daemon'.pc - 1))
      BY <2>1, <3>2, KeyOf DEF boot
    <3>. QED
      BY <3>3, <3>4, <3>5, <3>6
  <2>3. held' \subseteq Opening'
    BY <1>4, <1>7, <2>2 DEF HeldIsClosed
  <2>. QED
    BY <1>1, <1>3, <1>6, <1>7, <2>3 DEF HeldIsClosed
<1>8. CASE daemon.at \in {"handle", "turn"}
  <2>1. s.do = "open" => s.key \in Openable
    <3>1. CASE daemon.at = "handle"
      <4>1. hand.type \in DOMAIN U.handlers /\ TodoOf(U) = U.handlers[hand.type]
        BY <3>1 DEF HeldIsClosed, TodoOf
      <4>2. s.do = "open" => s.key \in AllKeys("open", U.handlers[hand.type])
        BY <1>2, <4>1, KeyOf DEF AllKeys
      <4>. QED
        BY <4>1, <4>2 DEF Openable
    <3>2. CASE daemon.at = "turn"
      <4>1. TodoOf(U) = U.turn
        BY <3>2 DEF TodoOf
      <4>2. s.do = "open" => s.key \in AllKeys("open", U.turn)
        BY <1>2, <4>1, KeyOf DEF AllKeys
      <4>. QED
        BY <4>2 DEF Openable
    <3>. QED
      BY <1>8, <3>1, <3>2
  <2>2. held' \subseteq Openable
    BY <1>4, <1>8, <2>1 DEF HeldIsClosed
  <2>3. Openable' = Openable
    BY <1>1 DEF Openable
  <2>4. hand'.type \in DOMAIN U.handlers \/ daemon.at # "handle"
    BY <1>1 DEF HeldIsClosed
  <2>. QED
    BY <1>1, <1>3, <1>6, <1>8, <2>2, <2>3, <2>4 DEF HeldIsClosed
<1>9. CASE daemon.at = "exit"
  <2>. DEFINE end == U.exits[daemon.from]
               left0 == Forgotten(U, U.boot[setting], daemon.from)
  <2>1. s = end[daemon.pc] /\ daemon.pc \in DOMAIN end /\ daemon.from \in DOMAIN U.exits
        /\ held \subseteq left0 \cup Keys("close", end, Onward(daemon.pc))
    BY <1>2, <1>9 DEF TodoOf, HeldIsClosed
  <2>2. DOMAIN end = 1..Len(end) /\ Len(end) \in Nat /\ s.do \in {"close", "call"}
    BY <1>1, <2>1, WellFormed
  <2>3. U'.exits[daemon'.from] = end /\ Forgotten(U', U'.boot[setting'], daemon'.from) = left0
    BY <1>1, <1>3
  <2>. HIDE DEF end, left0
  <2>4. held' \subseteq left0 \cup Keys("close", end, Onward(daemon.pc + 1))
    BY <1>3, <1>4, <2>1, <2>2 DEF Keys, Onward
  <2>. QED
    BY <1>1, <1>3, <1>6, <1>9, <2>1, <2>3, <2>4 DEF HeldIsClosed
<1>. QED
  BY <1>5, <1>7, <1>8, <1>9

LEMMA ArriveClosed ==
  ASSUME HeldIsClosed, Arrive
  PROVE  HeldIsClosed'
<1>1. /\ UNCHANGED <<unit, setting, held>> /\ U' = U /\ daemon.at \in {"boot", "handle", "turn", "exit"}
      /\ unit \in DOMAIN Units /\ setting \in SettingsOf(U)
  BY DEF Arrive, world, U, HeldIsClosed
<1>2. CASE daemon.at # "exit"
  <2>1. \E a \in {"loop", "turn", "drain"} : daemon' = At(a)
    BY <1>1, <1>2 DEF Arrive, Looping
  <2>2. Opening \subseteq Openable
    BY DEF Opening, Openable, AllKeys, Keys
  <2>3. held \subseteq Openable
    BY <1>1, <1>2, <2>2 DEF HeldIsClosed
  <2>. QED
    BY <1>1, <2>1, <2>3, Comes
<1>3. CASE daemon.at = "exit"
  <2>. DEFINE end == U.exits[daemon.from]
               left0 == Forgotten(U, U.boot[setting], daemon.from)
  <2>1. daemon.pc \notin DOMAIN end
    BY <1>3 DEF Arrive, Now, StepAt, TodoOf
  <2>2. daemon.from \in DOMAIN U.exits /\ daemon.pc \in Nat \ {0}
        /\ held \subseteq left0 \cup Keys("close", end, Onward(daemon.pc))
    BY <1>3 DEF HeldIsClosed
  <2>3. DOMAIN end = 1..Len(end) /\ Len(end) \in Nat /\ daemon.from # "nowhere"
    BY <1>1, <2>2, WellFormed
  <2>4. daemon' = [at |-> "down", from |-> daemon.from, pc |-> 1]
    BY <1>3 DEF Arrive, At
  <2>5. U'.exits[daemon'.from] = end /\ Forgotten(U', U'.boot[setting'], daemon'.from) = left0
    BY <1>1, <2>4
  <2>. HIDE DEF end, left0
  <2>6. held \subseteq left0
    BY <2>1, <2>2, <2>3 DEF Keys, Onward
  <2>7. NothingElseIsOpen'
    BY <1>1, <2>3, <2>4, <2>5, <2>6 DEF NothingElseIsOpen
  <2>. QED
    BY <1>1, <2>4, <2>7 DEF HeldIsClosed
<1>. QED
  BY <1>2, <1>3

LEMMA EndClosed ==
  ASSUME HeldIsClosed, [SettingsNext]_settingsVars
  PROVE  HeldIsClosed'
<1>1. UNCHANGED <<unit, setting>>
  BY DEF SettingsNext, settingsVars, Start, Arrive, Notice, Drain, Kill, ToldToStop, StepWorks, StepRefuses, StepFails,
         Fails, Send, Type, Post, world
<1>2. U' = U /\ unit \in DOMAIN Units /\ setting \in SettingsOf(U)
  BY <1>1 DEF U, HeldIsClosed
<1>3. CASE Start
  <2>1. held' = {} /\ daemon' = At("boot")
    BY <1>3 DEF Start
  <2>. QED
    BY <1>1, <1>2, <2>1, Comes
<1>4. CASE Notice
  <2>1. daemon.at = "loop" /\ daemon' = At("drain") /\ held' = held
    BY <1>4 DEF Notice
  <2>2. held \subseteq Openable
    BY <2>1 DEF HeldIsClosed
  <2>. QED
    BY <1>1, <1>2, <2>1, <2>2, Comes
<1>5. daemon.at \in {"loop", "drain"} => held \subseteq OpenAt(U, U.boot[setting], U.loopExit)
  BY <1>2, LoopOpens DEF HeldIsClosed
<1>6. U.loopExit \in DOMAIN U.exits
  BY <1>2, WellFormed
<1>7. CASE Drain
  <2>1. daemon.at = "drain" /\ held' = held /\ held \subseteq Openable
    <3>1. daemon.at = "drain" /\ held' = held
      BY <1>7 DEF Drain
    <3>. QED
      BY <3>1 DEF HeldIsClosed
  <2>2. CASE daemon' = At(Looping)
    BY <1>1, <1>2, <2>1, <2>2, Comes DEF Looping
  <2>3. CASE daemon' = At("handle") /\ hand' = Head(queue) /\ Head(queue).type \in DOMAIN U.handlers
    BY <1>1, <1>2, <2>1, <2>3, Comes
  <2>4. CASE daemon' = Leaving(U.loopExit)
    BY <1>1, <1>2, <1>5, <1>6, <2>1, <2>4, Leaves
  <2>. QED
    BY <1>7, <2>2, <2>3, <2>4 DEF Drain
<1>8. CASE Kill
  <2>1. daemon' = At("down") /\ held' = {}
    BY <1>8 DEF Kill
  <2>. QED
    BY <1>1, <1>2, <2>1, Comes
<1>9. CASE ToldToStop
  <2>1. daemon.at = "loop" /\ held' = held /\ daemon' = Leaving(U.loopExit)
    BY <1>9 DEF ToldToStop, world
  <2>. QED
    BY <1>1, <1>2, <1>5, <1>6, <2>1, Leaves
<1>10. ASSUME NEW s \in Now, StepRefuses(s) \/ StepFails(s) PROVE HeldIsClosed'
  <2>1. Fails(s)
    BY <1>10 DEF StepRefuses, StepFails
  <2>2. daemon.at # "exit"
    <3>1. SUFFICES ASSUME daemon.at = "exit" PROVE FALSE
      OBVIOUS
    <3>2. ~Works(s)
      BY <1>10, <3>1 DEF StepRefuses, StepFails
    <3>3. daemon.from \in DOMAIN U.exits
      BY <3>1 DEF HeldIsClosed
    <3>4. s = U.exits[daemon.from][daemon.pc] /\ daemon.pc \in DOMAIN U.exits[daemon.from]
      BY <3>1 DEF Now, StepAt, TodoOf
    <3>5. s.do \in {"close", "call"}
      BY <1>2, <3>3, <3>4, WellFormed
    <3>. QED
      BY <3>2, <3>5 DEF Works
  <2>3. daemon.at \in {"boot", "handle", "turn", "exit"}
    BY <1>10 DEF HeldIsClosed, Now, StepAt, TodoOf
  <2>. QED
    BY <2>1, <2>2, <2>3, FailsClosed
<1>11. CASE UNCHANGED <<daemon, held, hand>>
  <2>1. Opening' = Opening /\ Openable' = Openable
    BY <1>1, <1>2, <1>11 DEF Opening, Openable
  <2>2. NothingElseIsOpen'
    BY <1>1, <1>2, <1>11 DEF HeldIsClosed, NothingElseIsOpen
  <2>. QED
    BY <1>1, <1>2, <1>11, <2>1, <2>2 DEF HeldIsClosed
<1>12. CASE \/ UNCHANGED settingsVars
            \/ \E s \in Shells : Send(s) \/ \E use \in U.usage : Type(s, use)
            \/ \E m \in U.mail : Post(m)
  BY <1>11, <1>12 DEF settingsVars, Send, Type, Post
<1>. QED
  BY <1>3, <1>4, <1>7, <1>8, <1>9, <1>10, <1>12, WorksClosed, ArriveClosed DEF SettingsNext

(* When a daemon is gone, nothing is open but what its program forgets at  *)
(* the label it left by: whatever steps failed, for any number of          *)
(* sessions, commands and faults, and whatever the programs of the daemons *)
(* are, as long as every step that fails leads to a label there is         *)
(* (ProgramsAssumption).  What the labels of the device's daemons forget   *)
(* is named by the first half of ClosesWhatItOpened, which does not change *)
(* in a behaviour and which the run of Settings checks.                    *)
THEOREM NothingStaysOpen == SettingsSpec => []NothingElseIsOpen
<1>1. SettingsInit => HeldIsClosed
  <2>1. SettingsInit => daemon = At("down") /\ held = {} /\ unit \in DOMAIN Units /\ setting \in SettingsOf(U)
    BY DEF SettingsInit
  <2>. QED
    BY <2>1 DEF At, HeldIsClosed, NothingElseIsOpen
<1>2. HeldIsClosed /\ [SettingsNext]_settingsVars => HeldIsClosed'
  BY EndClosed
<1>3. HeldIsClosed => NothingElseIsOpen
  BY DEF HeldIsClosed
<1>. QED
  BY <1>1, <1>2, <1>3, PTL DEF SettingsSpec
=============================================================================
