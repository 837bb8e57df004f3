-------------------------------- MODULE Proc --------------------------------
(***************************************************************************)
(* The life of processes: fork, exit, wait and kill of kernel/proc.c, the  *)
(* killed checks of usertrap (kernel/trap.c), and the program of the first *)
(* process (user/init.c), which adopts orphans.                            *)
(*                                                                         *)
(* The actors are the processes, at the granularity of their critical      *)
(* sections under p->lock; wait_lock, which is held over several of them,  *)
(* is explicit.  RUNNABLE stands for RUNNABLE and RUNNING: which CPU runs  *)
(* which process is the business of Sched.  The one p->lock that is held   *)
(* beyond a step is that of an exiting process, until its CPU has left its *)
(* kernel stack.  A process that sleeps is in wait(): its chan is itself.  *)
(***************************************************************************)
EXTENDS FiniteSets

CONSTANTS
  Proc,         \* the slots of proc[]
  initproc,     \* the slot of the first process
  NoProc        \* not a slot

ASSUME ProcAssumption ==
  /\ initproc \in Proc
  /\ NoProc \notin Proc

VARIABLES
  state,        \* p->state
  parent,       \* p->parent, or NoProc
  killed,       \* p->killed
  waitlock,     \* the process that holds wait_lock, or NoProc
  pc,           \* where each process is
  np,           \* the local np of fork()
  sh            \* the shell of init, its local pid, or NoProc

vars == <<state, parent, killed, waitlock, pc, np, sh>>

Init ==
  /\ state = [p \in Proc |-> IF p = initproc THEN "RUNNABLE" ELSE "UNUSED"]
  /\ parent = [p \in Proc |-> NoProc]
  /\ killed = [p \in Proc |-> FALSE]
  /\ waitlock = NoProc
  /\ pc = [p \in Proc |-> IF p = initproc THEN "user" ELSE "none"]
  /\ np = [p \in Proc |-> NoProc]
  /\ sh = NoProc

Children(p) == {q \in Proc : parent[q] = p}
Zombies(p) == {q \in Children(p) : state[q] = "ZOMBIE"}

(* exit() holds p->lock until the scheduler has switched away from p. *)
LockFree(p) == pc[p] # "switch"

(* init has not got to panic("init exiting").  panic() spins for ever, in  *)
(* the process that calls it: the others go on.                            *)
Up == pc[initproc] # "panic"

At(p, l) == pc[p] = l /\ state[p] = "RUNNABLE"
Goto(p, l) == pc' = [pc EXCEPT ![p] = l]

(* Where a failed system call returns to: init gives up, and panics. *)
Failed(p) == IF p = initproc THEN "panic" ELSE "user"

(* init forks when it has no shell and waits when it has one. *)
MayFork(p) == p = initproc => sh = NoProc
MayWait(p) == p = initproc => sh # NoProc
-----------------------------------------------------------------------------
(* The system-call path of usertrap. *)
Syscall(p) ==
  /\ At(p, "user") /\ ~killed[p]
  /\ Goto(p, "sys")
  /\ UNCHANGED <<state, parent, killed, waitlock, np, sh>>

(* Fault: fork() makes the child runnable at once. *)
ForkAllocRunnable(p, q) ==
  /\ At(p, "sys") /\ MayFork(p)
  /\ state[q] = "UNUSED"
  /\ state' = [state EXCEPT ![q] = "RUNNABLE"]
  /\ np' = [np EXCEPT ![p] = q]
  /\ sh' = IF p = initproc THEN q ELSE sh
  /\ Goto(p, "fork_parent")
  /\ UNCHANGED <<parent, killed, waitlock>>

(* fork() up to the first release of np->lock, with any free slot. *)
ForkAlloc(p, q) ==
  /\ At(p, "sys") /\ MayFork(p)
  /\ state[q] = "UNUSED"
  /\ state' = [state EXCEPT ![q] = "USED"]
  /\ np' = [np EXCEPT ![p] = q]
  /\ sh' = IF p = initproc THEN q ELSE sh
  /\ Goto(p, "fork_parent")
  /\ UNCHANGED <<parent, killed, waitlock>>

(* fork() when an allocation fails and freeproc takes the slot back. *)
ForkFail(p, q) ==
  /\ At(p, "sys") /\ MayFork(p)
  /\ state[q] = "UNUSED"
  /\ killed' = [killed EXCEPT ![q] = FALSE]
  /\ Goto(p, Failed(p))
  /\ UNCHANGED <<state, parent, waitlock, np, sh>>

(* fork() when the process table is full. *)
ForkFull(p) ==
  /\ At(p, "sys") /\ MayFork(p)
  /\ \A q \in Proc : state[q] # "UNUSED"
  /\ Goto(p, Failed(p))
  /\ UNCHANGED <<state, parent, killed, waitlock, np, sh>>

(* fork(): np->parent = p under wait_lock. *)
ForkParent(p) ==
  /\ At(p, "fork_parent") /\ waitlock = NoProc
  /\ parent' = [parent EXCEPT ![np[p]] = p]
  /\ Goto(p, "fork_run")
  /\ UNCHANGED <<state, killed, waitlock, np, sh>>

(* fork(): np->state = RUNNABLE under np->lock. *)
ForkRun(p) ==
  /\ At(p, "fork_run")
  /\ state' = [state EXCEPT ![np[p]] = "RUNNABLE"]
  /\ pc' = [pc EXCEPT ![p] = "user", ![np[p]] = "user"]
  /\ np' = [np EXCEPT ![p] = NoProc]
  /\ UNCHANGED <<parent, killed, waitlock, sh>>
-----------------------------------------------------------------------------
(* What wakeup(chan) does to the processes: only chan itself sleeps on it. *)
Wakeup(chan) ==
  [q \in Proc |-> IF q = chan /\ state[q] = "SLEEPING" THEN "RUNNABLE" ELSE state[q]]

(* sys_exit, or exit(-1) by usertrap, up to acquire(&wait_lock). *)
Exit(p) ==
  /\ At(p, "sys") \/ (At(p, "user") /\ killed[p])
  /\ p # initproc
  /\ waitlock = NoProc /\ waitlock' = p
  /\ Goto(p, "reparent")
  /\ UNCHANGED <<state, parent, killed, np, sh>>

(* panic("init exiting"), when usertrap finds init killed. *)
InitExit ==
  /\ At(initproc, "user") /\ killed[initproc]
  /\ Goto(initproc, "panic")
  /\ UNCHANGED <<state, parent, killed, waitlock, np, sh>>

(* Fault: reparent() does not wake init. *)
ReparentSilently(p) ==
  /\ At(p, "reparent")
  /\ parent' = [q \in Proc |-> IF parent[q] = p THEN initproc ELSE parent[q]]
  /\ Goto(p, "wakeup")
  /\ UNCHANGED <<state, killed, waitlock, np, sh>>

(* Fault: exit() does not reparent. *)
ReparentNobody(p) ==
  /\ At(p, "reparent")
  /\ Goto(p, "wakeup")
  /\ UNCHANGED <<state, parent, killed, waitlock, np, sh>>

(* reparent(p), with its wakeup(initproc). *)
Reparent(p) ==
  /\ At(p, "reparent")
  /\ parent' = [q \in Proc |-> IF parent[q] = p THEN initproc ELSE parent[q]]
  /\ state' = IF Children(p) # {} THEN Wakeup(initproc) ELSE state
  /\ Goto(p, "wakeup")
  /\ UNCHANGED <<killed, waitlock, np, sh>>

(* Fault: exit() does not wake the parent. *)
WakeNobody(p) ==
  /\ At(p, "wakeup")
  /\ Goto(p, "zombie")
  /\ UNCHANGED <<state, parent, killed, waitlock, np, sh>>

(* exit(): wakeup(p->parent). *)
WakeParent(p) ==
  /\ At(p, "wakeup")
  /\ state' = Wakeup(parent[p])
  /\ Goto(p, "zombie")
  /\ UNCHANGED <<parent, killed, waitlock, np, sh>>

(* Fault: exit() never releases wait_lock. *)
ZombieHolding(p) ==
  /\ At(p, "zombie")
  /\ state' = [state EXCEPT ![p] = "ZOMBIE"]
  /\ Goto(p, "switch")
  /\ UNCHANGED <<parent, killed, waitlock, np, sh>>

(* exit(): ZOMBIE under p->lock, then release(&wait_lock). *)
Zombie(p) ==
  /\ At(p, "zombie")
  /\ state' = [state EXCEPT ![p] = "ZOMBIE"]
  /\ waitlock' = NoProc
  /\ Goto(p, "switch")
  /\ UNCHANGED <<parent, killed, np, sh>>

(* The scheduler is off p's kernel stack and releases p->lock. *)
Switched(p) ==
  /\ pc[p] = "switch"
  /\ Goto(p, "none")
  /\ UNCHANGED <<state, parent, killed, waitlock, np, sh>>
-----------------------------------------------------------------------------
(* wait() up to its first scan of the table. *)
Wait(p) ==
  /\ At(p, "sys") /\ MayWait(p)
  /\ waitlock = NoProc /\ waitlock' = p
  /\ Goto(p, "scan")
  /\ UNCHANGED <<state, parent, killed, np, sh>>

(* freeproc(q), the rest of the slot being what it is in any free slot. *)
Freeproc(q) ==
  /\ state' = [state EXCEPT ![q] = "UNUSED"]
  /\ parent' = [parent EXCEPT ![q] = NoProc]
  /\ killed' = [killed EXCEPT ![q] = FALSE]

(* Fault: wait() does not take q->lock. *)
WaitReapUnlocked(p, q) ==
  /\ At(p, "scan") /\ q \in Zombies(p)
  /\ Freeproc(q)
  /\ waitlock' = NoProc
  /\ sh' = IF p = initproc /\ q = sh THEN NoProc ELSE sh
  /\ Goto(p, "user")
  /\ UNCHANGED np

(* wait() finds a zombie, once it has q->lock, and frees it. *)
WaitReap(p, q) ==
  /\ At(p, "scan") /\ q \in Zombies(p) /\ LockFree(q)
  /\ Freeproc(q)
  /\ waitlock' = NoProc
  /\ sh' = IF p = initproc /\ q = sh THEN NoProc ELSE sh
  /\ Goto(p, "user")
  /\ UNCHANGED np

(* wait() finds a zombie and cannot copy its status out: it stays. *)
WaitFault(p, q) ==
  /\ At(p, "scan") /\ q \in Zombies(p) /\ LockFree(q)
  /\ p # initproc
  /\ waitlock' = NoProc
  /\ Goto(p, "user")
  /\ UNCHANGED <<state, parent, killed, np, sh>>

(* wait() has found no zombie: return -1 without children or when killed. *)
WaitCheck(p) ==
  /\ At(p, "scan") /\ Zombies(p) = {}
  /\ IF Children(p) = {} \/ killed[p]
     THEN waitlock' = NoProc /\ Goto(p, Failed(p))
     ELSE UNCHANGED waitlock /\ Goto(p, "sleep")
  /\ UNCHANGED <<state, parent, killed, np, sh>>

(* sleep(p, &wait_lock): under p->lock, release wait_lock and SLEEPING. *)
WaitSleep(p) ==
  /\ At(p, "sleep")
  /\ state' = [state EXCEPT ![p] = "SLEEPING"]
  /\ waitlock' = NoProc
  /\ Goto(p, "asleep")
  /\ UNCHANGED <<parent, killed, np, sh>>

(* The end of sleep(): reacquire wait_lock and scan again. *)
WaitAgain(p) ==
  /\ At(p, "asleep")
  /\ waitlock = NoProc /\ waitlock' = p
  /\ Goto(p, "scan")
  /\ UNCHANGED <<state, parent, killed, np, sh>>
-----------------------------------------------------------------------------
(* kill() of the pid of a process. *)
Kill(p, q) ==
  /\ At(p, "sys") /\ p # initproc
  /\ state[q] # "UNUSED" /\ LockFree(q)
  /\ killed' = [killed EXCEPT ![q] = TRUE]
  /\ state' = IF state[q] = "SLEEPING" THEN [state EXCEPT ![q] = "RUNNABLE"] ELSE state
  /\ Goto(p, "user")
  /\ UNCHANGED <<parent, waitlock, np, sh>>

(* kill(0): 0 is the pid of a free slot. *)
KillZero(p, q) ==
  /\ At(p, "sys") /\ p # initproc
  /\ state[q] = "UNUSED"
  /\ killed' = [killed EXCEPT ![q] = TRUE]
  /\ Goto(p, "user")
  /\ UNCHANGED <<state, parent, waitlock, np, sh>>
-----------------------------------------------------------------------------
(* The steps that take wait_lock, and those that a process just goes on to. *)
Lock(p) == ForkParent(p) \/ WaitAgain(p) \/ (At(p, "user") /\ Exit(p))
Step(p) ==
  \/ ForkRun(p)
  \/ Reparent(p) \/ WakeParent(p) \/ Zombie(p) \/ Switched(p)
  \/ WaitCheck(p) \/ WaitSleep(p)
  \/ \E q \in Proc : WaitReap(p, q) \/ WaitFault(p, q)

(* The system calls that a process may make. *)
Calls(p) ==
  \/ Wait(p) \/ ForkFull(p) \/ (At(p, "sys") /\ Exit(p))
  \/ \E q \in Proc : ForkAlloc(p, q) \/ ForkFail(p, q) \/ Kill(p, q) \/ KillZero(p, q)

Next == InitExit \/ \E p \in Proc : Syscall(p) \/ Calls(p) \/ Lock(p) \/ Step(p)

Spec == Init /\ [][Next]_vars

(* The scheduler runs every runnable process, a spin lock that is released *)
(* again and again is got at last, and init makes its next call.           *)
Fairness ==
  /\ \A p \in Proc : WF_vars(Step(p)) /\ SF_vars(Lock(p))
  /\ WF_vars(InitExit \/ Syscall(initproc))
  /\ SF_vars(Calls(initproc))

FairSpec == Spec /\ Fairness
-----------------------------------------------------------------------------
(* Every variable has its type, and whoever the scheduler may pick has a   *)
(* context to run: fork() makes a child RUNNABLE only when it is complete. *)
TypeOK ==
  /\ state \in [Proc -> {"UNUSED", "USED", "SLEEPING", "RUNNABLE", "ZOMBIE"}]
  /\ parent \in [Proc -> Proc \cup {NoProc}]
  /\ killed \in [Proc -> BOOLEAN]
  /\ waitlock \in Proc \cup {NoProc}
  /\ pc \in [Proc -> {"none", "user", "sys", "fork_parent", "fork_run", "reparent", "wakeup",
                      "zombie", "switch", "scan", "sleep", "asleep", "panic"}]
  /\ np \in [Proc -> Proc \cup {NoProc}]
  /\ sh \in Proc \cup {NoProc}
  /\ \A p \in Proc : state[p] = "RUNNABLE" => pc[p] \notin {"none", "switch"}

(* wait() frees a slot, and fork() gives it to a new process, only when no *)
(* CPU is on its kernel stack any more.                                    *)
StackIsFree ==
  \A p \in Proc : pc[p] = "switch" => state[p] = "ZOMBIE"

(* Whoever runs, sleeps or is a zombie has a parent that can still wait    *)
(* for it: exit() leaves no child with a parent that has exited.           *)
ParentsLive ==
  waitlock = NoProc =>
    \A p \in Proc \ {initproc} :
      state[p] \in {"SLEEPING", "RUNNABLE", "ZOMBIE"} =>
        parent[p] # NoProc /\ state[parent[p]] \in {"SLEEPING", "RUNNABLE"}

(* A parent does not sleep in wait() while it has a zombie to collect:     *)
(* exit() wakes it before p is ZOMBIE, and wait_lock keeps it from looking *)
(* again before that.                                                      *)
NoLostExit ==
  \A p \in Proc : waitlock = NoProc /\ state[p] = "SLEEPING" => Zombies(p) = {}

(* "this call to wait() returns if the shell exits, or if a parentless     *)
(* process exits" (init.c): once there are no more exits, init collects    *)
(* every orphan, those that were zombies before their parent exited too,   *)
(* unless it has panicked itself.                                          *)
OrphansReaped ==
  <>[][\A p \in Proc : ~Zombie(p)]_vars =>
    \A p \in Proc : state[p] = "ZOMBIE" /\ parent[p] = initproc ~> state[p] = "UNUSED" \/ ~Up

(* A parent in wait() with a zombie child comes out of wait(), if only, in  *)
(* the case of a killed init, to panic.                                    *)
WaitReturns ==
  \A p \in Proc :
    (pc[p] = "asleep" /\ Zombies(p) # {}) ~> pc[p] \in {"user", "panic"}

(* "Kill the process with the given pid": kill() marks processes, and a    *)
(* free slot is not one.                                                   *)
OnlyProcessesKilled ==
  \A p \in Proc : state[p] = "UNUSED" => ~killed[p]

(* "The victim won't exit until it tries to return to user space": a       *)
(* process that is killed in wait() gets there and exits.                  *)
KilledExits ==
  \A p \in Proc :
    killed[p] /\ pc[p] \in {"scan", "sleep", "asleep"} ~>
      state[p] \in {"ZOMBIE", "UNUSED"} \/ pc[p] = "panic"
=============================================================================
