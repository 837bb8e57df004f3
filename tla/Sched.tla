------------------------------- MODULE Sched -------------------------------
(***************************************************************************)
(* Context switching, sleep and wakeup, spin locks and sleep locks:        *)
(* kernel/proc.c (scheduler, sched, yield, forkret, sleep, wakeup, kill),  *)
(* kernel/spinlock.c, kernel/sleeplock.c and the timer path of             *)
(* kernel/trap.c.                                                          *)
(*                                                                         *)
(* The actors are the CPUs.  A CPU runs its scheduler or, on the kernel    *)
(* stack of a process, that process.  The processes contend for one sleep  *)
(* lock lk, the way buffers and inodes are locked; lk.lk is the spin lock  *)
(* that sleep() is given.  A timer interrupt may come wherever interrupts  *)
(* are on.  An action is what a CPU does between two points where another  *)
(* CPU can see or change what it works on.                                 *)
(***************************************************************************)
EXTENDS Integers, FiniteSets

CONSTANTS
  Cpu, Proc,
  NoCpu,        \* not a CPU
  NoProc        \* not a process

ASSUME SchedAssumption ==
  /\ IsFiniteSet(Proc)
  /\ NoCpu \notin Cpu
  /\ NoProc \notin Proc

VARIABLES
  state,        \* p->state
  chan,         \* p->chan is lk
  plock,        \* the CPU that holds p->lock, or NoCpu
  pc,           \* where the kernel thread of a process is
  back,         \* where the interrupted thread was
  saved,        \* the local intena of sched()
  todo,         \* the processes that the loop of wakeup() has yet to visit
  spin,         \* the CPU that holds lk.lk, or NoCpu
  locked,       \* lk.locked
  holding,      \* the processes between acquiresleep and releasesleep
  cproc,        \* c->proc
  stack,        \* the process on whose kernel stack a CPU runs, or NoProc
  noff,         \* c->noff
  intena,       \* c->intena
  sie           \* interrupts are enabled on a CPU

proc == <<state, chan, plock>>
thread == <<pc, back, saved, todo>>
sleeplock == <<spin, locked, holding>>
cpu == <<noff, intena, sie>>
vars == <<proc, thread, sleeplock, cproc, stack, cpu>>

Init ==
  /\ state = [p \in Proc |-> "RUNNABLE"]
  /\ chan = [p \in Proc |-> FALSE]
  /\ plock = [p \in Proc |-> NoCpu]
  /\ pc = [p \in Proc |-> "forkret"]
  /\ back = [p \in Proc |-> "user"]
  /\ saved = [p \in Proc |-> FALSE]
  /\ todo = [p \in Proc |-> {}]
  /\ spin = NoCpu
  /\ locked = FALSE
  /\ holding = {}
  /\ cproc = [c \in Cpu |-> NoProc]
  /\ stack = [c \in Cpu |-> NoProc]
  /\ noff = [c \in Cpu |-> 0]
  /\ intena = [c \in Cpu |-> FALSE]
  /\ sie = [c \in Cpu |-> FALSE]
-----------------------------------------------------------------------------
(* spinlock.c                                                              *)

(* Fault: push_off without its intr_off. *)
PushOffOnly(c) ==
  /\ noff' = [noff EXCEPT ![c] = @ + 1]
  /\ intena' = IF noff[c] = 0 THEN [intena EXCEPT ![c] = sie[c]] ELSE intena
  /\ UNCHANGED sie

PushOff(c) ==
  /\ noff' = [noff EXCEPT ![c] = @ + 1]
  /\ intena' = IF noff[c] = 0 THEN [intena EXCEPT ![c] = sie[c]] ELSE intena
  /\ sie' = [sie EXCEPT ![c] = FALSE]

(* Fault: release() calls pop_off twice. *)
PopOffTwice(c, ena) ==
  /\ noff' = [noff EXCEPT ![c] = @ - 2]
  /\ intena' = [intena EXCEPT ![c] = ena]
  /\ sie' = IF noff[c] = 2 /\ ena THEN [sie EXCEPT ![c] = TRUE] ELSE sie

(* pop_off, when c->intena is ena. *)
PopOff(c, ena) ==
  /\ noff' = [noff EXCEPT ![c] = @ - 1]
  /\ intena' = [intena EXCEPT ![c] = ena]
  /\ sie' = IF noff[c] = 1 /\ ena THEN [sie EXCEPT ![c] = TRUE] ELSE sie

(* acquire and release of p->lock and of lk.lk. *)
Acquire(c, p) == plock[p] = NoCpu /\ plock' = [plock EXCEPT ![p] = c]
Release(p) == plock' = [plock EXCEPT ![p] = NoCpu]
AcquireSpin(c) == spin = NoCpu /\ spin' = c /\ PushOff(c)
ReleaseSpin(c) == spin' = NoCpu /\ PopOff(c, intena[c])

Goto(p, l) == pc' = [pc EXCEPT ![p] = l]
Runs(c, p, l) == stack[c] = p /\ pc[p] = l
-----------------------------------------------------------------------------
(* scheduler() and sched().                                                *)

(* intr_on at the top of the scheduler's loop. *)
IntrOn(c) ==
  /\ stack[c] = NoProc /\ cproc[c] = NoProc /\ ~sie[c]
  /\ sie' = [sie EXCEPT ![c] = TRUE]
  /\ UNCHANGED <<proc, thread, sleeplock, cproc, stack, noff, intena>>

(* Fault: the scheduler tests p->state without waiting for p->lock. *)
DispatchUnlocked(c, p) ==
  /\ stack[c] = NoProc /\ cproc[c] = NoProc
  /\ plock' = [plock EXCEPT ![p] = c] /\ PushOff(c)
  /\ state[p] = "RUNNABLE"
  /\ state' = [state EXCEPT ![p] = "RUNNING"]
  /\ cproc' = [cproc EXCEPT ![c] = p]
  /\ stack' = [stack EXCEPT ![c] = p]
  /\ UNCHANGED <<chan, thread, sleeplock>>

(* The scheduler takes p->lock, finds p runnable and swtches to it.  The   *)
(* round in which it visits the table is not modelled: any p may be next.  *)
Dispatch(c, p) ==
  /\ stack[c] = NoProc /\ cproc[c] = NoProc
  /\ Acquire(c, p) /\ PushOff(c)
  /\ state[p] = "RUNNABLE"
  /\ state' = [state EXCEPT ![p] = "RUNNING"]
  /\ cproc' = [cproc EXCEPT ![c] = p]
  /\ stack' = [stack EXCEPT ![c] = p]
  /\ UNCHANGED <<chan, thread, sleeplock>>

(* sched(): remember intena, save the context, back to the scheduler. *)
Sched(c, p) ==
  /\ stack[c] = p /\ pc[p] \in {"sched_sleep", "sched_yield"}
  /\ saved' = [saved EXCEPT ![p] = intena[c]]
  /\ stack' = [stack EXCEPT ![c] = NoProc]
  /\ Goto(p, IF pc[p] = "sched_sleep" THEN "woken" ELSE "yielded")
  /\ UNCHANGED <<proc, back, todo, sleeplock, cproc, cpu>>

(* The scheduler after the swtch: c->proc = 0 and release(&p->lock). *)
SchedulerBack(c) ==
  /\ stack[c] = NoProc /\ cproc[c] # NoProc
  /\ cproc' = [cproc EXCEPT ![c] = NoProc]
  /\ Release(cproc[c]) /\ PopOff(c, intena[c])
  /\ UNCHANGED <<state, chan, thread, sleeplock, stack>>

(* The first swtch to a process: forkret releases p->lock, which leaves    *)
(* interrupts as the scheduler had them.  fsinit, which the first process  *)
(* calls here, is left out.                                                *)
Forkret(c, p) ==
  /\ Runs(c, p, "forkret")
  /\ Release(p) /\ PopOff(c, intena[c])
  /\ Goto(p, "forked")
  /\ UNCHANGED <<state, chan, back, saved, todo, sleeplock, cproc, stack>>

(* forkret's usertrapret. *)
ForkretReturn(c, p) ==
  /\ Runs(c, p, "forked")
  /\ Goto(p, "user")
  /\ sie' = [sie EXCEPT ![c] = TRUE]
  /\ UNCHANGED <<proc, back, saved, todo, sleeplock, cproc, stack, noff, intena>>
-----------------------------------------------------------------------------
(* Timer interrupts: usertrap, kerneltrap and yield.                       *)

Trap(c, p) ==
  /\ stack[c] = p /\ sie[c]
  /\ back' = [back EXCEPT ![p] = pc[p]]
  /\ Goto(p, "yield")
  /\ sie' = [sie EXCEPT ![c] = FALSE]
  /\ UNCHANGED <<proc, saved, todo, sleeplock, cproc, stack, noff, intena>>

Yield(c, p) ==
  /\ Runs(c, p, "yield")
  /\ Acquire(c, p) /\ PushOff(c)
  /\ state' = [state EXCEPT ![p] = "RUNNABLE"]
  /\ Goto(p, "sched_yield")
  /\ UNCHANGED <<chan, back, saved, todo, sleeplock, cproc, stack>>

(* sched() returns to yield(), which releases p->lock. *)
Yielded(c, p) ==
  /\ Runs(c, p, "yielded")
  /\ Release(p) /\ PopOff(c, saved[p])
  /\ Goto(p, "trapret")
  /\ UNCHANGED <<state, chan, back, saved, todo, sleeplock, cproc, stack>>

(* sret, at the end of kernelvec or of userret, enables interrupts. *)
TrapReturn(c, p) ==
  /\ Runs(c, p, "trapret")
  /\ Goto(p, back[p])
  /\ sie' = [sie EXCEPT ![c] = TRUE]
  /\ UNCHANGED <<proc, back, saved, todo, sleeplock, cproc, stack, noff, intena>>

(* A system call: usertrap enables interrupts before syscall(). *)
Syscall(c, p) ==
  /\ Runs(c, p, "user")
  /\ Goto(p, "sys")
  /\ sie' = [sie EXCEPT ![c] = TRUE]
  /\ UNCHANGED <<proc, back, saved, todo, sleeplock, cproc, stack, noff, intena>>

(* usertrapret disables interrupts, the sret to user mode enables them. *)
UserTrapRet(c, p) ==
  /\ Runs(c, p, "sys") /\ p \notin holding
  /\ Goto(p, "user")
  /\ sie' = [sie EXCEPT ![c] = TRUE]
  /\ UNCHANGED <<proc, back, saved, todo, sleeplock, cproc, stack, noff, intena>>
-----------------------------------------------------------------------------
(* sleeplock.c, sleep(), wakeup() and kill().                              *)

AcquireSleep(c, p) ==
  /\ Runs(c, p, "sys") /\ p \notin holding
  /\ AcquireSpin(c)
  /\ Goto(p, "loop")
  /\ UNCHANGED <<proc, back, saved, todo, locked, holding, cproc, stack>>

(* The loop of acquiresleep ends: the lock is free. *)
TakeLock(c, p) ==
  /\ Runs(c, p, "loop") /\ ~locked
  /\ locked' = TRUE
  /\ holding' = holding \cup {p}
  /\ ReleaseSpin(c)
  /\ Goto(p, "sys")
  /\ UNCHANGED <<proc, back, saved, todo, cproc, stack>>

(* Fault: sleep() does not take p->lock. *)
SleepUnlocked(c, p) ==
  /\ Runs(c, p, "loop") /\ locked
  /\ Goto(p, "sleep")
  /\ UNCHANGED <<proc, back, saved, todo, sleeplock, cproc, stack, cpu>>

(* sleep(lk, &lk->lk) up to the release of lk.lk: take p->lock first. *)
Sleep(c, p) ==
  /\ Runs(c, p, "loop") /\ locked
  /\ Acquire(c, p) /\ PushOff(c)
  /\ Goto(p, "sleep")
  /\ UNCHANGED <<state, chan, back, saved, todo, sleeplock, cproc, stack>>

(* Fault: sleep() keeps lk.lk while it sleeps. *)
GoToSleepHolding(c, p) ==
  /\ Runs(c, p, "sleep")
  /\ chan' = [chan EXCEPT ![p] = TRUE]
  /\ state' = [state EXCEPT ![p] = "SLEEPING"]
  /\ Goto(p, "sched_sleep")
  /\ UNCHANGED <<plock, back, saved, todo, sleeplock, cproc, stack, cpu>>

(* The rest of sleep() up to sched(). *)
GoToSleep(c, p) ==
  /\ Runs(c, p, "sleep")
  /\ ReleaseSpin(c)
  /\ chan' = [chan EXCEPT ![p] = TRUE]
  /\ state' = [state EXCEPT ![p] = "SLEEPING"]
  /\ Goto(p, "sched_sleep")
  /\ UNCHANGED <<plock, back, saved, todo, locked, holding, cproc, stack>>

(* Fault: sched() does not restore c->intena. *)
WokenIntena(c, p) ==
  /\ Runs(c, p, "woken")
  /\ chan' = [chan EXCEPT ![p] = FALSE]
  /\ Release(p) /\ PopOff(c, intena[c])
  /\ Goto(p, "reacquire")
  /\ UNCHANGED <<state, back, saved, todo, sleeplock, cproc, stack>>

(* sched() returns to sleep(). *)
Woken(c, p) ==
  /\ Runs(c, p, "woken")
  /\ chan' = [chan EXCEPT ![p] = FALSE]
  /\ Release(p) /\ PopOff(c, saved[p])
  /\ Goto(p, "reacquire")
  /\ UNCHANGED <<state, back, saved, todo, sleeplock, cproc, stack>>

(* Fault: acquiresleep tests lk.locked with an if, not a while. *)
ReacquireAndTake(c, p) ==
  /\ Runs(c, p, "reacquire")
  /\ AcquireSpin(c)
  /\ locked' = TRUE
  /\ holding' = holding \cup {p}
  /\ Goto(p, "wakeup")
  /\ UNCHANGED <<proc, back, saved, todo, cproc, stack>>

(* acquire(lk) at the end of sleep(); acquiresleep tests lk.locked again. *)
Reacquire(c, p) ==
  /\ Runs(c, p, "reacquire")
  /\ AcquireSpin(c)
  /\ Goto(p, "loop")
  /\ UNCHANGED <<proc, back, saved, todo, locked, holding, cproc, stack>>

(* Fault: releasesleep without the wakeup. *)
ReleaseSleepSilently(c, p) ==
  /\ Runs(c, p, "sys") /\ p \in holding
  /\ AcquireSpin(c)
  /\ locked' = FALSE
  /\ holding' = holding \ {p}
  /\ Goto(p, "wakeup")
  /\ UNCHANGED <<proc, back, saved, todo, cproc, stack>>

(* releasesleep up to the loop of wakeup(lk). *)
ReleaseSleep(c, p) ==
  /\ Runs(c, p, "sys") /\ p \in holding
  /\ AcquireSpin(c)
  /\ locked' = FALSE
  /\ holding' = holding \ {p}
  /\ todo' = [todo EXCEPT ![p] = Proc \ {p}]
  /\ Goto(p, "wakeup")
  /\ UNCHANGED <<proc, back, saved, cproc, stack>>

(* What wakeup(lk) does to a process whose lock it holds. *)
Wake(q) ==
  state' = IF state[q] = "SLEEPING" /\ chan[q] THEN [state EXCEPT ![q] = "RUNNABLE"] ELSE state

(* Fault: wakeup() passes over a process whose lock is taken. *)
WakeupTurnTry(c, p, q) ==
  /\ Runs(c, p, "wakeup") /\ q \in todo[p]
  /\ IF plock[q] = NoCpu THEN Wake(q) ELSE UNCHANGED state
  /\ todo' = [todo EXCEPT ![p] = @ \ {q}]
  /\ UNCHANGED <<chan, plock, pc, back, saved, sleeplock, cproc, stack, cpu>>

(* One turn of the loop of wakeup(), in any order of the table. *)
WakeupTurn(c, p, q) ==
  /\ Runs(c, p, "wakeup") /\ q \in todo[p]
  /\ plock[q] = NoCpu
  /\ Wake(q)
  /\ todo' = [todo EXCEPT ![p] = @ \ {q}]
  /\ UNCHANGED <<chan, plock, pc, back, saved, sleeplock, cproc, stack, cpu>>

(* The end of releasesleep. *)
WakeupDone(c, p) ==
  /\ Runs(c, p, "wakeup") /\ todo[p] = {}
  /\ ReleaseSpin(c)
  /\ Goto(p, "sys")
  /\ UNCHANGED <<proc, back, saved, todo, locked, holding, cproc, stack>>

(* kill() of a sleeping process; acquiresleep goes round its loop again. *)
Kill(c, p, q) ==
  /\ Runs(c, p, "sys") /\ p \notin holding
  /\ plock[q] = NoCpu /\ state[q] = "SLEEPING"
  /\ state' = [state EXCEPT ![q] = "RUNNABLE"]
  /\ intena' = [intena EXCEPT ![c] = sie[c]]
  /\ UNCHANGED <<chan, plock, thread, sleeplock, cproc, stack, noff, sie>>
-----------------------------------------------------------------------------
Run(c, p) ==
  \/ Sched(c, p) \/ Forkret(c, p) \/ ForkretReturn(c, p)
  \/ Yield(c, p) \/ Yielded(c, p) \/ TrapReturn(c, p)
  \/ TakeLock(c, p) \/ Sleep(c, p) \/ GoToSleep(c, p) \/ Woken(c, p)
  \/ Reacquire(c, p) \/ WakeupDone(c, p)
  \/ \E q \in Proc : WakeupTurn(c, p, q)

User(c, p) ==
  \/ Syscall(c, p) \/ UserTrapRet(c, p)
  \/ AcquireSleep(c, p)
  \/ \E q \in Proc : Kill(c, p, q)

Next ==
  \E c \in Cpu :
    \/ IntrOn(c) \/ SchedulerBack(c)
    \/ \E p \in Proc : Dispatch(c, p) \/ Trap(c, p) \/ ReleaseSleep(c, p) \/ Run(c, p) \/ User(c, p)

Spec == Init /\ [][Next]_vars

(* A CPU goes on with what it does and is interrupted again and again by   *)
(* its timer; the schedulers visit a runnable process in every round; a    *)
(* spin lock that is released often is got at last, and kernel code that   *)
(* holds a sleep lock gets to its releasesleep.                            *)
Fairness ==
  /\ \A c \in Cpu : WF_vars(IntrOn(c) \/ SchedulerBack(c))
  /\ \A c \in Cpu, p \in Proc : WF_vars(Trap(c, p)) /\ SF_vars(Run(c, p))
  /\ \A p \in Proc : /\ SF_vars(\E c \in Cpu : Dispatch(c, p))
                     /\ SF_vars(\E c \in Cpu : ReleaseSleep(c, p))

FairSpec == Spec /\ Fairness
-----------------------------------------------------------------------------
(* Every variable has its type: in particular a trap comes only in user    *)
(* space, in a system call, in forkret or between sleep()'s two locks, and *)
(* pop_off is never called more often than push_off.                       *)
TypeOK ==
  /\ state \in [Proc -> {"RUNNABLE", "RUNNING", "SLEEPING"}]
  /\ chan \in [Proc -> BOOLEAN]
  /\ plock \in [Proc -> Cpu \cup {NoCpu}]
  /\ pc \in [Proc -> {"forkret", "forked", "user", "sys", "yield", "sched_yield", "yielded", "trapret",
                      "loop", "sleep", "sched_sleep", "woken", "reacquire", "wakeup"}]
  /\ back \in [Proc -> {"forked", "user", "sys", "reacquire"}]
  /\ saved \in [Proc -> BOOLEAN]
  /\ todo \in [Proc -> SUBSET Proc]
  /\ spin \in Cpu \cup {NoCpu}
  /\ locked \in BOOLEAN
  /\ holding \in SUBSET Proc
  /\ cproc \in [Cpu -> Proc \cup {NoProc}]
  /\ stack \in [Cpu -> Proc \cup {NoProc}]
  /\ noff \in [Cpu -> Nat]
  /\ intena \in [Cpu -> BOOLEAN]
  /\ sie \in [Cpu -> BOOLEAN]

(* Two CPUs never run on the same kernel stack, and a process that some    *)
(* scheduler could switch to has left the stack and saved its context:     *)
(* p->lock is held from the change of p->state until after the swtch.      *)
OneStack ==
  \A c \in Cpu, p \in Proc :
    stack[c] = p =>
      /\ \A d \in Cpu : stack[d] = p => d = c
      /\ ~(state[p] = "RUNNABLE" /\ plock[p] = NoCpu)

(* No CPU takes a spin lock that it already holds, on whichever stack it   *)
(* took it, or releases one that it does not hold.                         *)
MayAcquire(c, p) ==
  /\ pc[p] \in {"yield", "loop"} => plock[p] # c
  /\ pc[p] \in {"sys", "reacquire"} => spin # c
  /\ pc[p] = "wakeup" => \A q \in todo[p] : plock[q] # c
MayRelease(c, p) ==
  /\ pc[p] \in {"forkret", "yielded", "woken"} => plock[p] = c
  /\ pc[p] \in {"loop", "sleep", "wakeup"} => spin = c
SchedulerMayLock(c) ==
  IF cproc[c] = NoProc THEN \A p \in Proc : plock[p] # c ELSE plock[cproc[c]] = c

(* The conditions on which sched(), acquire() and release() panic never    *)
(* hold: a thread that calls sched() has its p->lock and no other lock,    *)
(* and locks change hands across swtch so that whoever runs next on the    *)
(* CPU holds what it releases and does not hold what it takes.             *)
SchedChecks ==
  \A c \in Cpu :
    /\ stack[c] = NoProc => SchedulerMayLock(c)
    /\ \A p \in Proc : stack[c] = p =>
         /\ MayAcquire(c, p) /\ MayRelease(c, p)
         /\ pc[p] \in {"sched_sleep", "sched_yield"} =>
              plock[p] = c /\ noff[c] = 1 /\ state[p] # "RUNNING" /\ ~sie[c]

(* c->noff counts the spin locks the CPU holds, whichever threads took     *)
(* them, and interrupts are off while there is one: an interrupt handler   *)
(* never spins on a lock of the code it interrupted.                       *)
LocksMaskInterrupts ==
  \A c \in Cpu :
    /\ noff[c] = Cardinality({p \in Proc : plock[p] = c}) + (IF spin = c THEN 1 ELSE 0)
    /\ noff[c] > 0 => ~sie[c]

(* A kernel thread that holds no lock has the interrupt state it had       *)
(* before it slept or yielded, on whatever CPU it was resumed: on in a     *)
(* system call, off in a trap handler that is about to restore sepc.       *)
InterruptsRestored ==
  \A c \in Cpu, p \in Proc :
    stack[c] = p => /\ pc[p] \in {"user", "sys", "reacquire"} => sie[c]
                    /\ pc[p] \in {"yield", "trapret"} => ~sie[c]

(* A timer interrupt only makes yield a process that is RUNNING, never one *)
(* that has gone to sleep, and never on the scheduler's own stack.         *)
YieldsWhenRunning ==
  \A c \in Cpu : cproc[c] # NoProc /\ sie[c] =>
    stack[c] = cproc[c] /\ state[cproc[c]] = "RUNNING"

(* acquiresleep gives the sleep lock to one process at a time. *)
MutualExclusion ==
  Cardinality(holding) <= 1 /\ (locked <=> holding # {})

(* A process sleeps on lk only while lk is held or while the wakeup() of   *)
(* whoever released it has still to come to the process.                   *)
NoLostWakeup ==
  \A p \in Proc : state[p] = "SLEEPING" => locked \/ \E q \in Proc : p \in todo[q]

(* A process that sleeps on lk is made runnable again. *)
SleepLockPasses == \A p \in Proc : state[p] = "SLEEPING" ~> state[p] = "RUNNABLE"
=============================================================================
