-------------------------------- MODULE Log --------------------------------
(***************************************************************************)
(* The redo log of kernel/log.c together with what it needs of the buffer  *)
(* cache (kernel/bio.c): which blocks are cached, with what data, which    *)
(* are pinned and which buffer is locked by whom.                          *)
(*                                                                         *)
(* Every critical section under log.lock is one action; every write of a   *)
(* disk block is a step of its own, so that a crash can come between any   *)
(* two of them.  A crash loses all that is in memory and keeps the disk;   *)
(* the machine then boots and runs recover_from_log, which may crash too.  *)
(* The disk writes one block atomically and in the order it is asked       *)
(* (virtio_disk_rw returns when the write has completed).                  *)
(***************************************************************************)
EXTENDS Integers, Sequences, FiniteSets

CONSTANTS
  Op,           \* the processes that make file-system calls
  Block,        \* home blocks, those outside the log
  Value,        \* the contents of a block
  MAXOPBLOCKS,  \* what begin_op reserves for a call
  OpBlocks,     \* the most distinct blocks a call really writes
  LOGSIZE,      \* length of logheader.block
  NLOG,         \* log.size: blocks of the on-disk log, its header included
  NoValue,      \* not the contents of a block
  NoBlock       \* not a block

ASSUME LogAssumption ==
  /\ IsFiniteSet(Op)
  /\ MAXOPBLOCKS \in Nat \ {0}
  /\ LOGSIZE \in Nat /\ MAXOPBLOCKS <= LOGSIZE
  /\ OpBlocks \in Nat
  /\ NLOG \in Nat \ {0}
  /\ NoValue \notin Value
  /\ NoBlock \notin Block

VARIABLES
  home,         \* on disk: the home blocks
  dlog,         \* on disk: the data blocks of the log
  dhead,        \* on disk: block[0..n-1] of the log's header
  cache,        \* data of the valid buffer of a block, or NoValue
  pin,          \* how often the log has pinned the buffer of a block
  lh,           \* log.lh: block[0..n-1]
  outstanding,  \* log.outstanding
  committing,   \* log.committing
  pc,           \* where each process is
  buf,          \* the buffer a process holds locked, or NoBlock
  dirty,        \* it has changed that buffer and not yet called log_write
  wrote,        \* the blocks logged by a process in its current call
  torn,         \* blocks whose buffer was changed and released unlogged
  phase,        \* what boot or commit() does next, "run" when neither is on
  tail          \* the loop counter of write_log and install_trans, plus 1

disk == <<home, dlog, dhead>>
calls == <<pc, buf, dirty, wrote>>
vars == <<disk, cache, pin, lh, outstanding, committing, calls, torn, phase, tail>>

Slot == 1..(NLOG - 1)
Logged(h) == {h[i] : i \in 1..Len(h)}

(* No file-system call runs before fsinit has recovered the log: the first *)
(* process calls it in forkret, and there is no other process yet.         *)
Booting == phase \in {"boot", "rinstall", "rclear"}

(* A process that panics in log_write or end_op keeps log.lock for ever.   *)
LockFree == \A q \in Op : pc[q] # "panic"

Locked(b) == \E q \in Op : buf[q] = b
Cached(b) == IF cache[b] = NoValue THEN home[b] ELSE cache[b]

Init ==
  /\ home \in [Block -> Value]
  /\ dlog \in [Slot -> Value]
  /\ dhead = << >>
  /\ cache = [b \in Block |-> NoValue]
  /\ pin = [b \in Block |-> 0]
  /\ lh = << >>
  /\ outstanding = 0
  /\ committing = FALSE
  /\ pc = [p \in Op |-> "idle"]
  /\ buf = [p \in Op |-> NoBlock]
  /\ dirty = [p \in Op |-> FALSE]
  /\ wrote = [p \in Op |-> {}]
  /\ torn = {}
  /\ phase = "boot"
  /\ tail = 1
-----------------------------------------------------------------------------
(* begin_op, end_op and log_write.                                         *)

(* Fault: begin_op counts the running calls but not the new one. *)
RoomForOthers == Len(lh) + outstanding * MAXOPBLOCKS <= LOGSIZE

Room == Len(lh) + (outstanding + 1) * MAXOPBLOCKS <= LOGSIZE

(* Fault: the wakeup(&log) is missing. *)
WakeupNobody(f) == f

(* wakeup(&log): the sleepers in begin_op go round its loop again. *)
Wakeup(f) == [q \in Op |-> IF f[q] = "asleep" THEN "begin" ELSE f[q]]

(* One turn of the loop of begin_op, from acquire or the return of sleep to *)
(* the next sleep or to the break.                                         *)
BeginOp(p) ==
  /\ pc[p] \in {"idle", "begin"} /\ ~Booting /\ LockFree
  /\ IF ~committing /\ Room
     THEN /\ outstanding' = outstanding + 1
          /\ pc' = [pc EXCEPT ![p] = "op"]
          /\ wrote' = [wrote EXCEPT ![p] = {}]
     ELSE /\ pc' = [pc EXCEPT ![p] = "asleep"]
          /\ UNCHANGED <<outstanding, wrote>>
  /\ UNCHANGED <<disk, cache, pin, lh, committing, buf, dirty, torn, phase, tail>>

(* bread by a call: lock the buffer, and fill it when it is not valid.  A  *)
(* call that keeps a second buffer meanwhile (bmap) is taken to release it *)
(* and to read it again.                                                   *)
Bread(p, b) ==
  /\ pc[p] = "op" /\ buf[p] = NoBlock /\ ~Locked(b)
  /\ buf' = [buf EXCEPT ![p] = b]
  /\ cache' = [cache EXCEPT ![b] = Cached(b)]
  /\ UNCHANGED <<disk, pin, lh, outstanding, committing, pc, dirty, wrote, torn, phase, tail>>

(* The call changes the data of the buffer it holds. *)
Modify(p, v) ==
  /\ pc[p] = "op" /\ buf[p] # NoBlock
  /\ buf[p] \in wrote[p] \/ Cardinality(wrote[p]) < OpBlocks
  /\ cache' = [cache EXCEPT ![buf[p]] = v]
  /\ dirty' = [dirty EXCEPT ![p] = TRUE]
  /\ UNCHANGED <<disk, pin, lh, outstanding, committing, pc, buf, wrote, torn, phase, tail>>

TooBig == Len(lh) >= LOGSIZE \/ Len(lh) >= NLOG - 1

Pin(b) == [pin EXCEPT ![b] = @ + 1]

(* log_write: absorb the block, or append it to the header and pin it. *)
LogWrite(p) ==
  /\ pc[p] = "op" /\ dirty[p] /\ LockFree
  /\ IF TooBig \/ outstanding < 1
     THEN /\ pc' = [pc EXCEPT ![p] = "panic"]
          /\ UNCHANGED <<lh, pin, dirty, wrote, torn>>
     ELSE /\ IF buf[p] \in Logged(lh)
             THEN UNCHANGED <<lh, pin>>
             ELSE lh' = Append(lh, buf[p]) /\ pin' = Pin(buf[p])
          /\ dirty' = [dirty EXCEPT ![p] = FALSE]
          /\ wrote' = [wrote EXCEPT ![p] = @ \cup {buf[p]}]
          /\ torn' = torn \ {buf[p]}
          /\ UNCHANGED pc
  /\ UNCHANGED <<disk, cache, outstanding, committing, buf, phase, tail>>

(* brelse.  A buffer released dirty is the error path of writei: the copy  *)
(* from user space failed part way, and log_write is not called.           *)
Brelse(p) ==
  /\ pc[p] = "op" /\ buf[p] # NoBlock
  /\ torn' = IF dirty[p] /\ buf[p] \notin Logged(lh) THEN torn \cup {buf[p]} ELSE torn
  /\ buf' = [buf EXCEPT ![p] = NoBlock]
  /\ dirty' = [dirty EXCEPT ![p] = FALSE]
  /\ UNCHANGED <<disk, cache, pin, lh, outstanding, committing, pc, wrote, phase, tail>>

LastOut == outstanding - 1 = 0

(* end_op up to its first release of log.lock.  The last call out starts   *)
(* commit(), which has nothing to do when the log is empty.                *)
EndOp(p) ==
  /\ pc[p] = "op" /\ buf[p] = NoBlock /\ LockFree
  /\ outstanding' = outstanding - 1
  /\ IF committing
     THEN pc' = [pc EXCEPT ![p] = "panic"] /\ UNCHANGED <<committing, phase, tail>>
     ELSE IF LastOut
     THEN /\ committing' = TRUE
          /\ pc' = [pc EXCEPT ![p] = "commit"]
          /\ phase' = IF lh = << >> THEN "finish" ELSE "write_log"
          /\ tail' = 1
     ELSE pc' = Wakeup([pc EXCEPT ![p] = "idle"]) /\ UNCHANGED <<committing, phase, tail>>
  /\ UNCHANGED <<disk, cache, pin, lh, buf, dirty, wrote, torn>>
-----------------------------------------------------------------------------
(* commit() and recover_from_log(), one disk write per step.               *)

(* Fault: the loop counter is not advanced. *)
AdvanceStuck(next) ==
  IF tail < Len(lh)
  THEN UNCHANGED <<tail, phase>>
  ELSE tail' = 1 /\ phase' = next

(* The loop of install_trans or write_log goes on, or its caller does. *)
Advance(next) ==
  IF tail < Len(lh)
  THEN tail' = tail + 1 /\ UNCHANGED phase
  ELSE tail' = 1 /\ phase' = next

(* One turn of the loop of write_log: copy a cached block into the log. *)
WriteLog ==
  /\ phase = "write_log" /\ ~Locked(lh[tail])
  /\ dlog' = [dlog EXCEPT ![tail] = Cached(lh[tail])]
  /\ cache' = [cache EXCEPT ![lh[tail]] = Cached(lh[tail])]
  /\ Advance("write_head")
  /\ UNCHANGED <<home, dhead, pin, lh, outstanding, committing, calls, torn>>

(* write_head with the group's blocks: the commit point. *)
WriteHead ==
  /\ phase = "write_head"
  /\ dhead' = lh
  /\ phase' = "install"
  /\ UNCHANGED <<home, dlog, cache, pin, lh, outstanding, committing, calls, torn, tail>>

(* Fault: install_trans unpins while recovering too. *)
UnpinAlways(b) == [pin EXCEPT ![b] = @ - 1]

(* Fault: install_trans forgets to unpin. *)
UnpinNever(b) == pin

Unpin(b) == IF phase = "install" THEN [pin EXCEPT ![b] = @ - 1] ELSE pin

(* Fault: install_trans copies the block but does not bwrite it. *)
InstallInMemory ==
  /\ phase \in {"install", "rinstall"} /\ ~Locked(lh[tail])
  /\ cache' = [cache EXCEPT ![lh[tail]] = dlog[tail]]
  /\ pin' = Unpin(lh[tail])
  /\ Advance(IF phase = "install" THEN "clear" ELSE "rclear")
  /\ UNCHANGED <<disk, lh, outstanding, committing, calls, torn>>

(* One turn of the loop of install_trans: copy a log block home, in the    *)
(* cache and on disk, and, unless recovering, unpin its buffer.            *)
InstallTrans ==
  /\ phase \in {"install", "rinstall"} /\ ~Locked(lh[tail])
  /\ home' = [home EXCEPT ![lh[tail]] = dlog[tail]]
  /\ cache' = [cache EXCEPT ![lh[tail]] = dlog[tail]]
  /\ pin' = Unpin(lh[tail])
  /\ Advance(IF phase = "install" THEN "clear" ELSE "rclear")
  /\ UNCHANGED <<dlog, dhead, lh, outstanding, committing, calls, torn>>

(* log.lh.n = 0 and the write_head that erases the log. *)
Clear ==
  /\ phase \in {"clear", "rclear"}
  /\ lh' = << >>
  /\ dhead' = << >>
  /\ phase' = IF phase = "clear" THEN "finish" ELSE "run"
  /\ UNCHANGED <<home, dlog, cache, pin, outstanding, committing, calls, torn, tail>>

(* Fault: no wakeup(&log) once the commit is over. *)
FinishSilently(p) ==
  /\ pc[p] = "commit" /\ phase = "finish" /\ LockFree
  /\ committing' = FALSE
  /\ phase' = "run"
  /\ pc' = [pc EXCEPT ![p] = "idle"]
  /\ UNCHANGED <<disk, cache, pin, lh, outstanding, buf, dirty, wrote, torn, tail>>

(* The end of end_op after commit() has returned. *)
Finish(p) ==
  /\ pc[p] = "commit" /\ phase = "finish" /\ LockFree
  /\ committing' = FALSE
  /\ phase' = "run"
  /\ pc' = Wakeup([pc EXCEPT ![p] = "idle"])
  /\ UNCHANGED <<disk, cache, pin, lh, outstanding, buf, dirty, wrote, torn, tail>>

(* Fault: the loop of read_head stops one block early. *)
ReadHeadShort ==
  /\ phase = "boot"
  /\ lh' = SubSeq(dhead, 1, Len(dhead) - 1)
  /\ tail' = 1
  /\ phase' = IF Len(dhead) <= 1 THEN "rclear" ELSE "rinstall"
  /\ UNCHANGED <<disk, cache, pin, outstanding, committing, calls, torn>>

(* read_head, at boot. *)
ReadHead ==
  /\ phase = "boot"
  /\ lh' = dhead
  /\ tail' = 1
  /\ phase' = IF dhead = << >> THEN "rclear" ELSE "rinstall"
  /\ UNCHANGED <<disk, cache, pin, outstanding, committing, calls, torn>>

(* bread and brelse outside any call, by sys_read or sys_fstat for one. *)
Load(b) ==
  /\ ~Booting /\ ~Locked(b)
  /\ cache[b] = NoValue
  /\ cache' = [cache EXCEPT ![b] = home[b]]
  /\ UNCHANGED <<disk, pin, lh, outstanding, committing, calls, torn, phase, tail>>

(* bget recycles the buffer of b, which nobody references, for a block of  *)
(* which this model says nothing (a log block, say).                       *)
Recycle(b) ==
  /\ pin[b] = 0 /\ ~Locked(b)
  /\ cache[b] # NoValue
  /\ cache' = [cache EXCEPT ![b] = NoValue]
  /\ torn' = torn \ {b}
  /\ UNCHANGED <<disk, pin, lh, outstanding, committing, calls, phase, tail>>

(* Power fails: memory is lost, the disk stays, the machine reboots. *)
Crash ==
  /\ cache' = [b \in Block |-> NoValue]
  /\ pin' = [b \in Block |-> 0]
  /\ lh' = << >>
  /\ outstanding' = 0
  /\ committing' = FALSE
  /\ pc' = [p \in Op |-> "idle"]
  /\ buf' = [p \in Op |-> NoBlock]
  /\ dirty' = [p \in Op |-> FALSE]
  /\ wrote' = [p \in Op |-> {}]
  /\ torn' = {}
  /\ phase' = "boot"
  /\ tail' = 1
  /\ UNCHANGED disk

Commit == WriteLog \/ WriteHead \/ \E p \in Op : Finish(p)
Call(p) == BeginOp(p) \/ LogWrite(p) \/ Brelse(p) \/ EndOp(p)

Next ==
  \/ \E p \in Op : Call(p)
  \/ \E p \in Op, b \in Block : Bread(p, b)
  \/ \E p \in Op, v \in Value : Modify(p, v)
  \/ Commit
  \/ InstallTrans
  \/ Clear
  \/ ReadHead
  \/ \E b \in Block : Load(b) \/ Recycle(b)
  \/ Crash

Spec == Init /\ [][Next]_vars

(* The scheduler runs every runnable process again and again, a call       *)
(* touches finitely many buffers, so it gets to its end_op, and the power  *)
(* stays on long enough in the end.                                        *)
Fairness ==
  /\ <>[][~Crash]_vars
  /\ WF_vars(Commit \/ InstallTrans \/ Clear \/ ReadHead)
  /\ \A p \in Op : /\ WF_vars(pc[p] = "begin" /\ BeginOp(p))
                   /\ WF_vars(Brelse(p))
                   /\ SF_vars(EndOp(p))

FairSpec == Spec /\ Fairness
-----------------------------------------------------------------------------
(* Every variable has its type: in particular install_trans never unpins a *)
(* buffer that log_write has not pinned, so no pin count goes below zero.  *)
TypeOK ==
  /\ home \in [Block -> Value]
  /\ dlog \in [Slot -> Value]
  /\ dhead \in Seq(Block)
  /\ cache \in [Block -> Value \cup {NoValue}]
  /\ pin \in [Block -> Nat]
  /\ lh \in Seq(Block)
  /\ outstanding \in Nat
  /\ committing \in BOOLEAN
  /\ pc \in [Op -> {"idle", "begin", "asleep", "op", "commit", "panic"}]
  /\ buf \in [Op -> Block \cup {NoBlock}]
  /\ dirty \in [Op -> BOOLEAN]
  /\ wrote \in [Op -> SUBSET Block]
  /\ torn \in SUBSET Block
  /\ phase \in {"boot", "rinstall", "rclear", "run", "write_log", "write_head",
                "install", "clear", "finish"}
  /\ tail \in Nat \ {0}
-----------------------------------------------------------------------------
(* What recovery would leave in each block if the machine crashed now. *)
Replay(h, d, hd) ==
  [b \in Block |-> IF b \in Logged(hd)
                   THEN d[CHOOSE i \in 1..Len(hd) : hd[i] = b]
                   ELSE h[b]]
Recovered == Replay(home, dlog, dhead)

(* The group has not reached its commit point. *)
Uncommitted == phase \in {"run", "write_log", "write_head"}

(* The writes of the current group: the cached data of the logged blocks. *)
GroupWrites ==
  [b \in Block |-> IF Uncommitted /\ b \in Logged(lh) THEN cache[b] ELSE NoValue]

Active == {p \in Op : pc[p] \in {"op", "panic"}}

Disk == INSTANCE AtomicDisk
          WITH durable <- Recovered, pending <- GroupWrites, active <- Active

(* The log implements the atomic disk: the durable contents change only at *)
(* the commit point, by all the writes of a group whose calls have all     *)
(* ended, whatever crashes come before, during or after commit() and       *)
(* recover_from_log().                                                     *)
AtomicGroups == Disk!Spec

(* The blocks of the header whose home copy is not up to date yet. *)
AwaitingInstall ==
  IF Uncommitted THEN Logged(lh)
  ELSE IF phase = "install" THEN {lh[i] : i \in tail..Len(lh)}
  ELSE {}

(* log_write pins the buffer of a block once per group, however many calls *)
(* write it, and install_trans unpins it: no buffer is pinned for ever.    *)
PinnedWhileLogged ==
  \A b \in Block : pin[b] = IF b \in AwaitingInstall THEN 1 ELSE 0

(* Whoever breads a block, in or outside a call and even while commit() is *)
(* half way, gets the write of the current group or else the committed     *)
(* data, never an older version, unless writei has released it unlogged.   *)
Current(b) == Cached(b) = IF GroupWrites[b] # NoValue THEN GroupWrites[b] ELSE Recovered[b]
Unlocked(b) == \A p \in Op : buf[p] = b => ~dirty[p]
CacheCurrent ==
  ~Booting => \A b \in Block \ torn : Unlocked(b) => Current(b)

(* The rule of bio.c, "After changing buffer data, call bwrite to write it *)
(* to disk" (for which log_write stands in): a changed buffer that is      *)
(* released belongs to the group, so readers only see what will persist.   *)
ChangesAreLogged ==
  ~Booting => \A b \in Block : Unlocked(b) => Current(b)

(* A process sleeps in begin_op only while the condition it sleeps for     *)
(* holds: each change that may end the wait comes with a wakeup(&log).     *)
SleepersHaveCause ==
  \A p \in Op : pc[p] = "asleep" => committing \/ ~Room

(* No call ends in one of the panics of log_write and end_op. *)
NoPanic == \A p \in Op : pc[p] # "panic"

(* A sleeper in begin_op is woken: the calls it waits for end, and commit. *)
SleepersWake == \A p \in Op : pc[p] = "asleep" ~> pc[p] # "asleep"

(* A group whose calls have all ended is committed and installed, unless   *)
(* the machine crashes first; either way the log is usable again.          *)
CommitEnds == phase # "run" ~> phase = "run"
=============================================================================
