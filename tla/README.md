# A TLA+ model of the xv6 kernel of this repository

The repository is xv6 for RISC-V, a small multiprocessor Unix, with the user
programs of the "util" lab. This directory holds TLA+ models of its concurrent
and crash-prone parts, TLC runs that check them on small instances, and TLAPS
proofs about the redo log for instances of every size.

## The system

| Part | State | Operations | Why it is hard |
|---|---|---|---|
| Redo log, `log.c` | `log.lh`, `outstanding`, `committing`; header and data blocks on disk | `begin_op`, `end_op`, `log_write`, `commit`, `recover_from_log` | a crash between any two disk writes; calls that share a group; room in the log; pins |
| Buffer cache, `bio.c` | buffers, `refcnt`, sleep locks, LRU list | `bread`, `bwrite`, `brelse`, `bpin`, `bunpin` | `bget` lets go of one lock before it takes the next; recycling; NBUF buffers |
| Scheduling, `proc.c`, `swtch.S` | `p->state`, `p->chan`, `c->proc`, contexts | `scheduler`, `sched`, `yield`, `sleep`, `wakeup` | locks that change hands across `swtch`; lost wakeups |
| Locks, `spinlock.c`, `sleeplock.c` | `locked`, `noff`, `intena` | `acquire`, `release`, `push_off`, `pop_off`, `acquiresleep`, `releasesleep` | interrupts; a thread that resumes on another CPU |
| Traps, `trap.c` | interrupt state, `ticks` | `usertrap`, `kerneltrap`, `clockintr` | an interrupt at any instruction |
| Processes, `proc.c`, `user/init.c` | process table, parents, `killed` | `fork`, `exit`, `wait`, `kill` | zombies on their stack, orphans, kill against sleep |
| Pipes, `pipe.c` | ring of bytes, two wrapping counters, open ends | `pipewrite`, `piperead`, `pipeclose` | sleepers at both ends, close and kill at any moment |
| File table, `file.c` | `f->ref` | `filealloc`, `filedup`, `fileclose` | the last close races others |
| Inodes and blocks, `fs.c` | inode table, bitmap, block map | `iget`, `ilock`, `iput`, `ialloc`, `bmap`, `itrunc`, `balloc`, `bfree` | `ref` against `nlink`; no inodes or blocks left; crash with open, unlinked files |
| Names, `fs.c`, `sysfile.c` | directories | `namex`, `dirlink`, `create`, `link`, `unlink` | two inode locks; undoing a half-done call |
| Disk driver, `virtio_disk.c` | descriptors, rings | `virtio_disk_rw`, `virtio_disk_intr` | three descriptors to a request; interrupt races; 16-bit indices |
| Console, `console.c`, `uart.c` | input ring with edit index, output ring | `consoleread`, `consoleintr`, `uartputc`, `uartstart` | wrapping counters; sleepers that depend on interrupts |
| Memory, `kalloc.c`, `vm.c`, `exec.c` | free list, page tables | `kalloc`, `kfree`, `uvmalloc`, `uvmcopy`, `exec` | running out of memory half way |
| User programs | pipes, processes, buffers | `sh`, `primes`, `xargs`, `find`, `pingpong`, `itoa`, `malloc` | descriptors left open; boundaries of buffers and numbers |

How they meet: a file-system call runs between `begin_op` and `end_op`, changes
blocks in locked buffers of the cache and hands them to `log_write`; the log
pins those buffers until it has installed them. Buffers and inodes are locked
with sleep locks, which rest on `sleep` and `wakeup`, which rest on `p->lock`,
`swtch` and the interrupt state of the CPU. Pipes and `wait` use `sleep` with a
lock of their own, and `kill` cuts across all of them.

`PROJECT.json` lists the components with their status, and the hazards of the
code at the lines where they bite with the properties that cover them.

## The modules

| Module | Models | Checked by |
|---|---|---|
| `AtomicDisk` | what the log promises | refinement by `Log` |
| `Log` | `log.c`, and what it needs of `bio.c` | `log_crash`, `log_live`, `log_torn` |
| `LogCalls` | inductive invariant of `Log`, and the calls that keep it | TLAPS |
| `LogProofs` | the other steps keep it; types and pins | TLAPS |
| `LogRefinement` | `Log` implements `AtomicDisk`; readers see current data | TLAPS |
| `LogSpace` | no sleep without a cause, no panic for lack of log space | TLAPS |
| `Sched` | `scheduler`, `sched`, `sleep`, `wakeup`, both kinds of lock, timer traps | `sched`, `sched_live` |
| `Proc` | `fork`, `exit`, `wait`, `kill`, `init` | `proc`, `proc_live`, `proc_kill_zero`, `proc_lost_kill` |
| `Fifo` | what a pipe promises | refinement by `Pipe` |
| `Pipe` | `pipe.c`, reference counts of the two ends | `pipe_fifo`, `pipe_live` |
| `BufferCache` | `bio.c` | `bcache` |

The `MC` modules add the symmetry sets that the configurations use. Definitions
whose comment begins with "Fault:" are deliberately wrong variants of the
definition that follows them: no specification uses them, and putting one in
the place of the right one makes the property it is meant for fail.

**Log.** A critical section under `log.lock` is an action, and every disk write
is one of its own. `phase` says where `commit()` or the recovery at boot is;
`Crash` is enabled in every state, keeps `home`, `dlog` and `dhead` and resets
the rest. A call reads any block into a locked buffer (`Bread`), changes it
(`Modify`), logs it (`LogWrite`) and lets it go (`Brelse`); letting it go
changed and unlogged is the error path of `writei`, and `torn` remembers it.
`Load` and `Recycle` are reads outside calls and the recycling of buffers that
nobody has pinned or locked. A call has one buffer at a time: the indirect block
that `bmap` keeps while `balloc` changes the bitmap could as well be read
again. `OpBlocks` is the number of distinct blocks that a
call really writes, which the code keeps below `MAXOPBLOCKS`.

**Sched.** The actors are CPUs. `stack[c]` is the process on whose kernel stack
CPU `c` runs, `cproc[c]` is `c->proc`; `plock`, `spin`, `noff`, `intena` and
`sie` are the locks and the interrupt state. A trap may come wherever `sie` is
set. The processes contend for one sleep lock; `wakeup()` visits the other
processes one at a time. `push_off` and the loop of `acquire` are one step: a
CPU that spins has its interrupts off a little earlier than in the model, and
does nothing else meanwhile. `acquire` of a lock that the CPU has already, and
`release` of one that it has not, panic in the code; `SchedChecks` says that no
thread comes to either. `forkret` is two steps, since interrupts may come
between its `release` and `usertrapret`; the `fsinit` of the first process is
left out.

**Proc.** The actors are processes and a step is a critical section under
`p->lock`. `wait_lock` is explicit, and so is the `p->lock` that an exiting
process holds until its CPU has left its stack (`pc = "switch"`). A slot whose
`killed` flag is set while it is `UNUSED` is one that `kill(0)` has found.
`init` follows its program. `panic()` spins in its caller only: the others go on.

**Pipe.** `pi->lock` is explicit because `kill` does not take it. Each turn of
the loops of `pipewrite` and `piperead` is a step. A call starts only in a
process that is not killed: a kill between the check in `usertrap` and the
`acquire` is the same to the pipe as one right after the `acquire`. The
counters are taken modulo `Wrap`, which stands for 2^32. `silent` is history:
it is set when a killed writer leaves `pipewrite`, the one exit that wakes no
reader, and cleared by every `wakeup(&pi->nread)`.

**BufferCache.** A critical section under `bcache.lock` is a step, and so are
`acquiresleep` and a disk transfer. The list is the sequence from `head.next`
to `head.prev`. An actor is one use of a buffer, from `bread` to `brelse`; code
that holds two buffers (`bmap` during its `balloc`, `write_log`,
`install_trans`) is two actors, which are less constrained than that code is.
The clients keep the rule of the log: they release a changed
buffer only if it is written or pinned. (`log_torn` is about what happens when
they do not.) `latest` and `recent` are history, used only by properties.

## What is checked

* `log_crash`: two overlapping calls on two blocks, two values, a crash at any
  point. `AtomicGroups`: `Log` implements `AtomicDisk`. `PinnedWhileLogged`,
  `CacheCurrent`, `SleepersHaveCause` as their comments say. Two blocks and two
  values suffice to tell a group that is half written, and two calls to share a
  group and to wait for each other. All 304,048 states.
* `log_live`: `NoPanic` with a log on disk of one block less than `LOGSIZE`,
  which is what `mkfs` makes (`nlog = LOGSIZE` counts the header), and three
  blocks, with which calls admitted too freely would fill it; `SleepersWake`
  and `CommitEnds`.
* `sched`: two CPUs and three processes, so that one is always off its CPU and
  there can be two contenders and a waker. `OneStack`, `SchedChecks`,
  `LocksMaskInterrupts`, `InterruptsRestored`, `YieldsWhenRunning`,
  `MutualExclusion`, `NoLostWakeup`. `sched_live`: `SleepLockPasses`.
* `proc`: four slots: `init`, a parent, a child that exits, and a zombie
  grandchild, the fewest with which `reparent` has to wake `init`. `StackIsFree`,
  `ParentsLive`, `NoLostExit`. `proc_live`, three slots: `OrphansReaped`,
  `WaitReturns`.
* `pipe_fifo`: a ring of two bytes, counters modulo 4, transfers of up to three
  bytes: the ring is filled, overtaken and wrapped. `PipeIsFifo`, and
  `ReadersHaveCause`: a reader sleeps beside bytes only if a killed writer has
  left since readers were last woken.
* `pipe_live`: two processes, each of which may have either end or both, so that
  one may take the byte or close the end the other has been woken for.
  `NoUseAfterFree`, `NoLeak`, `WritersHaveCause`, `CloseEndsCalls`, and
  `KilledWritersFreeReaders`: what a killed writer leaves behind keeps a reader
  asleep no longer than the write end is open.
* `bcache`: three buffers, four blocks, two overlapping uses and two pins: one
  reference more than there are buffers, so that `bget` does panic in some
  behaviours. `OneBufferPerBlock`, `NotRecycledInUse`, `RefcntExact`,
  `NoLostChange`, `SortedByUse`, and `PanicsOnlyWhenFull`: it panics only when
  every buffer is in use or pinned.

Deadlock is checked for the scheduler. For the log the check says nothing,
because `Crash` is always possible: that calls and commits get on is what
`SleepersWake` and `CommitEnds` of `log_live` show. It is off for pipes and
processes, which may all be closed or asleep for good, nor for the cache, where
processes may wait for each other's buffers: the order in which the file system
locks them is not part of that model.

### Where the code departs from what it says

Three runs end in a violation; each is a line under "findings" in `PROJECT.json`.

* `log_torn`: `writei` (`fs.c:522`) releases a partly changed buffer without
  logging it, against the rule at `bio.c:10`.
* `proc_kill_zero`: `kill(0)` marks a free slot, and the next process in it is
  born killed.
* `proc_lost_kill`: a `kill` between the check and the sleep of `wait()` has no
  effect until a child exits.

Two panics can also be reached in the models, and the properties allow for
them: `init` exits when its `fork` fails, and `bget` finds no buffer when the
references outnumber the buffers, which no line of the kernel rules out.

## Fairness

* `Log`: commit, install and recovery go on; woken callers look again; a call
  releases its buffer and, with strong fairness since it may touch several
  buffers first, gets to `end_op`. Crashes end at last (`<>[][~Crash]_vars`):
  no log makes progress through endless power failures.
* `Sched`: each CPU goes on with what it does and is interrupted again and
  again by its timer; strong fairness for taking contended spin locks, for
  dispatching a runnable process (each scheduler goes round the table) and for
  the release of a sleep lock. Nothing is assumed of kernel code that waits for
  an event, nor that a user program makes system calls.
* `Proc`, `Pipe`: weak fairness for steps inside the kernel, strong fairness
  for taking `wait_lock` and `pi->lock`. Of programs, only `init` is assumed to
  go on with its loop. A killed process that is not inside a call closes its
  ends of the pipe: `usertrap` does not let it back into its program, and
  `exit` closes all files.

Spin locks of xv6 are not queued, so strong fairness for them is an assumption
on the hardware: a CPU that keeps trying gets a lock that keeps becoming free.

## What is proved

For every number of calls, blocks and values and every size of the log allowed
by `LogAssumption`:

* `LogIsAtomic` (`LogRefinement`): `Spec => AtomicGroups`, the refinement of
  `AtomicDisk`;
* `ReadersSeeCurrentData` (`LogRefinement`), `PinsBalance` and `TypeCorrect`
  (`LogProofs`), `NoOversleeping` (`LogSpace`): the invariants of `log_crash`;
* `LogHasRoom` (`LogSpace`): `NoPanic`, if `LOGSIZE + OpBlocks < MAXOPBLOCKS + Capacity`
  where `Capacity` is the smaller of `LOGSIZE` and `NLOG - 1`.

The argument. None of the properties is inductive: they speak of the cache and
of what recovery would find, and a step of `commit()` keeps them only because
of how far the copying has got. `IInv` adds that. `HeaderInv`: a header names
no block twice, and the one on disk is empty before the commit point and equal
to `log.lh` after it. `CallInv`: while `commit()` or recovery runs no call is
active. `BufInv`: who holds which buffer. `PinInv`: what must be installed is
pinned, hence cached. `CopyInv`: how far `write_log` and `install_trans` are.
`CoherenceInv`: any other cached block equals its home block. Each action has
a lemma that it keeps `IInv`, and one that it maps to a step of `AtomicDisk` or
to a stutter: only `WriteHead` maps to `Commit`, and installing or clearing
leaves `Recovered` as it is because `CopyInv` says that the two copies agree.

For `LogHasRoom` the reservations are counted. `SpaceInv` says that the header
entries, plus a reservation for each running call, are at most `LOGSIZE` plus
what running calls have already turned into entries (`Used`). The condition on
the sizes is sufficient, not necessary: `log_live` checks an instance without
it. It asks for a block to spare because `log_write` tests for a full header
before it looks whether the block is in it already. The condition on
the sizes is met by the kernel: `LOGSIZE` is 30, `MAXOPBLOCKS` 10, the log on
disk holds 29 data blocks, and a call writes at most 7 distinct blocks: in
`filewrite`, four data blocks (three blocks' worth, unaligned), the inode, the
indirect block and the bitmap block, of which this disk has one. That number is
read off the code and is not itself proved.

Only model-checked: liveness, since fairness is beyond the prover, and
everything about `Sched`, `Proc`, `Pipe` and `BufferCache`.

## What is abstracted

* The disk writes a block atomically and `virtio_disk_rw` returns when it is
  done. The driver's own protocol is not modelled yet.
* Memory is sequentially consistent between lock operations.
* In `Sched` the sleep lock stands for all users of `sleep`; in `Proc` and
  `Pipe`, `sleep` releases its lock and sleeps in one step, which is what
  `NoLostWakeup` shows of it.
* `fork` fails in `Proc` when the table is full or, at any time, for lack of
  memory.

## Plan

In this order; each part adds its module, run, properties and hazards covered.

1. `Inode`: the inode table and block allocation (`iget`, `ilock`, `iput`,
   `ialloc`, `bmap`, `itrunc`, `balloc`, `bfree`), abstract specification "an
   inode is freed once, when neither linked nor referenced"; composed with
   `AtomicDisk` for orphans at a crash.
2. `Names`: `namex`, `create`, `link`, `unlink` over `Inode`: link counts, lock
   order, undoing of half-done calls.
3. `Virtio`: descriptors, rings and interrupt; refines the atomic transfer that
   `Log` and `BufferCache` assume.
4. `Files`: file table and descriptors; partial failures of `open` and `pipe`.
5. `Console` and `Uart`: both rings with wrapping counters; sleepers.
6. `Memory`: page ownership over `fork`, `exec`, `sbrk` and their failures.
7. `Clock` and pids: `sys_sleep` across the wrap of `ticks`, `allocpid`.
8. User programs: the chain of `primes` on pipes, the processes of `sh` and
   `xargs`; `itoa` and `malloc` as functions against a reference.
9. Proofs: `OneStack` and `SchedChecks` of `Sched`; `ParentsLive` and
   `NoLostExit` of `Proc`; the refinement of `Fifo` by `Pipe`; `RefcntExact`
   and `OneBufferPerBlock` of `BufferCache`; the invariants of `Inode`.
