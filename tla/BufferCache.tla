----------------------------- MODULE BufferCache -----------------------------
(***************************************************************************)
(* The buffer cache of kernel/bio.c: which buffer caches which block, who  *)
(* references and who has locked it, and the list from which bget takes    *)
(* the buffer to recycle.                                                  *)
(*                                                                         *)
(* A critical section under bcache.lock is one step; so is acquiresleep    *)
(* (Sched shows what it does) and a disk transfer (virtio_disk_rw returns  *)
(* when the disk is done).  The clients are the log and the file system:   *)
(* they change a buffer while they hold it, and do not let go of a changed *)
(* buffer that is neither written nor pinned.                              *)
(*                                                                         *)
(* An element of Proc is one use of a buffer, from bread to brelse.  Code  *)
(* that holds two buffers at a time (bmap during its balloc, write_log,    *)
(* install_trans) is two of them: what it does to its buffers is among     *)
(* what two independent uses may do.                                       *)
(***************************************************************************)
EXTENDS Integers, FiniteSets, SequencesExt

CONSTANTS
  Proc,         \* the uses of a buffer that overlap
  Buf, Block, Value,
  MaxPins,      \* the most buffers that the log has pinned at a time
  NoProc,       \* not a process
  NoBlock,      \* not a block: the blockno of a buffer never used
  NoBuf         \* not a buffer

ASSUME CacheAssumption ==
  /\ IsFiniteSet(Proc) /\ IsFiniteSet(Buf)
  /\ NoProc \notin Proc
  /\ NoBlock \notin Block
  /\ NoBuf \notin Buf
  /\ MaxPins \in Nat

VARIABLES
  blockno, valid, refcnt, data,   \* of struct buf
  lock,         \* the process that has b->lock, or NoProc
  list,         \* bcache.head.next, ..., bcache.head.prev
  disk,         \* the blocks on disk
  pc,           \* where each process is
  want,         \* the block a process has asked bread for, or NoBlock
  cur,          \* the buffer bget has found for it, or NoBuf
  pinned,       \* the buffers pinned by the log
  latest,       \* the last contents given to a block
  recent        \* the buffers by their last brelse, the most recent first

buf == <<blockno, valid, refcnt>>
vars == <<buf, data, lock, list, disk, pc, want, cur, pinned, latest, recent>>

Init ==
  /\ blockno = [b \in Buf |-> NoBlock]
  /\ valid = [b \in Buf |-> FALSE]
  /\ refcnt = [b \in Buf |-> 0]
  /\ data \in [Buf -> Value]
  /\ lock = [b \in Buf |-> NoProc]
  /\ list = SetToSeq(Buf)
  /\ disk \in [Block -> Value]
  /\ pc = [p \in Proc |-> "idle"]
  /\ want = [p \in Proc |-> NoBlock]
  /\ cur = [p \in Proc |-> NoBuf]
  /\ pinned = {}
  /\ latest = disk
  /\ recent = list

(* A process that panics in bget keeps bcache.lock for ever; the others go *)
(* on until they need it.                                                  *)
LockFree == \A p \in Proc : pc[p] # "panic"
At(p, l) == pc[p] = l
Goto(p, l) == pc' = [pc EXCEPT ![p] = l]
Done(p) ==
  /\ Goto(p, "idle")
  /\ want' = [want EXCEPT ![p] = NoBlock]
  /\ cur' = [cur EXCEPT ![p] = NoBuf]
(* Fault: brelse does not unlink the buffer from where it was. *)
ToFrontAgain(s, b) == <<b>> \o s
ToFront(s, b) == <<b>> \o Remove(s, b)
-----------------------------------------------------------------------------
(* bget, its first loop: the block is cached. *)
BgetHit(p, k, b) ==
  /\ At(p, "idle") /\ LockFree
  /\ blockno[b] = k
  /\ refcnt' = [refcnt EXCEPT ![b] = @ + 1]
  /\ want' = [want EXCEPT ![p] = k]
  /\ cur' = [cur EXCEPT ![p] = b]
  /\ Goto(p, "lock")
  /\ UNCHANGED <<blockno, valid, data, lock, list, disk, pinned, latest, recent>>

(* Fault: bget recycles a buffer that is not locked but referenced. *)
UnusedUnlocked == {i \in 1..Len(list) : lock[list[i]] = NoProc}

(* Fault: the second loop of bget does not begin at head.prev. *)
UnusedButLast == {i \in 1..(Len(list) - 1) : refcnt[list[i]] = 0}

(* The buffer that the second loop of bget, from the tail of the list, finds. *)
Unused == {i \in 1..Len(list) : refcnt[list[i]] = 0}
Victim == list[Max(Unused)]

(* Fault: bget recycles without having looked for the block. *)
BgetMissBlind(p, k) ==
  /\ At(p, "idle") /\ LockFree
  /\ want' = [want EXCEPT ![p] = k]
  /\ IF Unused = {}
     THEN Goto(p, "panic") /\ UNCHANGED <<buf, cur>>
     ELSE /\ blockno' = [blockno EXCEPT ![Victim] = k]
          /\ valid' = [valid EXCEPT ![Victim] = FALSE]
          /\ refcnt' = [refcnt EXCEPT ![Victim] = 1]
          /\ cur' = [cur EXCEPT ![p] = Victim]
          /\ Goto(p, "lock")
  /\ UNCHANGED <<data, lock, list, disk, pinned, latest, recent>>

(* Fault: bget recycles a buffer without b->valid = 0. *)
BgetMissValid(p, k) ==
  /\ At(p, "idle") /\ LockFree
  /\ \A b \in Buf : blockno[b] # k
  /\ want' = [want EXCEPT ![p] = k]
  /\ IF Unused = {}
     THEN Goto(p, "panic") /\ UNCHANGED <<buf, cur>>
     ELSE /\ blockno' = [blockno EXCEPT ![Victim] = k]
          /\ refcnt' = [refcnt EXCEPT ![Victim] = 1]
          /\ cur' = [cur EXCEPT ![p] = Victim]
          /\ Goto(p, "lock")
          /\ UNCHANGED valid
  /\ UNCHANGED <<data, lock, list, disk, pinned, latest, recent>>

(* bget, its second loop: recycle a buffer, or panic. *)
BgetMiss(p, k) ==
  /\ At(p, "idle") /\ LockFree
  /\ \A b \in Buf : blockno[b] # k
  /\ want' = [want EXCEPT ![p] = k]
  /\ IF Unused = {}
     THEN Goto(p, "panic") /\ UNCHANGED <<buf, cur>>
     ELSE /\ blockno' = [blockno EXCEPT ![Victim] = k]
          /\ valid' = [valid EXCEPT ![Victim] = FALSE]
          /\ refcnt' = [refcnt EXCEPT ![Victim] = 1]
          /\ cur' = [cur EXCEPT ![p] = Victim]
          /\ Goto(p, "lock")
  /\ UNCHANGED <<data, lock, list, disk, pinned, latest, recent>>

(* acquiresleep(&b->lock) and the test of b->valid in bread. *)
AcquireSleep(p) ==
  /\ At(p, "lock") /\ lock[cur[p]] = NoProc
  /\ lock' = [lock EXCEPT ![cur[p]] = p]
  /\ Goto(p, IF valid[cur[p]] THEN "use" ELSE "fill")
  /\ UNCHANGED <<buf, data, list, disk, want, cur, pinned, latest, recent>>

(* virtio_disk_rw(b, 0) and b->valid = 1. *)
Fill(p) ==
  /\ At(p, "fill")
  /\ data' = [data EXCEPT ![cur[p]] = disk[blockno[cur[p]]]]
  /\ valid' = [valid EXCEPT ![cur[p]] = TRUE]
  /\ Goto(p, "use")
  /\ UNCHANGED <<blockno, refcnt, lock, list, disk, want, cur, pinned, latest, recent>>

(* The caller of bread changes the data. *)
Modify(p, v) ==
  /\ At(p, "use")
  /\ data' = [data EXCEPT ![cur[p]] = v]
  /\ latest' = [latest EXCEPT ![want[p]] = v]
  /\ UNCHANGED <<buf, lock, list, disk, pc, want, cur, pinned, recent>>

Bwrite(p) ==
  /\ At(p, "use")
  /\ disk' = [disk EXCEPT ![blockno[cur[p]]] = data[cur[p]]]
  /\ UNCHANGED <<buf, data, lock, list, pc, want, cur, pinned, latest, recent>>

(* log_write pins a buffer once, install_trans unpins it when it is home. *)
Clean(p) == disk[want[p]] = data[cur[p]]
Bpin(p) ==
  /\ At(p, "use") /\ cur[p] \notin pinned /\ LockFree /\ Cardinality(pinned) < MaxPins
  /\ refcnt' = [refcnt EXCEPT ![cur[p]] = @ + 1]
  /\ pinned' = pinned \cup {cur[p]}
  /\ UNCHANGED <<blockno, valid, data, lock, list, disk, pc, want, cur, latest, recent>>

(* Fault: bunpin does not give the reference back. *)
BunpinKeeps(p) ==
  /\ At(p, "use") /\ cur[p] \in pinned /\ Clean(p) /\ LockFree
  /\ pinned' = pinned \ {cur[p]}
  /\ UNCHANGED <<buf, data, lock, list, disk, pc, want, cur, latest, recent>>

Bunpin(p) ==
  /\ At(p, "use") /\ cur[p] \in pinned /\ Clean(p) /\ LockFree
  /\ refcnt' = [refcnt EXCEPT ![cur[p]] = @ - 1]
  /\ pinned' = pinned \ {cur[p]}
  /\ UNCHANGED <<blockno, valid, data, lock, list, disk, pc, want, cur, latest, recent>>

(* brelse, its releasesleep. *)
ReleaseSleep(p) ==
  /\ At(p, "use")
  /\ Clean(p) \/ cur[p] \in pinned
  /\ lock' = [lock EXCEPT ![cur[p]] = NoProc]
  /\ Goto(p, "put")
  /\ UNCHANGED <<buf, data, list, disk, want, cur, pinned, latest, recent>>

(* Fault: brelse does not move the buffer. *)
BrelseInPlace(p) ==
  /\ At(p, "put") /\ LockFree
  /\ refcnt' = [refcnt EXCEPT ![cur[p]] = @ - 1]
  /\ recent' = ToFront(recent, cur[p])
  /\ Done(p)
  /\ UNCHANGED <<blockno, valid, data, lock, list, disk, pinned, latest>>

(* brelse, under bcache.lock. *)
Brelse(p) ==
  /\ At(p, "put") /\ LockFree
  /\ refcnt' = [refcnt EXCEPT ![cur[p]] = @ - 1]
  /\ list' = IF refcnt[cur[p]] = 1 THEN ToFront(list, cur[p]) ELSE list
  /\ recent' = ToFront(recent, cur[p])
  /\ Done(p)
  /\ UNCHANGED <<blockno, valid, data, lock, disk, pinned, latest>>

Use(p) ==
  \/ \E v \in Value : Modify(p, v)
  \/ Bwrite(p) \/ Bpin(p) \/ Bunpin(p)
Next ==
  \E p \in Proc :
    \/ \E k \in Block : BgetMiss(p, k) \/ \E b \in Buf : BgetHit(p, k, b)
    \/ AcquireSleep(p) \/ Fill(p) \/ Use(p) \/ ReleaseSleep(p) \/ Brelse(p)

Spec == Init /\ [][Next]_vars
-----------------------------------------------------------------------------
(* Every variable has its type: in particular bcache.head's list always    *)
(* holds each buffer exactly once.                                         *)
TypeOK ==
  /\ blockno \in [Buf -> Block \cup {NoBlock}]
  /\ valid \in [Buf -> BOOLEAN]
  /\ refcnt \in [Buf -> Nat]
  /\ data \in [Buf -> Value]
  /\ lock \in [Buf -> Proc \cup {NoProc}]
  /\ \A s \in {list, recent} : ToSet(s) = Buf /\ Len(s) = Cardinality(Buf)
  /\ disk \in [Block -> Value] /\ latest \in [Block -> Value]
  /\ pc \in [Proc -> {"idle", "lock", "fill", "use", "put", "panic"}]
  /\ want \in [Proc -> Block \cup {NoBlock}] /\ cur \in [Proc -> Buf \cup {NoBuf}]
  /\ pinned \in SUBSET Buf

Users(b) == {p \in Proc : pc[p] \in {"lock", "fill", "use", "put"} /\ cur[p] = b}

(* A block has one buffer: two processes that bread it get the same one,   *)
(* one after the other, also when they look it up at the same time.        *)
OneBufferPerBlock ==
  \A b, d \in Buf : blockno[b] = blockno[d] /\ blockno[b] # NoBlock => b = d

(* Between bget's release of bcache.lock and its acquiresleep, and as long *)
(* as the buffer is used, it is not recycled for another block.            *)
NotRecycledInUse ==
  \A b \in Buf, p \in Proc : p \in Users(b) => blockno[b] = want[p]

(* refcnt counts the users and the pin: no reference is lost or kept. *)
RefcntExact ==
  \A b \in Buf : refcnt[b] = Cardinality(Users(b)) + (IF b \in pinned THEN 1 ELSE 0)

(* Whoever breads a block gets the data last written to it, from a buffer  *)
(* or from the disk: no change is lost when a buffer is recycled.          *)
NoLostChange ==
  /\ \A p \in Proc : pc[p] = "use" => data[cur[p]] = latest[want[p]]
  /\ \A k \in Block : (\A b \in Buf : ~(blockno[b] = k /\ valid[b])) => disk[k] = latest[k]

(* panic("bget: no buffers") is for a cache in which every buffer is in    *)
(* use or pinned: the one buffer that nobody refers to is found wherever   *)
(* it is in the list, and no buffer stays referenced after its last use.   *)
(* As the panic keeps bcache.lock, no reference goes away after it.        *)
PanicsOnlyWhenFull ==
  ~LockFree => \A b \in Buf : Users(b) # {} \/ b \in pinned

(* "Sorted by how recently the buffer was used.  head.next is most recent, *)
(* head.prev is least" (bio.c): so it is for the buffers that bget may     *)
(* recycle, although brelse moves no buffer that is still referenced and   *)
(* bunpin none at all.                                                     *)
SortedByUse ==
  LET Recyclable(b) == refcnt[b] = 0
  IN  SelectSeq(list, Recyclable) = SelectSeq(recent, Recyclable)
=============================================================================
