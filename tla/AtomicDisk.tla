----------------------------- MODULE AtomicDisk -----------------------------
(***************************************************************************)
(* What the logging layer of kernel/log.c promises to the file system: a   *)
(* disk on which groups of system calls take effect all at once.  Calls    *)
(* that overlap join one group; the group becomes durable in one step, and *)
(* only when none of its calls is still running; a crash loses the whole   *)
(* group or nothing of it.  Log.tla is shown to implement this module.     *)
(***************************************************************************)
CONSTANTS
  Op,        \* the processes that make file-system calls
  Block,     \* the blocks outside the log
  Value,     \* what a block may hold
  NoValue    \* marks a block the current group has not written

VARIABLES
  durable,   \* what a reboot would find in each block
  pending,   \* the writes of the current group
  active     \* the calls that are between begin_op and end_op

vars == <<durable, pending, active>>

NoWrites == [b \in Block |-> NoValue]

Init ==
  /\ durable \in [Block -> Value]
  /\ pending = NoWrites
  /\ active = {}

Begin(p) ==
  /\ p \notin active
  /\ active' = active \cup {p}
  /\ UNCHANGED <<durable, pending>>

Write(p, b, v) ==
  /\ p \in active
  /\ pending' = [pending EXCEPT ![b] = v]
  /\ UNCHANGED <<durable, active>>

End(p) ==
  /\ p \in active
  /\ active' = active \ {p}
  /\ UNCHANGED <<durable, pending>>

(* All the writes of the group reach the disk in this one step. *)
Commit ==
  /\ active = {}
  /\ durable' = [b \in Block |-> IF pending[b] = NoValue THEN durable[b] ELSE pending[b]]
  /\ pending' = NoWrites
  /\ UNCHANGED active

Crash ==
  /\ pending' = NoWrites
  /\ active' = {}
  /\ UNCHANGED durable

Next ==
  \/ \E p \in Op : Begin(p) \/ End(p)
  \/ \E p \in Op, b \in Block, v \in Value : Write(p, b, v)
  \/ Commit
  \/ Crash

Spec == Init /\ [][Next]_vars
=============================================================================
