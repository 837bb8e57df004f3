-------------------------------- MODULE Pipe --------------------------------
(***************************************************************************)
(* A pipe: kernel/pipe.c, with the reference counts of its two ends        *)
(* (filedup and fileclose of kernel/file.c, used by fork, close and exit). *)
(*                                                                         *)
(* pi->lock is explicit, since kill() does not take it: each turn of the   *)
(* loops of pipewrite and piperead is a step, and a process may be killed  *)
(* between any two.  sleep() and wakeup() are what Sched shows them to be: *)
(* releasing the lock and going to sleep is one step.                      *)
(***************************************************************************)
EXTENDS Integers, Sequences

CONSTANTS
  Proc,         \* the processes that may have the pipe open
  NoProc,       \* not a process
  first,        \* the process that called pipe()
  Byte,
  PIPESIZE,
  Wrap,         \* 2^32: nread and nwrite are of type uint
  MaxCount      \* the largest n of a read or a write

ASSUME PipeAssumption ==
  /\ first \in Proc /\ NoProc \notin Proc
  /\ PIPESIZE \in Nat \ {0}
  /\ Wrap \in Nat /\ Wrap % PIPESIZE = 0 /\ Wrap > PIPESIZE
  /\ MaxCount \in Nat

VARIABLES
  data, nread, nwrite, readopen, writeopen,   \* of struct pipe
  lock,         \* the process that holds pi->lock, or NoProc
  allocated,    \* the page of the pipe has not been freed
  rfd, wfd,     \* the processes that have the read and the write end open
  pc,           \* where each process is
  left,         \* n - i of its read or write, 0 outside them
  ch,           \* the local ch of piperead
  killed,       \* p->killed
  silent        \* history: a killed writer has left since the last wakeup(&pi->nread)

pipe == <<data, nread, nwrite>>
ends == <<readopen, writeopen, allocated, rfd, wfd>>
vars == <<pipe, ends, lock, pc, left, ch, killed, silent>>

Empty == nread = nwrite
(* Fault: the pipe takes one byte too many. *)
FullLate == nwrite = (nread + PIPESIZE + 1) % Wrap
Full == nwrite = (nread + PIPESIZE) % Wrap

Init ==
  /\ data \in [0..(PIPESIZE - 1) -> Byte]
  /\ nread = 0 /\ nwrite = 0
  /\ readopen = TRUE /\ writeopen = TRUE
  /\ lock = NoProc
  /\ allocated = TRUE
  /\ rfd = {first} /\ wfd = {first}
  /\ pc = [p \in Proc |-> "user"]
  /\ left = [p \in Proc |-> 0]
  /\ ch \in [Proc -> Byte]
  /\ killed = [p \in Proc |-> FALSE]
  /\ silent = FALSE

(* wakeup(chan), after p has gone to l: the sleepers on chan have to get   *)
(* pi->lock again.                                                         *)
Wakeup(chan, p, l) ==
  [q \in Proc |-> IF q = p THEN l
                  ELSE IF pc[q] = chan THEN (IF chan = "nread" THEN "rwoken" ELSE "wwoken")
                  ELSE pc[q]]
Goto(p, l) == pc' = [pc EXCEPT ![p] = l]
Lock(p) == lock = NoProc /\ lock' = p
Unlock == lock' = NoProc
Forget(p) == left' = [left EXCEPT ![p] = 0]
-----------------------------------------------------------------------------
(* pipewrite                                                               *)

Write(p, n) ==
  /\ pc[p] = "user" /\ p \in wfd /\ ~killed[p]
  /\ Lock(p)
  /\ left' = [left EXCEPT ![p] = n]
  /\ Goto(p, "wcheck")
  /\ UNCHANGED <<pipe, ends, ch, killed, silent>>

(* Fault: the loop of pipewrite goes on while i <= n. *)
WriteCheckTwice(p) ==
  /\ pc[p] = "wcheck" /\ left[p] >= 0
  /\ IF ~readopen \/ killed[p]
     THEN Unlock /\ Forget(p) /\ Goto(p, "user")
     ELSE UNCHANGED <<lock, left>> /\ Goto(p, "write")
  /\ UNCHANGED <<pipe, ends, ch, killed, silent>>

(* Fault: pipewrite returns -1 without releasing pi->lock. *)
WriteCheckHolding(p) ==
  /\ pc[p] = "wcheck" /\ left[p] > 0
  /\ Goto(p, IF ~readopen \/ killed[p] THEN "user" ELSE "write")
  /\ UNCHANGED <<pipe, ends, lock, left, ch, killed, silent>>

(* The head of the loop: return -1, without a wakeup, when nobody can read *)
(* or p is killed.                                                         *)
WriteCheck(p) ==
  /\ pc[p] = "wcheck" /\ left[p] > 0
  /\ IF ~readopen \/ killed[p]
     THEN Unlock /\ Forget(p) /\ Goto(p, "user")
     ELSE UNCHANGED <<lock, left>> /\ Goto(p, "write")
  /\ silent' = (silent \/ killed[p])
  /\ UNCHANGED <<pipe, ends, ch, killed>>

(* wakeup(&pi->nread) and sleep(&pi->nwrite, &pi->lock). *)
WriteSleep(p) ==
  /\ pc[p] = "write" /\ Full
  /\ Unlock
  /\ pc' = Wakeup("nread", p, "nwrite")
  /\ silent' = FALSE
  /\ UNCHANGED <<pipe, ends, left, ch, killed>>

WriteWoken(p) ==
  /\ pc[p] = "wwoken"
  /\ Lock(p)
  /\ Goto(p, "wcheck")
  /\ UNCHANGED <<pipe, ends, left, ch, killed, silent>>

(* A byte has been copied in. *)
WriteByte(p, b) ==
  /\ pc[p] = "write" /\ ~Full
  /\ data' = [data EXCEPT ![nwrite % PIPESIZE] = b]
  /\ nwrite' = (nwrite + 1) % Wrap
  /\ left' = [left EXCEPT ![p] = @ - 1]
  /\ Goto(p, "wcheck")
  /\ UNCHANGED <<nread, ends, lock, ch, killed, silent>>

(* Fault: pipewrite returns without wakeup(&pi->nread). *)
WriteDoneSilently(p) ==
  /\ (pc[p] = "wcheck" /\ left[p] = 0) \/ (pc[p] = "write" /\ ~Full)
  /\ Unlock /\ Forget(p)
  /\ Goto(p, "user")
  /\ UNCHANGED <<pipe, ends, ch, killed, silent>>

(* The loop ends, by itself or because copyin has failed. *)
WriteDone(p) ==
  /\ (pc[p] = "wcheck" /\ left[p] = 0) \/ (pc[p] = "write" /\ ~Full)
  /\ Unlock /\ Forget(p)
  /\ pc' = Wakeup("nread", p, "user")
  /\ silent' = FALSE
  /\ UNCHANGED <<pipe, ends, ch, killed>>
-----------------------------------------------------------------------------
(* piperead                                                                *)

Read(p, n) ==
  /\ pc[p] = "user" /\ p \in rfd /\ ~killed[p]
  /\ Lock(p)
  /\ left' = [left EXCEPT ![p] = n]
  /\ Goto(p, "rcheck")
  /\ UNCHANGED <<pipe, ends, ch, killed, silent>>

(* The head of the while loop, and its killed(pr). *)
ReadCheck(p) ==
  /\ pc[p] = "rcheck"
  /\ IF ~(Empty /\ writeopen) THEN Goto(p, "read") /\ UNCHANGED <<lock, left>>
     ELSE IF killed[p] THEN Goto(p, "user") /\ Unlock /\ Forget(p)
     ELSE Goto(p, "rsleep") /\ UNCHANGED <<lock, left>>
  /\ UNCHANGED <<pipe, ends, ch, killed, silent>>

(* sleep(&pi->nread, &pi->lock). *)
ReadSleep(p) ==
  /\ pc[p] = "rsleep"
  /\ Unlock
  /\ Goto(p, "nread")
  /\ UNCHANGED <<pipe, ends, left, ch, killed, silent>>

ReadWoken(p) ==
  /\ pc[p] = "rwoken"
  /\ Lock(p)
  /\ Goto(p, "rcheck")
  /\ UNCHANGED <<pipe, ends, left, ch, killed, silent>>

(* A byte is taken; copyout may fail, and then the for loop ends. *)
ReadByte(p, copied) ==
  /\ pc[p] = "read" /\ left[p] > 0 /\ ~Empty
  /\ ch' = [ch EXCEPT ![p] = data[nread % PIPESIZE]]
  /\ nread' = (nread + 1) % Wrap
  /\ left' = [left EXCEPT ![p] = IF copied THEN @ - 1 ELSE 0]
  /\ UNCHANGED <<data, nwrite, ends, lock, pc, killed, silent>>

(* Fault: piperead returns without wakeup(&pi->nwrite). *)
ReadDoneSilently(p) ==
  /\ pc[p] = "read" /\ (left[p] = 0 \/ Empty)
  /\ Unlock /\ Forget(p)
  /\ Goto(p, "user")
  /\ UNCHANGED <<pipe, ends, ch, killed, silent>>

(* wakeup(&pi->nwrite), release, return. *)
ReadDone(p) ==
  /\ pc[p] = "read" /\ (left[p] = 0 \/ Empty)
  /\ Unlock /\ Forget(p)
  /\ pc' = Wakeup("nwrite", p, "user")
  /\ UNCHANGED <<pipe, ends, ch, killed, silent>>
-----------------------------------------------------------------------------
(* fork: filedup of the ends that p has open, for a process q. *)
Fork(p, q) ==
  /\ pc[p] = "user" /\ pc[q] = "user" /\ ~killed[p] /\ ~killed[q]
  /\ p \in rfd \cup wfd /\ q \notin rfd \cup wfd
  /\ rfd' = IF p \in rfd THEN rfd \cup {q} ELSE rfd
  /\ wfd' = IF p \in wfd THEN wfd \cup {q} ELSE wfd
  /\ UNCHANGED <<pipe, readopen, writeopen, allocated, lock, pc, left, ch, killed, silent>>

(* fileclose by close() or exit(): the last reference goes to pipeclose. *)
CloseRead(p) ==
  /\ pc[p] = "user" /\ p \in rfd
  /\ rfd' = rfd \ {p}
  /\ Goto(p, IF rfd = {p} THEN "rclose" ELSE "user")
  /\ UNCHANGED <<pipe, readopen, writeopen, allocated, wfd, lock, left, ch, killed, silent>>

CloseWrite(p) ==
  /\ pc[p] = "user" /\ p \in wfd
  /\ wfd' = wfd \ {p}
  /\ Goto(p, IF wfd = {p} THEN "wclose" ELSE "user")
  /\ UNCHANGED <<pipe, readopen, writeopen, allocated, rfd, lock, left, ch, killed, silent>>

(* Fault: pipeclose frees the pipe with the read end. *)
PipeCloseReadFrees(p) ==
  /\ pc[p] = "rclose" /\ lock = NoProc
  /\ readopen' = FALSE
  /\ allocated' = FALSE
  /\ pc' = Wakeup("nwrite", p, "user")
  /\ UNCHANGED <<pipe, writeopen, rfd, wfd, lock, left, ch, killed, silent>>

(* Fault: pipeclose does not free the pipe with the write end. *)
PipeCloseWriteKeeps(p) ==
  /\ pc[p] = "wclose" /\ lock = NoProc
  /\ writeopen' = FALSE
  /\ pc' = Wakeup("nread", p, "user")
  /\ silent' = FALSE
  /\ UNCHANGED <<pipe, readopen, allocated, rfd, wfd, lock, left, ch, killed>>

(* Fault: pipeclose of the write end does not wake the readers. *)
PipeCloseWriteSilently(p) ==
  /\ pc[p] = "wclose" /\ lock = NoProc
  /\ writeopen' = FALSE
  /\ allocated' = readopen
  /\ Goto(p, "user")
  /\ UNCHANGED <<pipe, readopen, rfd, wfd, lock, left, ch, killed, silent>>

(* pipeclose *)
PipeCloseRead(p) ==
  /\ pc[p] = "rclose" /\ lock = NoProc
  /\ readopen' = FALSE
  /\ allocated' = writeopen
  /\ pc' = Wakeup("nwrite", p, "user")
  /\ UNCHANGED <<pipe, writeopen, rfd, wfd, lock, left, ch, killed, silent>>

PipeCloseWrite(p) ==
  /\ pc[p] = "wclose" /\ lock = NoProc
  /\ writeopen' = FALSE
  /\ allocated' = readopen
  /\ pc' = Wakeup("nread", p, "user")
  /\ silent' = FALSE
  /\ UNCHANGED <<pipe, readopen, rfd, wfd, lock, left, ch, killed>>

(* kill(): a sleeper is woken, and finds that it is killed. *)
Kill(p) ==
  /\ ~killed[p]
  /\ killed' = [killed EXCEPT ![p] = TRUE]
  /\ pc' = [pc EXCEPT ![p] = CASE pc[p] = "nread" -> "rwoken"
                               [] pc[p] = "nwrite" -> "wwoken"
                               [] OTHER -> pc[p]]
  /\ UNCHANGED <<pipe, ends, lock, left, ch, silent>>
-----------------------------------------------------------------------------
(* What a process in the kernel goes on to do. *)
Relock(p) == WriteWoken(p) \/ ReadWoken(p) \/ PipeCloseRead(p) \/ PipeCloseWrite(p)
Step(p) ==
  \/ WriteCheck(p) \/ WriteSleep(p) \/ WriteDone(p) \/ \E b \in Byte : WriteByte(p, b)
  \/ ReadCheck(p) \/ ReadSleep(p) \/ ReadDone(p) \/ \E ok \in BOOLEAN : ReadByte(p, ok)

Next ==
  \E p \in Proc :
    \/ Relock(p) \/ Step(p)
    \/ \E n \in 0..MaxCount : Write(p, n) \/ Read(p, n)
    \/ CloseRead(p) \/ CloseWrite(p) \/ Kill(p)
    \/ \E q \in Proc : Fork(p, q)

Spec == Init /\ [][Next]_vars

(* Processes in the kernel are scheduled, and pi->lock is got at last; a   *)
(* killed process exits (usertrap), and exit() closes its files.           *)
Exits(p) == killed[p] /\ (CloseRead(p) \/ CloseWrite(p))
Fairness ==
  \A p \in Proc : WF_vars(Step(p)) /\ SF_vars(Relock(p)) /\ WF_vars(Exits(p))
FairSpec == Spec /\ Fairness
-----------------------------------------------------------------------------
(* Every variable has its type: in particular pipewrite and piperead       *)
(* transfer no more bytes than they were asked for.                        *)
TypeOK ==
  /\ data \in [0..(PIPESIZE - 1) -> Byte]
  /\ nread \in 0..(Wrap - 1) /\ nwrite \in 0..(Wrap - 1)
  /\ readopen \in BOOLEAN /\ writeopen \in BOOLEAN /\ allocated \in BOOLEAN
  /\ lock \in Proc \cup {NoProc}
  /\ rfd \in SUBSET Proc /\ wfd \in SUBSET Proc
  /\ pc \in [Proc -> {"user", "wcheck", "write", "nwrite", "wwoken", "rcheck", "rsleep",
                      "read", "nread", "rwoken", "rclose", "wclose"}]
  /\ left \in [Proc -> 0..MaxCount]
  /\ ch \in [Proc -> Byte]
  /\ killed \in [Proc -> BOOLEAN]
  /\ silent \in BOOLEAN

(* The bytes between nread and nwrite. *)
Queue ==
  [i \in 1..((nwrite - nread) % Wrap) |-> data[(nread + i - 1) % PIPESIZE]]

F == INSTANCE Fifo WITH queue <- Queue, Capacity <- PIPESIZE

(* A pipe is a bounded queue: bytes come out in the order they went in,    *)
(* none is overwritten or read twice, also when nread and nwrite have      *)
(* wrapped round 2^32.                                                     *)
PipeIsFifo == F!Spec

(* Every call that uses the pipe finds it allocated: pipeclose frees it    *)
(* only when nobody is in pipewrite or piperead, on its lock or asleep.    *)
NoUseAfterFree ==
  \A p \in Proc : pc[p] # "user" => allocated

(* The page of the pipe is freed by the last of the closes. *)
NoLeak ==
  allocated => \/ rfd \cup wfd # {}
               \/ \E p \in Proc : pc[p] \in {"rclose", "wclose"}

(* A writer sleeps only while the pipe is full and can be read from. *)
WritersHaveCause ==
  \A p \in Proc : pc[p] = "nwrite" /\ lock = NoProc => Full /\ readopen

(* A reader sleeps only while the pipe is empty and can be written to.     *)
(* The one exception: a writer that finds itself killed between two bytes  *)
(* leaves pipewrite without wakeup(&pi->nread), and until the next such    *)
(* wakeup a reader may sleep beside the bytes it has left.                 *)
ReadersHaveCause ==
  \A p \in Proc : pc[p] = "nread" /\ lock = NoProc => (Empty \/ silent) /\ writeopen

(* That sleep ends: once all who have the write end open are killed, the   *)
(* reader is woken, since the last of them to exit closes the end, also    *)
(* when the pipe holds bytes that nobody was woken for.  A killed process  *)
(* that may itself be asleep in piperead, because the kill came between    *)
(* its killed(pr) and its sleep, is not counted on to exit.                *)
KilledWritersFreeReaders ==
  \A p \in Proc :
    pc[p] = "nread" /\ (\A q \in wfd : killed[q] /\ q \notin rfd) ~> pc[p] # "nread"

(* When the read end is closed every pipewrite returns, and when the write *)
(* end is closed every piperead does, with the bytes that are left or with *)
(* the end of the file.                                                    *)
CloseEndsCalls ==
  \A p \in Proc :
    /\ ~readopen /\ pc[p] \in {"wcheck", "write", "nwrite", "wwoken"} ~> pc[p] = "user"
    /\ ~writeopen /\ pc[p] \in {"rcheck", "rsleep", "read", "nread", "rwoken"} ~> pc[p] = "user"
=============================================================================
