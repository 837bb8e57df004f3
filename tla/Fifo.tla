-------------------------------- MODULE Fifo --------------------------------
(***************************************************************************)
(* What a pipe promises: a bounded queue of bytes.  A byte goes in at the  *)
(* end while both ends of the pipe are open, and comes out at the front    *)
(* into the hands of a reader.                                             *)
(***************************************************************************)
EXTENDS Integers, Sequences

CONSTANTS Proc, Byte, Capacity

VARIABLES
  queue,        \* the bytes written and not yet read
  ch,           \* the byte a reader has last taken
  readopen, writeopen

vars == <<queue, ch, readopen, writeopen>>

Init ==
  /\ queue = << >>
  /\ ch \in [Proc -> Byte]
  /\ readopen = TRUE
  /\ writeopen = TRUE

Put(b) ==
  /\ writeopen /\ readopen
  /\ Len(queue) < Capacity
  /\ queue' = Append(queue, b)
  /\ UNCHANGED <<ch, readopen, writeopen>>

Get(p) ==
  /\ readopen
  /\ queue # << >>
  /\ queue' = Tail(queue)
  /\ ch' = [ch EXCEPT ![p] = Head(queue)]
  /\ UNCHANGED <<readopen, writeopen>>

CloseRead == readopen /\ readopen' = FALSE /\ UNCHANGED <<queue, ch, writeopen>>
CloseWrite == writeopen /\ writeopen' = FALSE /\ UNCHANGED <<queue, ch, readopen>>

Next == (\E b \in Byte : Put(b)) \/ (\E p \in Proc : Get(p)) \/ CloseRead \/ CloseWrite

Spec == Init /\ [][Next]_vars
=============================================================================
