------------------------------ MODULE MCSched ------------------------------
(* Instances of Sched for TLC. *)
EXTENDS Sched, TLC

Symmetry == Permutations(Cpu) \cup Permutations(Proc)
=============================================================================
