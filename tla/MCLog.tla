------------------------------- MODULE MCLog -------------------------------
(* Instances of Log.tla for TLC.  Blocks are interchangeable, and so are    *)
(* processes; the contents of blocks are too.                               *)
EXTENDS Log, TLC

Symmetry == Permutations(Op) \cup Permutations(Block) \cup Permutations(Value)
=============================================================================
