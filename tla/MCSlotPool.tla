----------------------------- MODULE MCSlotPool -----------------------------
(* Instances of SlotPool, with the history of PoolCrowd, for TLC. *)
EXTENDS PoolCrowd, TLC
Symmetry == Permutations(Threads)
=============================================================================
