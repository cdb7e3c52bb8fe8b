-------------------------- MODULE MCStaticRefresh ---------------------------
(* Instances of StaticRefresh for TLC: a process on ELF with load counts, or
   on Windows, with a fingerprint of its own for every image. *)
EXTENDS StaticRefresh, TLC

VARIABLE pe     \* which of the two

Pe == INSTANCE StaticRefresh WITH Counted <- FALSE, Windows <- TRUE

MCInit == pe \in BOOLEAN /\ Init
MCNext == UNCHANGED pe /\ ((~pe /\ Next) \/ (pe /\ Pe!Next))
MCSpec == MCInit /\ [][MCNext]_<<vars, pe>>

DistinctFingerprints == [i \in Images |-> <<"fp", i>>]
Symmetry == Permutations(EhFrames) \cup Permutations(JitKeys)
=============================================================================
