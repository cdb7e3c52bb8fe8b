----------------------------- MODULE PoolCrowd ------------------------------
(***************************************************************************)
(* SlotPool with a history variable.  claim_slot looks at one slot after   *)
(* the other while others claim and free them, so whether it may fail is   *)
(* not a matter of the state it fails in: crowd remembers how many were in *)
(* the pool at once at some moment of the scan.                            *)
(***************************************************************************)
EXTENDS SlotPool

VARIABLE crowd   \* [Walkers -> Nat]: the most processes that were inside at one
                 \* moment of the walker's scan; 0 while it does not scan

crowdVars == <<poolVars, crowd>>

(* The processes that scan for a slot or are answerable for one. *)
Inside == {p \in Procs : Placed(p)}

CrowdInit == PoolInit /\ crowd = [w \in Walkers |-> 0]

(* Each step of the pool is followed by a look at who is inside. *)
Watch ==
  crowd' = [w \in Walkers |->
              IF pc'[w] # "scan" THEN 0
              ELSE IF crowd[w] < Cardinality(Inside)' THEN Cardinality(Inside)'
              ELSE crowd[w]]

CrowdNext == PoolNext /\ Watch

CrowdSpec == CrowdInit /\ [][CrowdNext]_crowdVars

-----------------------------------------------------------------------------
(* claim_slot walks past the last published slot only if, at some one moment
   of that same scan, more processes were scanning for a slot or answerable
   for one than there are slots.  The slot it needs may well be free when it
   fails: a slot it passed can be freed behind it and the one ahead taken, so
   the pool need not be full then, nor have been full at any moment.  But in
   a pool that has had a slot for everyone inside it ever since the scan
   began, the scan finds one, however claims and frees interleave with it. *)
ClaimFailsOnlyInCrowd ==
  \A w \in Walkers : pc[w] = "scan" /\ at[w] >= allocated => crowd[w] > allocated

(* The inductive invariant behind it.  Up to the slot a scan has reached, each
   slot passed leaves one process behind: of the crowd of its scan at most
   crowd - i are at slot i or beyond. *)
PeakInv ==
  /\ crowd \in [Walkers -> Nat]
  /\ \A w \in Walkers : pc[w] = "scan" =>
       \A i \in 0..at[w] : Cardinality(Beyond(i)) + i <= crowd[w]

=============================================================================
