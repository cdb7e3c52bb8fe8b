-------------------------- MODULE SnapshotsProofs ---------------------------
(* Proofs about Snapshots: types, the writer's boxes, the hazard pointers; no walk
   ever reads a freed or recycled snapshot, and the whole implements
   AtomicSnapshot. *)
EXTENDS Snapshots, SlotPoolProofs

(* The steps of Snapshots drive the pool by steps of SlotPool. *)
LEMMA StepIsPoolStep == [Next]_vars => [PoolNext]_poolVars
PROOF
<1> SUFFICES ASSUME [Next]_vars PROVE [PoolNext]_poolVars
  OBVIOUS
<1>1. CASE UNCHANGED vars
  BY <1>1 DEF vars
<1>2. ASSUME NEW g \in Growers, GrowStep(g) PROVE PoolNext
  BY <1>2 DEF GrowStep, PoolNext
<1>3. ASSUME NEW w \in Walkers, ClaimStep(w) \/ Claimed(w) \/ InitFails(w) \/ Fini(w) PROVE PoolNext
  BY <1>3 DEF ClaimStep, Claimed, InitFails, Fini, PoolNext, Claim
<1>4. ASSUME NEW w \in Walkers, LoadCurrent(w) \/ StoreHazard(w) \/ Recheck(w) \/ Populate(w)
      PROVE  UNCHANGED poolVars
  BY <1>4 DEF LoadCurrent, StoreHazard, Recheck, Populate
<1>5. ASSUME NEW s \in Stale, StaleFini(s) PROVE PoolNext
  BY <1>5 DEF StaleFini, PoolNext
<1>6. ASSUME NEW p \in Procs, ReleaseWon(p) \/ ReleaseLost(p) \/ Freed(p) PROVE PoolNext
  BY <1>6 DEF ReleaseWon, ReleaseLost, Freed, PoolNext, Release
<1>7. ASSUME NEW p \in Procs, ClearHazard(p) \/ ClearSnapshot(p) PROVE UNCHANGED poolVars
  BY <1>7 DEF ClearHazard, ClearSnapshot
<1>8. CASE Publish \/ Reclaim
  BY <1>8 DEF Publish, Reclaim, NextRetired, ScanSlot, Keep, Drop, WriterUnlock
<1> QED BY <1>1, <1>2, <1>3, <1>4, <1>5, <1>6, <1>7, <1>8 DEF Next, Acquire, FiniStep

-----------------------------------------------------------------------------
(* Type correctness.                                                       *)

LEMMA SnapTypeInit == Init => TypeOK
PROOF BY TypeInit, SlotsFacts, SnapshotAssumption DEF Init, TypeOK, NoScan

LEMMA SnapTypeStep == TypeOK /\ [Next]_vars => TypeOK'
PROOF
<1> SUFFICES ASSUME TypeOK, [Next]_vars PROVE TypeOK'
  OBVIOUS
<1> USE SnapshotAssumption
<1>0. PoolTypeOK /\ PoolTypeOK'
  BY StepIsPoolStep, TypeStep DEF TypeOK
<1>1. CASE UNCHANGED <<writerVars, readerVars>>
  BY <1>0, <1>1 DEF TypeOK, writerVars, readerVars
<1>2. ASSUME NEW w \in Walkers, Claimed(w) \/ Acquire(w) \/ Fini(w) PROVE TypeOK'
  <2>0. w \in Procs
    BY DEF Procs
  <2>1. CASE Claimed(w)
    BY <1>0, <2>0, <2>1 DEF Claimed, At, TypeOK, writerVars
  <2>2. CASE LoadCurrent(w)
    <3>1. PICK k \in view[w]..published :
            /\ ptr' = [ptr EXCEPT ![w] = hist[k]]
            /\ view' = [view EXCEPT ![w] = k]
            /\ At(w, IF hist[k] = NULL THEN "null" ELSE "store")
      BY <2>2 DEF LoadCurrent
    <3>2. k \in 0..MaxPublish
      BY <2>0 DEF TypeOK
    <3> QED BY <1>0, <2>0, <2>2, <3>1, <3>2 DEF LoadCurrent, At, TypeOK, writerVars
  <2>3. CASE StoreHazard(w)
    BY <1>0, <2>0, <2>3 DEF StoreHazard, At, TypeOK, writerVars
  <2>4. CASE Recheck(w)
    BY <1>0, <2>0, <2>4 DEF Recheck, At, TypeOK, writerVars
  <2>5. CASE Populate(w)
    BY <1>0, <2>0, <2>5 DEF Populate, At, TypeOK, writerVars
  <2>6. CASE InitFails(w)
    <3>1. hazard' \in [Slots -> Addr \cup {NULL}]
      BY <2>6 DEF InitFails, TypeOK
    <3> QED BY <1>0, <2>0, <2>6, <3>1 DEF InitFails, LeaveWalk, At, TypeOK, writerVars
  <2>7. CASE Fini(w)
    BY <1>0, <2>0, <2>7 DEF Fini, LeaveWalk, At, TypeOK, writerVars
  <2> QED BY <1>2, <2>1, <2>2, <2>3, <2>4, <2>5, <2>6, <2>7 DEF Acquire
<1>3. ASSUME NEW p \in Procs, FiniStep(p) PROVE TypeOK'
  <2>1. CASE ReleaseWon(p)
    BY <1>0, <2>1 DEF ReleaseWon, At, TypeOK, writerVars
  <2>2. CASE ReleaseLost(p)
    BY <1>1, <2>2 DEF ReleaseLost
  <2>3. CASE ClearHazard(p)
    BY <1>0, <2>3 DEF ClearHazard, At, TypeOK, writerVars
  <2>4. CASE ClearSnapshot(p)
    BY <1>0, <2>4 DEF ClearSnapshot, At, TypeOK, writerVars
  <2>5. CASE Freed(p)
    BY <1>0, <2>5 DEF Freed, At, TypeOK, writerVars
  <2> QED BY <1>3, <2>1, <2>2, <2>3, <2>4, <2>5 DEF FiniStep
<1>4. CASE Publish
  BY <1>0, <1>4 DEF Publish, TypeOK, CURRENT, readerVars
<1>5. CASE Reclaim
  <2>1. CASE NextRetired
    BY <1>0, <2>1, SlotsFacts DEF NextRetired, TypeOK, readerVars
  <2>2. CASE ScanSlot
    <3>1. scan.i + 1 \in 0..MaxSlots
      BY <1>0, <2>2, AllocatedFacts, SlotsFacts DEF ScanSlot, TypeOK
    <3> QED BY <1>0, <2>2, <3>1 DEF ScanSlot, TypeOK, readerVars
  <2>3. CASE Keep
    BY <1>0, <2>3, SlotsFacts DEF Keep, TypeOK, NoScan, readerVars
  <2>4. CASE Drop
    BY <1>0, <2>4, SlotsFacts DEF Drop, TypeOK, NoScan, readerVars
  <2>5. CASE WriterUnlock
    BY <1>0, <2>5 DEF WriterUnlock, TypeOK, readerVars
  <2> QED BY <1>5, <2>1, <2>2, <2>3, <2>4, <2>5 DEF Reclaim
<1> QED
  BY <1>1, <1>2, <1>3, <1>4, <1>5 DEF Next, GrowStep, ClaimStep, StaleFini, vars

(* Every variable of the composed model keeps its type. *)
THEOREM SnapshotsTypeCorrect == Spec => []TypeOK
PROOF BY SnapTypeInit, SnapTypeStep, PTL DEF Spec

-----------------------------------------------------------------------------
(* The writer's boxes.                                                     *)

LEMMA BoxInit == Init => BoxInv
PROOF BY SnapshotAssumption DEF Init, BoxInv, CURRENT, retired, NoScan

LEMMA BoxStep == TypeOK /\ BoxInv /\ [Next]_vars => BoxInv'
PROOF
<1> SUFFICES ASSUME TypeOK, BoxInv, [Next]_vars PROVE BoxInv'
  OBVIOUS
<1> USE SnapshotAssumption
<1>1. CASE UNCHANGED writerVars
  BY <1>1 DEF BoxInv, CURRENT, retired, writerVars
<1>2. CASE Publish
  <2>1. PICK a \in Addr : /\ heap[a] = 0
                          /\ heap' = [heap EXCEPT ![a] = published + 1]
                          /\ hist' = [hist EXCEPT ![published + 1] = a]
    BY <1>2 DEF Publish
  <2>2. published + 1 \in 0..MaxPublish /\ published \in Nat /\ published' = published + 1
    BY <1>2 DEF Publish, TypeOK
  <2>3. CURRENT' = a /\ hist'[0] = hist[0] /\ \A k \in 1..published : hist'[k] = hist[k]
    BY <2>1, <2>2 DEF CURRENT, TypeOK
  <2>4. a # CURRENT /\ a \notin retired
    BY <2>1 DEF BoxInv
  <2>5. pending' = kept \cup ({CURRENT} \ {NULL}) /\ kept' = {} /\ pending = {} /\ writer' = "reclaim"
        /\ scan' = scan
    BY <1>2 DEF Publish, BoxInv
  <2>6. retired' = retired \cup ({CURRENT} \ {NULL})
    BY <2>5 DEF retired
  <2>7. \A b \in Addr : heap'[b] # 0 <=> b = CURRENT' \/ b \in retired'
    BY <2>1, <2>2, <2>3, <2>4, <2>6 DEF BoxInv, TypeOK
  <2>8. heap'[CURRENT'] = published'
    BY <2>1, <2>2, <2>3 DEF TypeOK
  <2>9. CURRENT' \notin retired' /\ pending' \cap kept' = {}
    BY <2>3, <2>4, <2>5, <2>6
  <2>10. \A k \in 1..published' : hist'[k] \in Addr
    <3>1. hist'[published + 1] = a
      BY <2>1, <2>2 DEF TypeOK
    <3> QED BY <2>1, <2>2, <2>3, <3>1 DEF BoxInv
  <2>11. scan.ptr = NULL
    BY <1>2 DEF Publish, BoxInv
  <2> QED BY <2>2, <2>3, <2>5, <2>7, <2>8, <2>9, <2>10, <2>11 DEF BoxInv
<1>3. CASE NextRetired
  BY <1>3 DEF NextRetired, BoxInv, CURRENT, retired, TypeOK
<1>4. CASE ScanSlot
  BY <1>4 DEF ScanSlot, BoxInv, CURRENT, retired, TypeOK
<1>5. CASE Keep
  BY <1>5 DEF Keep, BoxInv, CURRENT, retired, NoScan, TypeOK
<1>6. CASE Drop
  <2>1. CURRENT' = CURRENT /\ retired' = retired \ {scan.ptr} /\ scan.ptr \in retired
    BY <1>6 DEF Drop, BoxInv, CURRENT, retired
  <2> QED BY <1>6, <2>1 DEF Drop, BoxInv, NoScan, TypeOK
<1>7. CASE WriterUnlock
  BY <1>7 DEF WriterUnlock, BoxInv, CURRENT, retired, TypeOK, NoScan
<1>8. ASSUME NEW w \in Walkers, ClaimStep(w) \/ Claimed(w) \/ Acquire(w) \/ Fini(w)
      PROVE  UNCHANGED writerVars
  BY <1>8 DEF ClaimStep, Claimed, Acquire, LoadCurrent, StoreHazard, Recheck, Populate, InitFails, Fini
<1>9. ASSUME NEW p \in Procs, FiniStep(p) PROVE UNCHANGED writerVars
  BY <1>9 DEF FiniStep, ReleaseWon, ReleaseLost, ClearHazard, ClearSnapshot, Freed
<1> QED
  BY <1>1, <1>2, <1>3, <1>4, <1>5, <1>6, <1>7, <1>8, <1>9
     DEF Next, Reclaim, GrowStep, StaleFini, vars

-----------------------------------------------------------------------------
(* Hazards protect validated walks.                                        *)

(* A process that holds a slot holds it alone. *)
LEMMA SlotOwner ==
  ASSUME PoolTypeOK, HolderInv,
         NEW p \in Procs, pc[p] \in {"bump", "held", "clear"}
  PROVE  /\ at[p] \in Slots /\ at[p] < allocated /\ in_use[at[p]]
         /\ \A q \in Procs : pc[q] \in {"bump", "held", "clear"} /\ at[q] = at[p] => q = p
PROOF BY DEF HolderInv, Holder, PoolTypeOK

LEMMA HazardInit == Init => HazardInv
PROOF
BY DEF Init, PoolInit, HazardInv, Reading, HeldSteps, ClearSteps, Procs

(* Steps of the pool that leave the readers' cells alone. *)
LEMMA HazardPool ==
  ASSUME TypeOK, HolderInv, HazardInv, UNCHANGED <<writerVars, readerVars>>,
         \A p \in Procs : pc[p] \in {"held", "clear"} \/ pc'[p] \in {"held", "clear"} =>
                            pc'[p] = pc[p] /\ at'[p] = at[p],
         \A i \in Slots : in_use[i] => in_use'[i]
  PROVE  HazardInv'
PROOF
BY DEF HazardInv, Reading, HeldSteps, ClearSteps, Procs, writerVars, readerVars, TypeOK, PoolTypeOK

(* What HazardInv says of one process, and of one slot. *)
Local(p) ==
  /\ step[p] \in HeldSteps <=> pc[p] = "held"
  /\ step[p] \in ClearSteps <=> pc[p] = "clear"
  /\ p \in Walkers =>
       /\ step[p] \in {"store", "check"} => ptr[p] \in Addr
       /\ step[p] = "check" => hazard[at[p]] = ptr[p]
       /\ Reading(p) =>
            /\ ptr[p] \in Addr /\ hazard[at[p]] = ptr[p]
            /\ view[p] > 0 /\ heap[ptr[p]] = view[p]
            /\ scan.ptr = ptr[p] => scan.i <= at[p]
       /\ step[p] = "walk" => snapshot[at[p]] = ptr[p]
  /\ step[p] \in {"snapshot", "free"} => hazard[at[p]] = NULL
  /\ step[p] = "free" => snapshot[at[p]] = NULL
Clean(i) == ~in_use[i] => hazard[i] = NULL /\ snapshot[i] = NULL

(* The same after a step, as operators of their own. *)
LocalNext(p) == Local(p)'
CleanNext(i) == Clean(i)'

(* A process frees its slot only when it has cleared it. *)
FreesClean(p) == in_use' = in_use \/ (hazard'[at[p]] = NULL /\ snapshot'[at[p]] = NULL)

LEMMA HazardIsLocal ==
  /\ HazardInv => \A p \in Procs : Local(p)
  /\ HazardInv => \A i \in Slots : Clean(i)
  /\ (\A p \in Procs : LocalNext(p)) /\ (\A i \in Slots : CleanNext(i)) => HazardInv'
PROOF
<1>1. HazardInv => \A p \in Procs : Local(p)
  BY DEF HazardInv, Local
<1>2. HazardInv => \A i \in Slots : Clean(i)
  BY DEF HazardInv, Clean
<1>3. (\A p \in Procs : LocalNext(p)) /\ (\A i \in Slots : CleanNext(i)) => HazardInv'
  BY DEF HazardInv, LocalNext, CleanNext, Local, Clean, Procs
<1> QED BY <1>1, <1>2, <1>3

(* The step of a process that touches its own locals and its own slot. *)
Touches(p) ==
  /\ \A q \in Procs \ {p} : /\ step'[q] = step[q] /\ ptr'[q] = ptr[q] /\ view'[q] = view[q]
                            /\ pc'[q] = pc[q] /\ at'[q] = at[q]
  /\ \A i \in Slots \ {at[p]} :
       hazard'[i] = hazard[i] /\ snapshot'[i] = snapshot[i] /\ in_use'[i] = in_use[i]
  /\ UNCHANGED <<heap, scan>>

(* Such a step has only its own process and slot to answer for. *)
LEMMA HazardLocal ==
  ASSUME PoolTypeOK, HolderInv, HazardInv, NEW p \in Procs, pc[p] \in {"bump", "held", "clear"},
         Touches(p), LocalNext(p), FreesClean(p)
  PROVE  HazardInv'
PROOF
<1>1. \A q \in Procs \ {p} : pc[q] \in {"held", "clear"} => at[q] \in Slots \ {at[p]}
  BY SlotOwner
<1>2. ASSUME NEW q \in Procs \ {p} PROVE LocalNext(q)
  <2>1. Local(q)
    BY HazardIsLocal
  <2>2. CASE pc[q] \in {"held", "clear"}
    <3>1. hazard'[at[q]] = hazard[at[q]] /\ snapshot'[at[q]] = snapshot[at[q]]
      BY <1>1, <2>2, Zenon DEF Touches
    <3>2. /\ step'[q] = step[q] /\ ptr'[q] = ptr[q] /\ view'[q] = view[q]
          /\ pc'[q] = pc[q] /\ at'[q] = at[q] /\ heap' = heap /\ scan' = scan
      BY Zenon DEF Touches
    <3> QED BY <2>1, <3>1, <3>2 DEF LocalNext, Local, Reading
  <2>3. CASE pc[q] \notin {"held", "clear"}
    BY <2>1, <2>3, Zenon DEF Touches, LocalNext, Local, Reading, HeldSteps, ClearSteps
  <2> QED BY <2>2, <2>3
<1>3. ASSUME NEW i \in Slots PROVE CleanNext(i)
  <2>1. CASE i # at[p]
    BY <2>1, HazardIsLocal, Zenon DEF Touches, CleanNext, Clean
  <2>2. CASE i = at[p]
    BY <2>2, SlotOwner DEF FreesClean, CleanNext, Clean
  <2> QED BY <2>1, <2>2, Zenon
<1> QED BY <1>2, <1>3, HazardIsLocal

(* What the proofs below need of the types. *)
ReaderTypes ==
  /\ CellTypes
  /\ hazard \in [Slots -> Addr \cup {NULL}] /\ snapshot \in [Slots -> Addr \cup {NULL}]
  /\ ptr \in [Procs -> Addr \cup {NULL}] /\ view \in [Procs -> Nat]
  /\ DOMAIN step = Procs /\ step = [p \in Procs |-> step[p]]

LEMMA ReadersTyped == ASSUME TypeOK PROVE ReaderTypes
PROOF BY CellsTyped, SnapshotAssumption DEF TypeOK, ReaderTypes

LEMMA HazardReader ==
  ASSUME TypeOK, HolderInv, BoxInv, HazardInv,
         NEW w \in Walkers, Claimed(w) \/ Acquire(w) \/ Fini(w)
  PROVE  HazardInv'
PROOF
<1> USE DEF HeldSteps, ClearSteps
<1>0. w \in Procs /\ ReaderTypes
  BY ReadersTyped DEF Procs
<1>p. w \in Procs /\ PoolTypeOK
  BY DEF Procs, TypeOK
<1>1. CASE Claimed(w)
  <2>1. Touches(w)
    BY <1>0, <1>1 DEF Claimed, BumpSeq, Goto, At, writerVars, ReaderTypes, CellTypes, Touches
  <2>2. pc[w] = "bump" /\ pc'[w] = "held" /\ step'[w] = "load"
    BY <1>0, <1>1 DEF Claimed, BumpSeq, Goto, At, ReaderTypes, CellTypes
  <2>3. LocalNext(w)
    BY <2>2 DEF LocalNext, Local, Reading
  <2>4. in_use' = in_use
    BY <1>1 DEF Claimed, BumpSeq
  <2>u. FreesClean(w)
    BY <2>4 DEF FreesClean
  <2> QED BY <1>p, <2>1, <2>2, <2>3, <2>u, HazardLocal
<1>2. ASSUME pc[w] = "held" PROVE at[w] \in Slots /\ in_use[at[w]] /\ Local(w)
  BY <1>p, <1>2, SlotOwner, HazardIsLocal
<1>3. CASE LoadCurrent(w)
  <2>1. PICK k \in view[w]..published :
          /\ ptr' = [ptr EXCEPT ![w] = hist[k]]
          /\ view' = [view EXCEPT ![w] = k]
          /\ step' = [step EXCEPT ![w] = IF hist[k] = NULL THEN "null" ELSE "store"]
    BY <1>3 DEF LoadCurrent, At
  <2>2. /\ pc[w] = "held" /\ UNCHANGED <<pc, at, in_use, hazard, snapshot, heap, scan>>
    BY <1>3 DEF LoadCurrent, poolVars, cellVars, procVars, writerVars
  <2>3. Touches(w)
    BY <1>0, <2>1, <2>2 DEF ReaderTypes, Touches
  <2>4. k \in 0..MaxPublish
    BY <2>1, SnapshotAssumption, <1>0 DEF TypeOK
  <2>5. step'[w] \in {"null", "store"} /\ (step'[w] = "store" => ptr'[w] \in Addr)
    BY <1>0, <2>1, <2>4 DEF ReaderTypes, TypeOK
  <2>6. LocalNext(w)
    BY <2>2, <2>5 DEF LocalNext, Local, Reading
  <2>u. FreesClean(w)
    BY <2>2 DEF FreesClean
  <2> QED BY <1>p, <2>2, <2>3, <2>6, <2>u, HazardLocal
<1>4. CASE StoreHazard(w)
  <2>1. /\ pc[w] = "held" /\ step[w] = "store"
        /\ UNCHANGED <<pc, at, in_use, snapshot, heap, scan, ptr, view>>
    BY <1>4 DEF StoreHazard, poolVars, cellVars, procVars, writerVars
  <2>2. Touches(w) /\ step'[w] = "check" /\ hazard'[at[w]] = ptr[w]
    BY <1>0, <1>2, <1>4, <2>1 DEF StoreHazard, At, ReaderTypes, Touches
  <2>3. LocalNext(w)
    BY <1>2, <2>1, <2>2 DEF LocalNext, Local, Reading
  <2>u. FreesClean(w)
    BY <2>1, Zenon DEF FreesClean
  <2>v. pc[w] \in {"bump", "held", "clear"} /\ Touches(w)
    BY <2>1, <2>2
  <2> QED BY <1>p, <2>3, <2>u, <2>v, HazardLocal
<1>5. CASE Recheck(w)
  <2>1. /\ pc[w] = "held" /\ step[w] = "check"
        /\ UNCHANGED <<pc, at, in_use, hazard, snapshot, heap, scan, ptr>>
    BY <1>5, Zenon DEF Recheck, poolVars, cellVars, procVars, writerVars
  <2>2. /\ Touches(w) /\ view'[w] = published
        /\ step'[w] = IF CURRENT = ptr[w] THEN "populate" ELSE "load"
    BY <1>0, <1>5, <2>1 DEF Recheck, At, ReaderTypes, Touches
  <2>3. ptr[w] \in Addr /\ hazard[at[w]] = ptr[w]
    BY <1>2, <2>1 DEF Local
  <2>4. ASSUME CURRENT = ptr[w] PROVE published > 0 /\ heap[ptr[w]] = published /\ scan.ptr # ptr[w]
    <3>1. published > 0 /\ heap[ptr[w]] = published
      BY <2>3, <2>4, SnapshotAssumption DEF BoxInv, CURRENT, TypeOK
    <3>2. scan.ptr # ptr[w]
      BY <2>3, <2>4, SnapshotAssumption DEF BoxInv, retired
    <3> QED BY <3>1, <3>2
  <2>5. LocalNext(w)
    BY <2>1, <2>2, <2>3, <2>4 DEF LocalNext, Local, Reading
  <2>u. FreesClean(w)
    BY <2>1 DEF FreesClean
  <2>v. pc[w] \in {"bump", "held", "clear"} /\ Touches(w)
    BY <2>1, <2>2
  <2> QED BY <1>p, <2>5, <2>u, <2>v, HazardLocal
<1>6. CASE Populate(w)
  <2>1. /\ pc[w] = "held" /\ step[w] = "populate"
        /\ UNCHANGED <<pc, at, in_use, hazard, heap, scan, ptr, view>>
    BY <1>6 DEF Populate, poolVars, cellVars, procVars, writerVars
  <2>2. Touches(w) /\ step'[w] = "walk" /\ snapshot'[at[w]] = ptr[w]
    BY <1>0, <1>2, <1>6, <2>1 DEF Populate, At, ReaderTypes, Touches
  <2>3. LocalNext(w)
    BY <1>2, <2>1, <2>2 DEF LocalNext, Local, Reading
  <2>u. FreesClean(w)
    BY <2>1 DEF FreesClean
  <2> QED BY <1>p, <2>1, <2>2, <2>3, <2>u, HazardLocal
<1>7. CASE InitFails(w) \/ Fini(w)
  <2>1. pc[w] = "held" /\ UNCHANGED <<at, in_use, snapshot, heap, scan>>
    BY <1>7 DEF InitFails, Fini, BeginFini, cellVars, writerVars
  <2>2. Touches(w)
    BY <1>0, <1>7, <2>1 DEF InitFails, Fini, BeginFini, Goto, LeaveWalk, At, ReaderTypes, CellTypes, Touches
  <2>3. pc'[w] = "fini" /\ step'[w] = "none"
    BY <1>0, <1>7, Zenon DEF InitFails, Fini, BeginFini, Goto, LeaveWalk, At, ReaderTypes, CellTypes
  <2>4. LocalNext(w)
    BY <2>3, Zenon DEF LocalNext, Local, Reading
  <2>u. FreesClean(w)
    BY <2>1 DEF FreesClean
  <2>v. pc[w] \in {"bump", "held", "clear"} /\ Touches(w)
    BY <2>1, <2>2
  <2> QED BY <1>p, <2>4, <2>u, <2>v, HazardLocal
<1> QED BY <1>1, <1>3, <1>4, <1>5, <1>6, <1>7 DEF Acquire

-----------------------------------------------------------------------------
(* Reclamation                                                             *)

LEMMA HazardFini ==
  ASSUME TypeOK, HolderInv, BoxInv, HazardInv, NEW p \in Procs, FiniStep(p)
  PROVE  HazardInv'
PROOF
<1> USE DEF HeldSteps, ClearSteps
<1>0. ReaderTypes /\ Local(p)
  BY ReadersTyped, HazardIsLocal
<1>p. PoolTypeOK
  BY DEF TypeOK
<1>1. CASE ReleaseWon(p)
  <2>1. /\ pc[p] = "fini" /\ seq[at[p]] = nonce[p]
        /\ UNCHANGED <<at, in_use, hazard, snapshot, heap, scan, ptr, view>>
    BY <1>1 DEF ReleaseWon, ReleaseCas, writerVars
  <2>2. /\ pc'[p] = "clear" /\ step'[p] = "hazard"
        /\ \A q \in Procs \ {p} : pc'[q] = pc[q] /\ step'[q] = step[q]
    BY <1>0, <1>1 DEF ReleaseWon, ReleaseCas, Goto, At, ReaderTypes, CellTypes
  <2>3. \A q \in Procs : Local(q)
    BY HazardIsLocal
  <2>4. ASSUME NEW q \in Procs \ {p} PROVE LocalNext(q)
    <3>1. Local(q) /\ pc'[q] = pc[q] /\ step'[q] = step[q] /\ (Reading(q)' <=> Reading(q))
      BY <2>2, <2>3 DEF Reading
    <3> QED BY <2>1, <3>1 DEF LocalNext, Local
  <2>5. LocalNext(p)
    BY <2>2 DEF LocalNext, Local, Reading
  <2>6. \A i \in Slots : CleanNext(i)
    BY <2>1, HazardIsLocal DEF CleanNext, Clean
  <2> QED BY <2>4, <2>5, <2>6, HazardIsLocal
<1>2. CASE ReleaseLost(p)
  <2>1. \A q \in Procs : pc[q] \in {"held", "clear"} \/ pc'[q] \in {"held", "clear"} =>
          pc'[q] = pc[q] /\ at'[q] = at[q]
    BY <1>0, <1>2 DEF ReleaseLost, ReleaseCasFails, Dead, Goto, ReaderTypes, CellTypes
  <2> QED BY <1>2, <2>1, HazardPool DEF ReleaseLost, ReleaseCasFails, cellVars
<1>3. ASSUME pc[p] = "clear" PROVE at[p] \in Slots /\ in_use[at[p]]
  BY <1>p, <1>3, SlotOwner
<1>4. CASE ClearHazard(p)
  <2>1. /\ pc[p] = "clear" /\ step[p] = "hazard"
        /\ UNCHANGED <<pc, at, in_use, snapshot, heap, scan, ptr, view>>
    BY <1>4 DEF ClearHazard, poolVars, cellVars, procVars, writerVars
  <2>2. Touches(p) /\ step'[p] = "snapshot" /\ hazard'[at[p]] = NULL
    BY <1>0, <1>3, <1>4, <2>1 DEF ClearHazard, At, ReaderTypes, Touches
  <2>3. LocalNext(p)
    BY <2>1, <2>2 DEF LocalNext, Local, Reading
  <2>u. FreesClean(p)
    BY <2>1 DEF FreesClean
  <2> QED BY <1>p, <2>1, <2>2, <2>3, <2>u, HazardLocal
<1>5. CASE ClearSnapshot(p)
  <2>1. /\ pc[p] = "clear" /\ step[p] = "snapshot"
        /\ UNCHANGED <<pc, at, in_use, hazard, heap, scan, ptr, view>>
    BY <1>5 DEF ClearSnapshot, poolVars, cellVars, procVars, writerVars
  <2>2. Touches(p) /\ step'[p] = "free" /\ snapshot'[at[p]] = NULL
    BY <1>0, <1>3, <1>5, <2>1 DEF ClearSnapshot, At, ReaderTypes, Touches
  <2>3. LocalNext(p)
    BY <1>0, <2>1, <2>2 DEF LocalNext, Local, Reading
  <2>u. FreesClean(p)
    BY <2>1 DEF FreesClean
  <2> QED BY <1>p, <2>1, <2>2, <2>3, <2>u, HazardLocal
<1>6. CASE Freed(p)
  <2>1. /\ pc[p] = "clear" /\ step[p] = "free"
        /\ UNCHANGED <<hazard, snapshot, heap, scan, ptr, view>>
    BY <1>6 DEF Freed, FreeSlot, writerVars
  <2>2. /\ pc'[p] = "idle" /\ step'[p] = "none"
        /\ \A q \in Procs \ {p} : pc'[q] = pc[q] /\ at'[q] = at[q] /\ step'[q] = step[q]
        /\ \A i \in Slots \ {at[p]} : in_use'[i] = in_use[i]
    BY <1>0, <1>6 DEF Freed, FreeSlot, Dead, Goto, At, ReaderTypes, CellTypes
  <2>3. Touches(p)
    BY <2>1, <2>2 DEF Touches
  <2>4. LocalNext(p)
    BY <2>2 DEF LocalNext, Local, Reading
  <2>5. hazard'[at[p]] = NULL /\ snapshot'[at[p]] = NULL
    BY <1>0, <2>1 DEF Local
  <2>u. FreesClean(p)
    BY <2>5 DEF FreesClean
  <2> QED BY <1>p, <2>1, <2>3, <2>4, <2>u, HazardLocal
<1> QED BY <1>1, <1>2, <1>4, <1>5, <1>6 DEF FiniStep

LEMMA HazardWriter ==
  ASSUME TypeOK, HolderInv, BoxInv, HazardInv, Publish \/ Reclaim
  PROVE  HazardInv'
PROOF
<1> USE SnapshotAssumption
<1>0. UNCHANGED <<pc, at, in_use, hazard, snapshot, step, ptr, view>>
  BY DEF Publish, Reclaim, NextRetired, ScanSlot, Keep, Drop, WriterUnlock,
         poolVars, procVars, cellVars, readerVars
<1>1. SUFFICES ASSUME NEW w \in Walkers, Reading(w)
               PROVE  heap'[ptr[w]] = heap[ptr[w]] /\ (scan'.ptr = ptr[w] => scan'.i <= at[w])
  <2>1. \A q \in Walkers : Reading(q)' <=> Reading(q)
    BY <1>0 DEF Reading
  <2> QED BY <1>0, <2>1 DEF HazardInv
<1>2. /\ ptr[w] \in Addr /\ hazard[at[w]] = ptr[w] /\ heap[ptr[w]] # 0
      /\ scan.ptr = ptr[w] => scan.i <= at[w]
  <2>1. /\ ptr[w] \in Addr /\ hazard[at[w]] = ptr[w] /\ view[w] > 0 /\ heap[ptr[w]] = view[w]
        /\ scan.ptr = ptr[w] => scan.i <= at[w]
    BY <1>1 DEF HazardInv
  <2> QED BY <2>1
<1>3. at[w] \in Slots /\ at[w] < allocated /\ at[w] \in Nat /\ allocated \in Nat
  BY <1>1, SlotOwner, SlotsFacts, AllocatedFacts DEF Reading, Procs, TypeOK
<1>4. CASE Publish
  BY <1>2, <1>4 DEF Publish, TypeOK
<1>5. CASE NextRetired
  BY <1>2, <1>3, <1>5 DEF NextRetired
<1>6. CASE ScanSlot
  BY <1>2, <1>3, <1>6 DEF ScanSlot, TypeOK
<1>7. CASE Keep
  BY <1>2, <1>3, <1>7 DEF Keep, NoScan
<1>8. CASE Drop
  <2>1. scan.ptr # ptr[w]
    BY <1>2, <1>3, <1>8 DEF Drop, TypeOK
  <2> QED BY <1>2, <1>3, <1>8, <2>1 DEF Drop, NoScan, TypeOK
<1>9. CASE WriterUnlock
  BY <1>2, <1>9 DEF WriterUnlock
<1> QED BY <1>4, <1>5, <1>6, <1>7, <1>8, <1>9 DEF Reclaim

LEMMA HazardStep ==
  TypeOK /\ HolderInv /\ BoxInv /\ HazardInv /\ [Next]_vars => HazardInv'
PROOF
<1> SUFFICES ASSUME TypeOK, HolderInv, BoxInv, HazardInv, [Next]_vars PROVE HazardInv'
  OBVIOUS
<1>0. TypeOK' /\ PoolTypeOK
  BY SnapTypeStep DEF TypeOK
<1>1. CASE UNCHANGED vars
  BY <1>1, HazardPool DEF vars, poolVars, procVars, cellVars
<1>2. ASSUME NEW g \in Growers, GrowStep(g) PROVE HazardInv'
  <2>1. UNCHANGED <<pc, at, in_use>>
    BY <1>2 DEF GrowStep, Grow, InitPool, ThreadRegistered, LockPool, PublishChunk, UnlockPool, procVars, cellVars
  <2> QED BY <1>2, <2>1, HazardPool DEF GrowStep
<1>3. ASSUME NEW w \in Walkers, ClaimStep(w) PROVE HazardInv'
  <2>1. \A p \in Procs : pc[p] \in {"held", "clear"} \/ pc'[p] \in {"held", "clear"} =>
          pc'[p] = pc[p] /\ at'[p] = at[p]
    BY <1>0, <1>3 DEF ClaimStep, BeginClaim, ClaimCas, ClaimCasFails, ClaimFails, Dead, Goto, PoolTypeOK
  <2>2. \A i \in Slots : in_use[i] => in_use'[i]
    BY <1>0, <1>3 DEF ClaimStep, BeginClaim, ClaimCas, ClaimCasFails, ClaimFails, cellVars, PoolTypeOK
  <2> QED BY <1>3, <2>1, <2>2, HazardPool DEF ClaimStep
<1>4. ASSUME NEW s \in Stale, StaleFini(s) PROVE HazardInv'
  <2>1. \A p \in Procs : pc[p] \in {"held", "clear"} \/ pc'[p] \in {"held", "clear"} =>
          pc'[p] = pc[p] /\ at'[p] = at[p]
    BY <1>0, <1>4 DEF StaleFini, BeginStaleFini, Goto, PoolTypeOK, Procs
  <2> QED BY <1>4, <2>1, HazardPool DEF StaleFini, BeginStaleFini, cellVars
<1> QED
  BY <1>0, <1>1, <1>2, <1>3, <1>4, HazardReader, HazardFini, HazardWriter DEF Next

(* The inductive invariant of the composition. *)
SnapInv == TypeOK /\ HolderInv /\ BoxInv /\ HazardInv

LEMMA SnapInvCorrect == Spec => []SnapInv
PROOF
<1>1. Init => SnapInv
  BY SnapTypeInit, HolderInit, BoxInit, HazardInit DEF Init, SnapInv
<1>2. SnapInv /\ [Next]_vars => SnapInv'
  BY SnapTypeStep, StepIsPoolStep, HolderStep, BoxStep, HazardStep DEF SnapInv, TypeOK
<1> QED BY <1>1, <1>2, PTL DEF Spec

(* No walk reads a freed or recycled snapshot, for every number of walks,
   slots, addresses, stale finis and publishes. *)
THEOREM SafeReclamation == Spec => []NoUseAfterFree
PROOF
<1>1. SnapInv => NoUseAfterFree
  BY DEF SnapInv, HazardInv, NoUseAfterFree
<1> QED BY <1>1, SnapInvCorrect, PTL

(* A walk reads the snapshot it validated, whatever else uses the pool. *)
THEOREM WalksReadTheirSnapshots == Spec => []WalkReadsItsSnapshot
PROOF
<1>1. SnapInv => WalkReadsItsSnapshot
  BY DEF SnapInv, HazardInv, WalkReadsItsSnapshot
<1> QED BY <1>1, SnapInvCorrect, PTL

(* with_writer may clone CURRENT without protecting it: the box it points to is
   the newest version and never on the retired list. *)
THEOREM CurrentStaysAlive == Spec => []CurrentAlive
PROOF
<1>1. SnapInv => CurrentAlive
  BY DEF SnapInv, BoxInv, CurrentAlive
<1> QED BY <1>1, SnapInvCorrect, PTL

(* The writer leaks no snapshot and frees none twice. *)
THEOREM WriterAccounts == Spec => []BoxesAccounted
PROOF
<1>1. SnapInv => BoxesAccounted
  <2> SUFFICES ASSUME SnapInv, NEW a \in Addr \cup {NULL}
               PROVE  a \in Addr /\ heap[a] # 0 <=> a \in ({CURRENT} \ {NULL}) \cup retired
    BY DEF BoxesAccounted, SnapInv, TypeOK, CURRENT, retired
  <2> QED BY SnapshotAssumption DEF SnapInv, BoxInv, TypeOK, retired
<1> QED BY <1>1, SnapInvCorrect, PTL

(* A released slot keeps nothing of its last walk, so an idle pool pins no
   snapshot. *)
THEOREM FreeSlotsClean == Spec => []FreeSlotsAreClean
PROOF
<1>1. SnapInv => FreeSlotsAreClean
  BY DEF SnapInv, HazardInv, FreeSlotsAreClean
<1> QED BY <1>1, SnapInvCorrect, PTL
-----------------------------------------------------------------------------
(* Refinement.                                                             *)

(* What a walk sees through its pointer, in terms of its view. *)
Held == [w \in Walkers |-> IF Reading(w) THEN heap[ptr[w]] ELSE NULL]

LEMMA HeldIsView ==
  /\ SnapInv => Held = [w \in Walkers |-> IF Reading(w) THEN view[w] ELSE NULL]
  /\ SnapInv' => Held' = [w \in Walkers |-> IF Reading(w)' THEN view'[w] ELSE NULL]
PROOF
<1>1. SnapInv => \A w \in Walkers : Reading(w) => heap[ptr[w]] = view[w]
  BY DEF SnapInv, HazardInv
<1>2. SnapInv' => \A w \in Walkers : Reading(w)' => heap'[ptr'[w]] = view'[w]
  BY DEF SnapInv, HazardInv
<1> QED BY <1>1, <1>2 DEF Held

(* A step leaves what the walks see alone, unless it is a recheck that
   succeeds, a fini, or a publish. *)
LEMMA HeldMoves ==
  ASSUME SnapInv, SnapInv', [Next]_vars
  PROVE  \/ published' = published + 1 /\ Held' = Held
         \/ published' = published /\ Held' = Held
         \/ published' = published /\ \E w \in Walkers :
              /\ Held[w] = NULL /\ published > 0
              /\ Held' = [Held EXCEPT ![w] = published]
         \/ published' = published /\ \E w \in Walkers :
              /\ Held[w] # NULL
              /\ Held' = [Held EXCEPT ![w] = NULL]
PROOF
<1> DEFINE V(w) == IF Reading(w) THEN view[w] ELSE NULL
<1>0. /\ Held = [w \in Walkers |-> V(w)] /\ Held' = [w \in Walkers |-> V(w)']
  BY HeldIsView
<1>t. PoolTypeOK /\ ReaderTypes /\ \A w \in Walkers : w \in Procs
  BY ReadersTyped DEF SnapInv, TypeOK, Procs
<1>1. ASSUME \A w \in Walkers : V(w)' = V(w) PROVE Held' = Held
  BY <1>0, <1>1
<1>2. CASE UNCHANGED vars
  BY <1>1, <1>2 DEF vars, poolVars, procVars, writerVars, readerVars, Reading
<1>3. CASE Publish \/ Reclaim
  <2>1. \A w \in Walkers : V(w)' = V(w)
    BY <1>3 DEF Publish, Reclaim, NextRetired, ScanSlot, Keep, Drop, WriterUnlock,
           poolVars, procVars, readerVars, Reading
  <2>2. published' = published \/ published' = published + 1
    BY <1>3 DEF Publish, Reclaim, NextRetired, ScanSlot, Keep, Drop, WriterUnlock
  <2> QED BY <1>1, <2>1, <2>2
<1>4. ASSUME NEW g \in Growers, GrowStep(g)
      PROVE  published' = published /\ Held' = Held
  BY <1>1, <1>4 DEF GrowStep, Grow, InitPool, ThreadRegistered, LockPool, PublishChunk, UnlockPool,
         procVars, writerVars, readerVars, Reading
<1>5. ASSUME NEW w \in Walkers, ClaimStep(w)
      PROVE  published' = published /\ Held' = Held
  <2>1. \A q \in Walkers : pc'[q] = "held" <=> pc[q] = "held"
    BY <1>t, <1>5 DEF ClaimStep, BeginClaim, ClaimCas, ClaimCasFails, ClaimFails, Dead, Goto, ReaderTypes, CellTypes
  <2> QED BY <1>1, <1>5, <2>1 DEF ClaimStep, writerVars, readerVars, Reading
<1>6. ASSUME NEW w \in Walkers,
             Claimed(w) \/ LoadCurrent(w) \/ StoreHazard(w) \/ Populate(w) \/ InitFails(w)
      PROVE  published' = published /\ Held' = Held
  <2>1. published' = published
    BY <1>6 DEF Claimed, LoadCurrent, StoreHazard, Populate, InitFails, writerVars
  <2>2. \A q \in Walkers \ {w} : pc'[q] = pc[q] /\ step'[q] = step[q] /\ view'[q] = view[q]
    <3> USE <1>t DEF ReaderTypes, CellTypes
    <3>1. CASE Claimed(w)
      BY <3>1 DEF Claimed, BumpSeq, Goto, At
    <3>2. CASE LoadCurrent(w)
      <4>1. PICK k, l : view' = [view EXCEPT ![w] = k] /\ step' = [step EXCEPT ![w] = l]
        BY <3>2 DEF LoadCurrent, At
      <4> QED BY <3>2, <4>1 DEF LoadCurrent, poolVars, procVars
    <3>3. CASE StoreHazard(w)
      BY <3>3 DEF StoreHazard, At, poolVars, procVars
    <3>4. CASE Populate(w)
      BY <3>4 DEF Populate, At, poolVars, procVars
    <3>5. CASE InitFails(w)
      BY <3>5 DEF InitFails, BeginFini, Goto, LeaveWalk, At
    <3> QED BY <1>6, <3>1, <3>2, <3>3, <3>4, <3>5
  <2>3. CASE Populate(w)
    <3>1. Reading(w) /\ Reading(w)' /\ view' = view
      BY <1>t, <2>3 DEF Populate, At, Reading, poolVars, procVars, ReaderTypes
    <3> QED BY <1>1, <2>1, <2>2, <3>1 DEF Reading
  <2>4. CASE ~Populate(w)
    <3>1. ~Reading(w)
      BY <1>6, <2>4 DEF Claimed, BumpSeq, LoadCurrent, StoreHazard, InitFails, Reading
    <3>2. ~Reading(w)'
      BY <1>t, <1>6, <2>4 DEF Claimed, LoadCurrent, StoreHazard, InitFails, LeaveWalk, At,
             Reading, ReaderTypes
    <3> QED BY <1>1, <2>1, <2>2, <3>1, <3>2 DEF Reading
  <2> QED BY <2>3, <2>4
<1>7. ASSUME NEW w \in Walkers, Recheck(w)
      PROVE  /\ published' = published
             /\ \/ Held' = Held
                \/ Held[w] = NULL /\ published > 0 /\ Held' = [Held EXCEPT ![w] = published]
  <2>1. /\ published' = published /\ pc' = pc /\ ~Reading(w)
        /\ \A q \in Walkers \ {w} : step'[q] = step[q] /\ view'[q] = view[q]
        /\ view'[w] = published
    BY <1>t, <1>7 DEF Recheck, At, writerVars, poolVars, procVars, Reading, ReaderTypes
  <2>2. CASE Reading(w)'
    <3>1. published > 0
      BY <2>1, <2>2 DEF SnapInv, HazardInv
    <3>2. \A q \in Walkers \ {w} : V(q)' = V(q)
      BY <2>1 DEF Reading
    <3>3. Held[w] = NULL /\ V(w)' = published
      BY <1>0, <2>1, <2>2
    <3>4. Held' = [Held EXCEPT ![w] = published]
      BY <1>0, <3>2, <3>3
    <3> QED BY <2>1, <3>1, <3>3, <3>4
  <2>3. CASE ~Reading(w)'
    BY <1>1, <2>1, <2>3 DEF Reading
  <2> QED BY <2>2, <2>3
<1>8. ASSUME NEW w \in Walkers, Fini(w)
      PROVE  published' = published /\ Held[w] # NULL /\ Held' = [Held EXCEPT ![w] = NULL]
  <2>1. /\ published' = published /\ Reading(w) /\ ~Reading(w)' /\ view[w] \in Nat
        /\ \A q \in Walkers \ {w} : step'[q] = step[q] /\ view'[q] = view[q] /\ pc'[q] = pc[q]
    BY <1>t, <1>8 DEF Fini, BeginFini, Goto, LeaveWalk, At, writerVars, Reading, ReaderTypes, CellTypes
  <2> QED BY <1>0, <2>1, NullIsNoVersion DEF Reading
<1>9. ASSUME NEW p \in Procs, FiniStep(p) \/ (p \in Stale /\ StaleFini(p))
      PROVE  published' = published /\ Held' = Held
  <2>1. published' = published /\ view' = view
    BY <1>9 DEF FiniStep, ReleaseWon, ReleaseLost, ClearHazard, ClearSnapshot, Freed, StaleFini,
           writerVars, readerVars
  <2>2. \A q \in Procs \ {p} : pc'[q] = pc[q] /\ step'[q] = step[q]
    <3> USE <1>t DEF ReaderTypes, CellTypes
    <3>1. CASE ReleaseWon(p)
      BY <3>1 DEF ReleaseWon, ReleaseCas, Goto, At
    <3>2. CASE ReleaseLost(p)
      BY <3>2 DEF ReleaseLost, ReleaseCasFails, Dead, Goto, readerVars
    <3>3. CASE ClearHazard(p) \/ ClearSnapshot(p)
      BY <3>3 DEF ClearHazard, ClearSnapshot, At, poolVars, procVars
    <3>4. CASE Freed(p)
      BY <3>4 DEF Freed, FreeSlot, Dead, Goto, At
    <3>5. CASE StaleFini(p)
      BY <3>5 DEF StaleFini, BeginStaleFini, Goto, readerVars
    <3> QED BY <1>9, <3>1, <3>2, <3>3, <3>4, <3>5 DEF FiniStep
  <2>3. pc[p] # "held" /\ pc'[p] # "held"
    BY <1>t, <1>9 DEF FiniStep, ReleaseWon, ReleaseCas, ReleaseLost, ReleaseCasFails, ClearHazard,
           ClearSnapshot, Freed, FreeSlot, Dead, StaleFini, BeginStaleFini, Goto,
           poolVars, procVars, ReaderTypes, CellTypes
  <2>4. \A q \in Walkers : Reading(q)' <=> Reading(q)
    BY <2>2, <2>3 DEF Reading, Procs
  <2> QED BY <1>1, <2>1, <2>4
<1> QED BY <1>2, <1>3, <1>4, <1>5, <1>6, <1>7, <1>8, <1>9 DEF Next, Acquire, Procs

(* The hazard-pointer implementation behaves like one atomic register of
   versions: an acquire takes effect at the recheck, and what a walk then reads
   does not change until its fini. *)
THEOREM Refinement == Spec => RefinesAtomicSnapshot
PROOF
<1>1. Init => Abstract!Init
  BY DEF Init, PoolInit, Abstract!Init, Reading, Procs
<1>2. SnapInv /\ SnapInv' /\ [Next]_vars => [Abstract!Next]_(Abstract!vars)
  BY HeldMoves DEF Abstract!Next, Abstract!Publish, Abstract!Acquire, Abstract!Release, Abstract!vars, Held
<1> QED BY <1>1, <1>2, SnapInvCorrect, PTL DEF Spec, RefinesAtomicSnapshot, Abstract!Spec

=============================================================================
