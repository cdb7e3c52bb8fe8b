----------------------------- MODULE Snapshots ------------------------------
(***************************************************************************)
(* The published snapshot of the module set and its hand-rolled hazard     *)
(* pointers (src/state.rs), composed with the slot pool of SlotPool:       *)
(* cursor_init and cursor_fini of src/cursor.rs on one side, with_writer   *)
(* and reclaim on the other.                                               *)
(*                                                                         *)
(* A snapshot's contents are abstracted to its version: the n-th snapshot  *)
(* published has contents n.  Addresses are reused as soon as they are     *)
(* freed, so a pointer comparison may succeed on recycled memory.          *)
(***************************************************************************)
EXTENDS SlotPool

CONSTANTS
  Addr,         \* heap addresses of boxed snapshots
  NULL,
  MaxPublish    \* bound: the number of calls of with_writer

ASSUME SnapshotAssumption == NULL \notin Addr /\ MaxPublish \in Nat
ASSUME NullIsNoVersion == NULL \notin Nat

VARIABLES
  published,    \* number of swaps of CURRENT so far
  hist,         \* hist[k]: the value of CURRENT after the k-th swap
  heap,         \* heap[a]: the version stored at address a, 0 when a is free
  writer,       \* "idle", or "reclaim" while WRITER is held after the swap
  pending,      \* retired snapshots reclaim has still to examine
  kept,         \* retired snapshots reclaim has passed, or left by earlier calls
  scan,         \* [ptr, i]: is_hazarded(ptr) is about to load slot i's hazard
  hazard,       \* [Slots -> Addr or NULL]
  snapshot,     \* [Slots -> Addr or NULL]: inner.snapshot
  step,         \* [Procs -> ...]: where a process is while it holds a slot
  ptr,          \* [Procs -> Addr or NULL]: p of acquire_snapshot
  view          \* [Procs -> Nat]: newest value of CURRENT the walk has read

writerVars == <<published, hist, heap, writer, pending, kept, scan>>
readerVars == <<hazard, snapshot, step, ptr, view>>
vars == <<poolVars, writerVars, readerVars>>

CURRENT == hist[published]
retired == pending \cup kept
NoScan  == [ptr |-> NULL, i |-> 0]

Init ==
  /\ PoolInit
  /\ published = 0
  /\ hist = [k \in 0..MaxPublish |-> NULL]
  /\ heap = [a \in Addr |-> 0]
  /\ writer = "idle"
  /\ pending = {} /\ kept = {}
  /\ scan = NoScan
  /\ hazard = [i \in Slots |-> NULL]
  /\ snapshot = [i \in Slots |-> NULL]
  /\ step = [p \in Procs |-> "none"]
  /\ ptr = [p \in Procs |-> NULL]
  /\ view = [p \in Procs |-> 0]

At(p, l) == step' = [step EXCEPT ![p] = l]

(* The walk's locals go out of scope.  The next walk may be run by another
   thread, so what this one has read says nothing about it. *)
LeaveWalk(w) ==
  /\ At(w, "none")
  /\ ptr' = [ptr EXCEPT ![w] = NULL]
  /\ view' = [view EXCEPT ![w] = 0]

-----------------------------------------------------------------------------
(* The read path.  Each action is one access to shared memory.             *)

GrowStep(g) == Grow(g) /\ UNCHANGED <<writerVars, readerVars>>

(* claim_slot up to its fetch_add. *)
ClaimStep(w) ==
  /\ BeginClaim(w) \/ ClaimCas(w) \/ ClaimCasFails(w) \/ ClaimFails(w)
  /\ UNCHANGED <<writerVars, readerVars>>

Claimed(w) ==
  /\ BumpSeq(w) /\ At(w, "load")
  /\ UNCHANGED <<writerVars, hazard, snapshot, ptr, view>>

(* CURRENT.load(Acquire): any value not older than what the walk has read. *)
LoadCurrent(w) ==
  /\ pc[w] = "held" /\ step[w] = "load"
  /\ \E k \in view[w]..published :
       /\ ptr' = [ptr EXCEPT ![w] = hist[k]]
       /\ view' = [view EXCEPT ![w] = k]
       /\ At(w, IF hist[k] = NULL THEN "null" ELSE "store")
  /\ UNCHANGED <<poolVars, writerVars, hazard, snapshot>>

StoreHazard_Missing(w) ==
  /\ pc[w] = "held" /\ step[w] = "store"
  /\ At(w, "check")
  /\ UNCHANGED <<poolVars, writerVars, hazard, snapshot, ptr, view>>

StoreHazard(w) ==
  /\ pc[w] = "held" /\ step[w] = "store"
  /\ hazard' = [hazard EXCEPT ![at[w]] = ptr[w]]
  /\ At(w, "check")
  /\ UNCHANGED <<poolVars, writerVars, snapshot, ptr, view>>

Recheck_Acquire(w) ==
  /\ pc[w] = "held" /\ step[w] = "check"
  /\ \E k \in view[w]..published :
       /\ view' = [view EXCEPT ![w] = k]
       /\ At(w, IF hist[k] = ptr[w] THEN "populate" ELSE "load")
  /\ UNCHANGED <<poolVars, writerVars, hazard, snapshot, ptr>>

Recheck_NoReload(w) ==
  /\ pc[w] = "held" /\ step[w] = "check"
  /\ view' = [view EXCEPT ![w] = published]
  /\ At(w, IF CURRENT = ptr[w] THEN "populate" ELSE "store")
  /\ UNCHANGED <<poolVars, writerVars, hazard, snapshot, ptr>>

(* CURRENT.load(SeqCst): the latest value, as the writer's swap and scan are
   in the same total order. *)
Recheck(w) ==
  /\ pc[w] = "held" /\ step[w] = "check"
  /\ view' = [view EXCEPT ![w] = published]
  /\ At(w, IF CURRENT = ptr[w] THEN "populate" ELSE "load")
  /\ UNCHANGED <<poolVars, writerVars, hazard, snapshot, ptr>>

(* The rest of cursor_init: it reads the snapshot's max_code_addr, fills the
   slot's inner state and hands out the cursor. *)
Populate(w) ==
  /\ pc[w] = "held" /\ step[w] = "populate"
  /\ snapshot' = [snapshot EXCEPT ![at[w]] = ptr[w]]
  /\ At(w, "walk")
  /\ UNCHANGED <<poolVars, writerVars, hazard, ptr, view>>

(* Nothing published: clear the hazard, release the slot, return -2. *)
InitFails(w) ==
  /\ step[w] = "null" /\ BeginFini(w)
  /\ hazard' = [hazard EXCEPT ![at[w]] = NULL]
  /\ LeaveWalk(w)
  /\ UNCHANGED <<writerVars, snapshot>>

(* cursor_fini by the owner, and on a stale copy. *)
Fini(w) ==
  /\ step[w] = "walk" /\ BeginFini(w) /\ LeaveWalk(w)
  /\ UNCHANGED <<writerVars, hazard, snapshot>>

StaleFini(s) ==
  BeginStaleFini(s) /\ UNCHANGED <<writerVars, readerVars>>

ReleaseWon(p) ==
  /\ ReleaseCas(p) /\ At(p, "hazard")
  /\ UNCHANGED <<writerVars, hazard, snapshot, ptr, view>>

ReleaseLost_NoReturn(p) ==
  /\ ReleaseCasFails(p)
  /\ snapshot' = [snapshot EXCEPT ![at[p]] = NULL]
  /\ UNCHANGED <<writerVars, hazard, step, ptr, view>>

ReleaseLost(p) ==
  ReleaseCasFails(p) /\ UNCHANGED <<writerVars, readerVars>>

ClearHazard_Missing(p) ==
  /\ pc[p] = "clear" /\ step[p] = "hazard"
  /\ At(p, "snapshot")
  /\ UNCHANGED <<poolVars, writerVars, hazard, snapshot, ptr, view>>

ClearHazard_LocksWriter(p) ==
  /\ pc[p] = "clear" /\ step[p] = "hazard" /\ writer = "idle"
  /\ hazard' = [hazard EXCEPT ![at[p]] = NULL]
  /\ At(p, "snapshot")
  /\ UNCHANGED <<poolVars, writerVars, snapshot, ptr, view>>

ClearHazard(p) ==
  /\ pc[p] = "clear" /\ step[p] = "hazard"
  /\ hazard' = [hazard EXCEPT ![at[p]] = NULL]
  /\ At(p, "snapshot")
  /\ UNCHANGED <<poolVars, writerVars, snapshot, ptr, view>>

ClearSnapshot(p) ==
  /\ pc[p] = "clear" /\ step[p] = "snapshot"
  /\ snapshot' = [snapshot EXCEPT ![at[p]] = NULL]
  /\ At(p, "free")
  /\ UNCHANGED <<poolVars, writerVars, hazard, ptr, view>>

Freed(p) ==
  /\ step[p] = "free" /\ FreeSlot(p) /\ At(p, "none")
  /\ UNCHANGED <<writerVars, hazard, snapshot, ptr, view>>

-----------------------------------------------------------------------------
(* The writer.  WRITER is held from the load of CURRENT to WriterUnlock, so
   one writer variable stands for whichever thread holds it. *)

Publish_NoNullCheck ==
  /\ writer = "idle" /\ published < MaxPublish
  /\ \E a \in {b \in Addr : heap[b] = 0} :
       /\ heap' = [heap EXCEPT ![a] = published + 1]
       /\ hist' = [hist EXCEPT ![published + 1] = a]
       /\ pending' = kept \cup {CURRENT}
  /\ published' = published + 1
  /\ kept' = {}
  /\ writer' = "reclaim"
  /\ UNCHANGED <<poolVars, scan, readerVars>>

Publish_RetiresNew ==
  /\ writer = "idle" /\ published < MaxPublish
  /\ \E a \in {b \in Addr : heap[b] = 0} :
       /\ heap' = [heap EXCEPT ![a] = published + 1]
       /\ hist' = [hist EXCEPT ![published + 1] = a]
       /\ pending' = kept \cup {a}
  /\ published' = published + 1
  /\ kept' = {}
  /\ writer' = "reclaim"
  /\ UNCHANGED <<poolVars, scan, readerVars>>

(* with_writer up to its push: clone, mutate, box at a free address, swap
   CURRENT, retire the old snapshot.  Only the swap is visible to others. *)
Publish ==
  /\ writer = "idle" /\ published < MaxPublish
  /\ \E a \in {b \in Addr : heap[b] = 0} :
       /\ heap' = [heap EXCEPT ![a] = published + 1]
       /\ hist' = [hist EXCEPT ![published + 1] = a]
  /\ published' = published + 1
  /\ pending' = kept \cup ({CURRENT} \ {NULL})
  /\ kept' = {}
  /\ writer' = "reclaim"
  /\ UNCHANGED <<poolVars, scan, readerVars>>

(* reclaim visits the retired snapshots one by one, in any order. *)
NextRetired ==
  /\ writer = "reclaim" /\ scan = NoScan
  /\ \E a \in pending : scan' = [ptr |-> a, i |-> 0]
  /\ UNCHANGED <<poolVars, published, hist, heap, writer, pending, kept, readerVars>>

(* is_hazarded: the load of one slot's hazard. *)
ScanSlot ==
  /\ scan.ptr # NULL /\ scan.i < allocated
  /\ hazard[scan.i] # scan.ptr
  /\ scan' = [scan EXCEPT !.i = @ + 1]
  /\ UNCHANGED <<poolVars, published, hist, heap, writer, pending, kept, readerVars>>

Keep_Spins ==
  /\ scan.ptr # NULL /\ scan.i < allocated
  /\ hazard[scan.i] = scan.ptr
  /\ scan' = [scan EXCEPT !.i = 0]
  /\ UNCHANGED <<poolVars, published, hist, heap, writer, pending, kept, readerVars>>

Keep ==
  /\ scan.ptr # NULL /\ scan.i < allocated
  /\ hazard[scan.i] = scan.ptr
  /\ pending' = pending \ {scan.ptr}
  /\ kept' = kept \cup {scan.ptr}
  /\ scan' = NoScan
  /\ UNCHANGED <<poolVars, published, hist, heap, writer, readerVars>>

Drop_KeepsEntry ==
  /\ scan.ptr # NULL /\ scan.i >= allocated
  /\ heap' = [heap EXCEPT ![scan.ptr] = 0]
  /\ pending' = pending \ {scan.ptr}
  /\ kept' = kept \cup {scan.ptr}
  /\ scan' = NoScan
  /\ UNCHANGED <<poolVars, published, hist, writer, readerVars>>

(* No slot hazards it: drop the box. *)
Drop ==
  /\ scan.ptr # NULL /\ scan.i >= allocated
  /\ heap' = [heap EXCEPT ![scan.ptr] = 0]
  /\ pending' = pending \ {scan.ptr}
  /\ scan' = NoScan
  /\ UNCHANGED <<poolVars, published, hist, writer, kept, readerVars>>

WriterUnlock ==
  /\ writer = "reclaim" /\ pending = {}
  /\ writer' = "idle"
  /\ UNCHANGED <<poolVars, published, hist, heap, pending, kept, scan, readerVars>>

Reclaim == NextRetired \/ ScanSlot \/ Keep \/ Drop \/ WriterUnlock

Acquire(w) ==
  LoadCurrent(w) \/ StoreHazard(w) \/ Recheck(w) \/ Populate(w) \/ InitFails(w)
FiniStep(p) ==
  ReleaseWon(p) \/ ReleaseLost(p) \/ ClearHazard(p) \/ ClearSnapshot(p) \/ Freed(p)

Next ==
  \/ \E g \in Growers : GrowStep(g)
  \/ \E w \in Walkers : ClaimStep(w) \/ Claimed(w) \/ Acquire(w) \/ Fini(w)
  \/ \E s \in Stale : StaleFini(s)
  \/ \E p \in Procs : FiniStep(p)
  \/ Publish \/ Reclaim

Spec == Init /\ [][Next]_vars

(* Only the reading threads are scheduled fairly, and inside a call: a writer or
   a growing thread may stop anywhere, as it does when a signal handler
   interrupts it, and a walk need never reach its cursor_fini. *)
ReaderStep(w) == (ClaimStep(w) /\ pc[w] = "scan") \/ Claimed(w) \/ Acquire(w)
FairReadersSpec ==
  /\ Spec
  /\ \A w \in Walkers : WF_vars(ReaderStep(w))
  /\ \A p \in Procs : WF_vars(FiniStep(p))

-----------------------------------------------------------------------------
(* Properties.                                                             *)

TypeOK ==
  /\ PoolTypeOK
  /\ published \in 0..MaxPublish
  /\ hist \in [0..MaxPublish -> Addr \cup {NULL}]
  /\ heap \in [Addr -> 0..MaxPublish]
  /\ writer \in {"idle", "reclaim"}
  /\ pending \subseteq Addr /\ kept \subseteq Addr
  /\ scan \in [ptr : Addr \cup {NULL}, i : 0..MaxSlots]
  /\ hazard \in [Slots -> Addr \cup {NULL}]
  /\ snapshot \in [Slots -> Addr \cup {NULL}]
  /\ step \in [Procs -> {"none", "load", "store", "check", "populate", "null",
                         "walk", "hazard", "snapshot", "free"}]
  /\ ptr \in [Procs -> Addr \cup {NULL}]
  /\ view \in [Procs -> 0..MaxPublish]

Reading(w) == pc[w] = "held" /\ step[w] \in {"populate", "walk"}

(* What acquire_snapshot guarantees, "a snapshot that is guaranteed not to be
   freed until this slot's hazard is cleared": from the successful recheck to
   cursor_fini the memory a walk reads holds the very snapshot that was current
   at the recheck.  It is neither freed nor recycled for a newer snapshot. *)
NoUseAfterFree == \A w \in Walkers : Reading(w) => heap[ptr[w]] = view[w] /\ view[w] > 0

(* The pointer fh_step follows is the one that was validated: no other cursor,
   stale fini or writer touches inner.snapshot during a walk. *)
WalkReadsItsSnapshot ==
  \A w \in Walkers : pc[w] = "held" /\ step[w] = "walk" => snapshot[at[w]] = ptr[w]

(* with_writer clones CURRENT without a hazard of its own, because CURRENT is
   alive, is the newest version, and is never on the retired list. *)
CurrentAlive ==
  published > 0 => heap[CURRENT] = published /\ CURRENT \notin retired

(* Every box is accounted for: an allocated snapshot is CURRENT or retired
   (none is leaked), and a retired one is still allocated (none is freed
   twice). *)
BoxesAccounted ==
  {a \in Addr : heap[a] # 0} = ({CURRENT} \ {NULL}) \cup retired

(* A free slot protects nothing and refers to nothing, so a claim starts from
   a clean slot and an idle pool pins no snapshot. *)
FreeSlotsAreClean ==
  \A i \in Slots : ~in_use[i] => hazard[i] = NULL /\ snapshot[i] = NULL

(* Snapshots implements AtomicSnapshot: what a walk reads through its pointer
   is the version that was current at its recheck, for as long as it walks. *)
Abstract == INSTANCE AtomicSnapshot WITH
  Nothing <- NULL,
  current <- published,
  held    <- [w \in Walkers |-> IF Reading(w) THEN heap[ptr[w]] ELSE NULL]
RefinesAtomicSnapshot == Abstract!Spec

(* cursor_init is non-blocking: a walk that has started claims, acquires and
   begins stepping, or fails and returns, even if the writer that holds WRITER
   and the thread that grows the pool never run again. *)
InitReturns ==
  \A w \in Walkers : (pc[w] = "scan") ~> (pc[w] = "idle" \/ step[w] = "walk")

(* cursor_fini is non-blocking in the same sense, and hands its slot back. *)
FiniFreesSlot ==
  \A p \in Procs : (pc[p] \in {"fini", "clear"}) ~> (pc[p] = "idle")

(* with_writer never waits for a reader: a walk may keep its hazard for ever,
   and still a writer that is scheduled ends reclaim and releases WRITER. *)
WriterReturns == WF_vars(Reclaim) => ((writer = "reclaim") ~> (writer = "idle"))

-----------------------------------------------------------------------------
(* The inductive invariant behind the safety properties.                   *)

HeldSteps  == {"load", "store", "check", "populate", "null", "walk"}
ClearSteps == {"hazard", "snapshot", "free"}

(* Where the writer's boxes are. *)
BoxInv ==
  /\ hist[0] = NULL
  /\ \A k \in 1..published : hist[k] \in Addr
  /\ published > 0 => heap[CURRENT] = published
  /\ CURRENT \notin retired /\ pending \cap kept = {}
  /\ \A a \in Addr : heap[a] # 0 <=> a = CURRENT \/ a \in retired
  /\ writer = "idle" => pending = {}
  /\ scan.ptr # NULL => writer = "reclaim" /\ scan.ptr \in pending

(* A validated walk is protected by its slot's hazard, and a scan for that
   snapshot has not passed the slot: the swap came after the recheck, so the
   hazard was already there when the scan began. *)
HazardInv ==
  /\ \A p \in Procs : step[p] \in HeldSteps <=> pc[p] = "held"
  /\ \A p \in Procs : step[p] \in ClearSteps <=> pc[p] = "clear"
  /\ \A w \in Walkers : step[w] \in {"store", "check"} => ptr[w] \in Addr
  /\ \A w \in Walkers : step[w] = "check" => hazard[at[w]] = ptr[w]
  /\ \A w \in Walkers : Reading(w) =>
       /\ ptr[w] \in Addr /\ hazard[at[w]] = ptr[w]
       /\ view[w] > 0 /\ heap[ptr[w]] = view[w]
       /\ scan.ptr = ptr[w] => scan.i <= at[w]
  /\ \A w \in Walkers : step[w] = "walk" => snapshot[at[w]] = ptr[w]
  /\ \A p \in Procs : step[p] \in {"snapshot", "free"} => hazard[at[p]] = NULL
  /\ \A p \in Procs : step[p] = "free" => snapshot[at[p]] = NULL
  /\ \A i \in Slots : ~in_use[i] => hazard[i] = NULL /\ snapshot[i] = NULL

=============================================================================
