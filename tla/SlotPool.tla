------------------------------ MODULE SlotPool ------------------------------
(***************************************************************************)
(* The pool of unwinding slots of src/state.rs: its growth by init and     *)
(* thread_registered, and the lock-free claim and release of a slot by the *)
(* cursors of src/cursor.rs.                                               *)
(*                                                                         *)
(* Every shared atomic access of claim_slot, release_slot and ensure_slots *)
(* is one action.  What a cursor does with a slot it holds (the snapshot   *)
(* and the hazard cell) is added by module Snapshots.                      *)
(***************************************************************************)
EXTENDS Naturals, FiniteSets

CONSTANTS
  Threads,           \* threads that call fh_thread_register, once each
  Unregistered,      \* walks run without registration, covered by the default pool
  Inits,             \* calls of fh_init
  NumSlots,          \* the num_slots arguments fh_init is called with
  Stale,             \* calls of fh_cursor_fini on a copy of a cursor
  SLOT_CHUNK, MAX_SLOT_CHUNKS, DEFAULT_SLOTS, SLOTS_PER_THREAD,
  MaxSeq,            \* bound: no walk starts once a slot's seq has reached it
  None

(* A registered thread runs at most SLOTS_PER_THREAD walks at a time: "one
   for its own walks, one for a walk from a signal handler". *)
Walkers == Unregistered \cup (Threads \X (1..SLOTS_PER_THREAD))
Procs   == Walkers \cup Stale
Growers == Threads \cup Inits
MaxSlots == SLOT_CHUNK * MAX_SLOT_CHUNKS
Slots   == 0..(MaxSlots - 1)

(* The constants of state.rs are 16, 64, 16 and 2. *)
ASSUME PoolAssumption ==
  /\ SLOT_CHUNK \in Nat \ {0} /\ MAX_SLOT_CHUNKS \in Nat \ {0}
  /\ DEFAULT_SLOTS \in Nat /\ SLOTS_PER_THREAD \in Nat \ {0}
  /\ DEFAULT_SLOTS <= SLOT_CHUNK
  /\ NumSlots \subseteq Nat
  /\ MaxSeq \in Nat
  /\ IsFiniteSet(Threads) /\ IsFiniteSet(Unregistered) /\ IsFiniteSet(Stale)
  /\ Cardinality(Unregistered) <= DEFAULT_SLOTS

ASSUME ProcsDisjoint ==
  /\ Walkers \cap Stale = {} /\ Threads \cap Inits = {}
  /\ Unregistered \cap (Threads \X (1..SLOTS_PER_THREAD)) = {}
  /\ None \notin Growers

VARIABLES
  allocated,   \* SLOTS_ALLOCATED: the slots in published chunks
  grower,      \* holder of the SLOTS_ALLOCATED mutex
  threads,     \* REGISTERED_THREADS
  arg,         \* [Growers -> Nat]: num_slots, or the threads local of thread_registered
  gpc,         \* [Growers -> {"start", "lock", "grow", "done"}]
  in_use,      \* [Slots -> BOOLEAN]
  seq,         \* [Slots -> Nat]
  pc,          \* [Procs -> ...]
  at,          \* [Procs -> Nat]: the slot a process scans or holds
  nonce        \* [Procs -> Nat]: the nonce of its cursor

growVars == <<allocated, grower, threads, arg, gpc>>
cellVars == <<in_use, seq>>
procVars == <<pc, at, nonce>>
poolVars == <<growVars, cellVars, procVars>>

PoolInit ==
  /\ allocated = 0
  /\ grower = None
  /\ threads = 0
  /\ arg = [g \in Growers |-> 0]
  /\ gpc = [g \in Growers |-> "start"]
  /\ in_use = [i \in Slots |-> FALSE]
  /\ seq = [i \in Slots |-> 0]
  /\ pc = [p \in Procs |-> "idle"]
  /\ at = [p \in Procs |-> 0]
  /\ nonce = [p \in Procs |-> 0]

Goto(p, l) == pc' = [pc EXCEPT ![p] = l]

(* The call returns and leaves a dead cursor. *)
Dead(p) ==
  /\ Goto(p, "idle")
  /\ at' = [at EXCEPT ![p] = 0]
  /\ nonce' = [nonce EXCEPT ![p] = 0]

-----------------------------------------------------------------------------
(* Growth of the pool, off the signal path.                                *)

(* The n that init or thread_registered passes to ensure_slots. *)
Want(g) ==
  IF g \in Threads THEN DEFAULT_SLOTS + SLOTS_PER_THREAD * arg[g]
  ELSE IF arg[g] = 0 THEN DEFAULT_SLOTS ELSE arg[g]

InitPool(g) ==
  /\ g \in Inits /\ gpc[g] = "start"
  /\ \E n \in NumSlots : arg' = [arg EXCEPT ![g] = n]
  /\ gpc' = [gpc EXCEPT ![g] = "lock"]
  /\ UNCHANGED <<allocated, grower, threads, cellVars, procVars>>

(* thread_registered: fetch_add(1) + 1 on REGISTERED_THREADS. *)
ThreadRegistered(g) ==
  /\ g \in Threads /\ gpc[g] = "start"
  /\ threads' = threads + 1
  /\ arg' = [arg EXCEPT ![g] = threads + 1]
  /\ gpc' = [gpc EXCEPT ![g] = "lock"]
  /\ UNCHANGED <<allocated, grower, cellVars, procVars>>

(* ensure_slots: lock, publish a chunk at a time, unlock. *)
LockPool(g) ==
  /\ gpc[g] = "lock" /\ grower = None
  /\ grower' = g
  /\ gpc' = [gpc EXCEPT ![g] = "grow"]
  /\ UNCHANGED <<allocated, threads, arg, cellVars, procVars>>

NeedsChunk_NoMaximum(g) == allocated < Want(g)

NeedsChunk_OneShort(g) == allocated + 1 < Want(g) /\ allocated < MaxSlots

NeedsChunk(g) == allocated < Want(g) /\ allocated < MaxSlots

PublishChunk(g) ==
  /\ gpc[g] = "grow" /\ NeedsChunk(g)
  /\ allocated' = allocated + SLOT_CHUNK
  /\ UNCHANGED <<grower, threads, arg, gpc, cellVars, procVars>>

UnlockPool(g) ==
  /\ gpc[g] = "grow" /\ ~NeedsChunk(g)
  /\ grower' = None
  /\ gpc' = [gpc EXCEPT ![g] = "done"]
  /\ UNCHANGED <<allocated, threads, arg, cellVars, procVars>>

Grow(g) ==
  InitPool(g) \/ ThreadRegistered(g) \/ LockPool(g) \/ PublishChunk(g) \/ UnlockPool(g)

-----------------------------------------------------------------------------
(* claim_slot                                                              *)

(* Walks run once the library is initialised, on registered threads or
   within the share of the default pool. *)
MayWalk(w) ==
  IF w \in Unregistered THEN \E g \in Inits : gpc[g] = "done"
                        ELSE gpc[w[1]] = "done"

BeginClaim(w) ==
  /\ pc[w] = "idle" /\ MayWalk(w)
  /\ \A i \in Slots : seq[i] < MaxSeq
  /\ Goto(w, "scan")
  /\ UNCHANGED <<growVars, cellVars, at, nonce>>

(* The compare_exchange of in_use on the next published slot. *)
ClaimCas(w) ==
  /\ pc[w] = "scan" /\ at[w] < allocated
  /\ ~in_use[at[w]]
  /\ in_use' = [in_use EXCEPT ![at[w]] = TRUE]
  /\ Goto(w, "bump")
  /\ UNCHANGED <<growVars, seq, at, nonce>>

ClaimCasFails(w) ==
  /\ pc[w] = "scan" /\ at[w] < allocated
  /\ in_use[at[w]]
  /\ at' = [at EXCEPT ![w] = @ + 1]
  /\ UNCHANGED <<growVars, cellVars, pc, nonce>>

(* The iterator meets an unpublished chunk: claim_slot returns None. *)
ClaimFails(w) ==
  /\ pc[w] = "scan" /\ at[w] >= allocated
  /\ Dead(w)
  /\ UNCHANGED <<growVars, cellVars>>

(* seq.fetch_add(1) + 1 is the nonce of the claim. *)
BumpSeq(w) ==
  /\ pc[w] = "bump"
  /\ seq' = [seq EXCEPT ![at[w]] = @ + 1]
  /\ nonce' = [nonce EXCEPT ![w] = seq[at[w]] + 1]
  /\ Goto(w, "held")
  /\ UNCHANGED <<growVars, in_use, at>>

-----------------------------------------------------------------------------
(* release_slot                                                            *)

(* The owner calls release_slot: from cursor_fini, or from cursor_init when
   nothing is published yet. *)
BeginFini(w) ==
  /\ pc[w] = "held"
  /\ Goto(w, "fini")
  /\ UNCHANGED <<growVars, cellVars, at, nonce>>

Odd(n) == n % 2 = 1

(* fh_cursor_fini on a copy of some cursor ever handed out (nonces are the
   odd values a seq has had), once its owner no longer walks with it. *)
BeginStaleFini(s) ==
  /\ pc[s] = "idle"
  /\ \E i \in Slots : \E n \in {m \in 1..seq[i] : Odd(m)} :
       /\ ~\E w \in Walkers : pc[w] = "held" /\ at[w] = i /\ nonce[w] = n
       /\ at' = [at EXCEPT ![s] = i]
       /\ nonce' = [nonce EXCEPT ![s] = n]
  /\ Goto(s, "fini")
  /\ UNCHANGED <<growVars, cellVars>>

ReleaseCas_PlainStore(p) ==
  /\ pc[p] = "fini"
  /\ seq' = [seq EXCEPT ![at[p]] = nonce[p] + 1]
  /\ Goto(p, "clear")
  /\ UNCHANGED <<growVars, in_use, at, nonce>>

ReleaseCas_KeepsNonce(p) ==
  /\ pc[p] = "fini"
  /\ seq[at[p]] = nonce[p]
  /\ Goto(p, "clear")
  /\ UNCHANGED <<growVars, cellVars, at, nonce>>

(* The compare_exchange of seq from nonce to nonce + 1. *)
ReleaseCas(p) ==
  /\ pc[p] = "fini"
  /\ seq[at[p]] = nonce[p]
  /\ seq' = [seq EXCEPT ![at[p]] = nonce[p] + 1]
  /\ Goto(p, "clear")
  /\ UNCHANGED <<growVars, in_use, at, nonce>>

ReleaseCasFails(p) ==
  /\ pc[p] = "fini"
  /\ seq[at[p]] # nonce[p]
  /\ Dead(p)
  /\ UNCHANGED <<growVars, cellVars>>

FreeSlot_StaysInUse(p) ==
  /\ pc[p] = "clear"
  /\ Dead(p)
  /\ UNCHANGED <<growVars, cellVars>>

(* in_use.store(false): the slot may be claimed again. *)
FreeSlot(p) ==
  /\ pc[p] = "clear"
  /\ in_use' = [in_use EXCEPT ![at[p]] = FALSE]
  /\ Dead(p)
  /\ UNCHANGED <<growVars, seq>>

Claim(w) ==
  BeginClaim(w) \/ ClaimCas(w) \/ ClaimCasFails(w) \/ ClaimFails(w) \/ BumpSeq(w)
Release(p) == ReleaseCas(p) \/ ReleaseCasFails(p) \/ FreeSlot(p)

PoolNext ==
  \/ \E g \in Growers : Grow(g)
  \/ \E w \in Walkers : Claim(w) \/ BeginFini(w)
  \/ \E s \in Stale : BeginStaleFini(s)
  \/ \E p \in Procs : Release(p)

PoolSpec == PoolInit /\ [][PoolNext]_poolVars

-----------------------------------------------------------------------------
(* Properties.                                                             *)

PoolTypeOK ==
  /\ allocated \in {SLOT_CHUNK * k : k \in 0..MAX_SLOT_CHUNKS}
  /\ grower \in Growers \cup {None}
  /\ threads \in Nat
  /\ arg \in [Growers -> Nat]
  /\ gpc \in [Growers -> {"start", "lock", "grow", "done"}]
  /\ in_use \in [Slots -> BOOLEAN]
  /\ seq \in [Slots -> Nat]
  /\ pc \in [Procs -> {"idle", "scan", "bump", "held", "fini", "clear"}]
  /\ at \in [Procs -> 0..MaxSlots]
  /\ \A p \in Procs : pc[p] \in {"bump", "held", "fini", "clear"} => at[p] \in Slots
  /\ nonce \in [Procs -> Nat]

(* p is the process answerable for slot i: the claimant from its CAS of
   in_use until a CAS of seq, then whoever won that CAS. *)
Holder(p, i) ==
  /\ at[p] = i
  /\ \/ pc[p] \in {"bump", "held", "clear"}
     \/ p \in Walkers /\ pc[p] = "fini" /\ seq[i] = nonce[p]

(* A slot marked in_use has exactly one process answerable for it, and a free
   slot none: no two cursors share a slot's inner state (the exclusivity every
   inner_mut of cursor.rs and release_slot relies on), and no interleaving of a
   fini, a double fini and a stale fini loses a slot. *)
OneHolder ==
  \A i \in Slots : Cardinality({p \in Procs : Holder(p, i)}) = IF in_use[i] THEN 1 ELSE 0

(* From cursor_init to cursor_fini a walk keeps its slot: the slot is
   published, in use, and its seq is the walk's nonce, so is_live answers true
   whatever finis of stale cursors for the same slot run meanwhile. *)
WalkKeepsSlot ==
  \A w \in Walkers : pc[w] = "held" =>
    at[w] < allocated /\ in_use[at[w]] /\ seq[at[w]] = nonce[w]

(* The walks that may be running, and the stale finis, which may each still be
   freeing a slot whose owner has moved on. *)
Entitled == {w \in Walkers : MayWalk(w)} \cup Stale

(* Two slots per registered thread are enough ("one for its own walks, one for
   a walk from a signal handler that interrupts it"): below the maximum pool
   size no walk of a registered thread, and none within the default share, is
   ever turned away with -1.  Finis of copied cursors count against the default
   share, since each may keep a slot in use for a while. *)
RegisteredNeverTurnedAway ==
  /\ Cardinality(Unregistered \cup Stale) <= DEFAULT_SLOTS
  /\ DEFAULT_SLOTS + SLOTS_PER_THREAD * Cardinality(Threads) <= MaxSlots
  => \A w \in Walkers : pc[w] = "scan" => at[w] < allocated

-----------------------------------------------------------------------------
(* The inductive invariants behind these properties.                       *)

(* Claim and release keep one holder per claimed slot.  seq is odd exactly
   between the two CASes that open and close a claim; a stale fini can only
   win the closing CAS from an owner that is itself in cursor_fini. *)
HolderInv ==
  /\ \A p, q \in Procs : Holder(p, at[p]) /\ Holder(q, at[p]) => p = q
  /\ \A p \in Procs : Holder(p, at[p]) => in_use[at[p]]
  /\ \A i \in Slots : in_use[i] => \E p \in Procs : Holder(p, i)
  /\ \A i \in Slots : in_use[i] \/ seq[i] > 0 => i < allocated
  /\ \A p \in Procs : pc[p] \in {"bump", "held", "fini", "clear"} => at[p] < allocated
  /\ \A p \in Procs : pc[p] = "idle" => at[p] = 0
  /\ \A p \in Procs : pc[p] \in {"held", "fini"} => Odd(nonce[p]) /\ nonce[p] <= seq[at[p]]
  /\ \A p \in Procs : pc[p] = "held" => nonce[p] = seq[at[p]]
  /\ \A p \in Procs : pc[p] \in {"bump", "clear"} => ~Odd(seq[at[p]])
  /\ \A i \in Slots : ~in_use[i] => ~Odd(seq[i])
  /\ \A s \in Stale : pc[s] \in {"idle", "fini", "clear"}
  /\ \A s \in Stale : pc[s] = "fini" /\ seq[at[s]] = nonce[s] =>
       \E w \in Walkers : pc[w] = "fini" /\ at[w] = at[s] /\ nonce[w] = nonce[s]

(* The processes at slot i or beyond it, scanning or answerable for a slot. *)
Placed(p) == pc[p] = "scan" \/ Holder(p, at[p])
Beyond(i) == {p \in Procs : Placed(p) /\ at[p] >= i}

(* A scan passes slot i only while someone else holds it, so each slot passed
   leaves one process behind: at most N - i of N are at slot i or beyond. *)
CrowdInv ==
  /\ \A w \in Walkers : pc[w] # "idle" => MayWalk(w)
  /\ \A i \in 0..MaxSlots : Beyond(i) # {} => Cardinality(Beyond(i)) + i <= Cardinality(Entitled)

(* Registered threads have distinct tickets, and a call that has returned has
   brought the pool to the size it asked for, or to the maximum. *)
GrowthInv ==
  /\ \A t \in Threads : gpc[t] # "start" => arg[t] \in 1..threads
  /\ \A t, u \in Threads : gpc[t] # "start" /\ gpc[u] # "start" /\ arg[t] = arg[u] => t = u
  /\ \A g \in Growers : gpc[g] = "done" => allocated >= Want(g) \/ allocated >= MaxSlots

=============================================================================
