--------------------------- MODULE SlotPoolProofs ---------------------------
(* Proofs about SlotPool for every number of threads, walks, stale finis and
   slots: slots are claimed exclusively, a scan fails only if the pool was crowded
   while it ran, and threads that registered are never turned away. *)
EXTENDS PoolCrowd, FiniteSetTheorems, TLAPS

(* Cancelling a positive factor; the growth of the pool by whole chunks. *)
LEMMA MulCancel ==
  ASSUME NEW c \in Nat \ {0}, NEW k \in Nat, NEW m \in Nat
  PROVE  /\ c * k \in Nat
         /\ c * k < c * m => k < m
         /\ k <= m => c * k <= c * m
         /\ c * (k + 1) = c * k + c
PROOF
<1>1. c * k \in Nat /\ c * m \in Nat /\ c * (k + 1) = c * k + c
  OBVIOUS
<1>2. ASSUME k <= m PROVE c * k <= c * m
  <2>1. PICK d \in Nat : m = k + d
    <3>1. m - k \in Nat /\ m = k + (m - k)
      BY <1>2
    <3> QED BY <3>1
  <2>2. c * m = c * k + c * d /\ c * d \in Nat
    BY <2>1
  <2> QED BY <1>1, <2>2
<1>3. ASSUME c * k < c * m PROVE k < m
  <2>1. SUFFICES ASSUME ~(k < m) PROVE FALSE
    OBVIOUS
  <2>2. PICK d \in Nat : k = m + d
    <3>1. k - m \in Nat /\ k = m + (k - m)
      BY <2>1
    <3> QED BY <3>1
  <2>3. c * k = c * m + c * d /\ c * d \in Nat
    BY <2>2
  <2> QED BY <1>1, <1>3, <2>3
<1> QED BY <1>1, <1>2, <1>3

LEMMA SlotsFacts ==
  /\ MaxSlots \in Nat \ {0}
  /\ \A i : i \in Slots <=> i \in Nat /\ i < MaxSlots
PROOF
<1>1. MaxSlots \in Nat \ {0}
  BY PoolAssumption DEF MaxSlots
<1> QED BY <1>1 DEF Slots

LEMMA AllocatedFacts ==
  ASSUME PoolTypeOK
  PROVE  allocated \in Nat /\ allocated <= MaxSlots
PROOF
<1>1. PICK k \in 0..MAX_SLOT_CHUNKS : allocated = SLOT_CHUNK * k
  BY DEF PoolTypeOK
<1>2. SLOT_CHUNK * k \in Nat /\ SLOT_CHUNK * k <= SLOT_CHUNK * MAX_SLOT_CHUNKS
  BY MulCancel, PoolAssumption
<1> QED BY <1>1, <1>2 DEF MaxSlots

(* The parity of seq, kept abstract in the proofs below. *)
LEMMA Parity ==
  /\ ~Odd(0)
  /\ \A n \in Nat : Odd(n + 1) <=> ~Odd(n)
PROOF BY DEF Odd

-----------------------------------------------------------------------------
(* Type correctness.                                                       *)

LEMMA TypeInit == PoolInit => PoolTypeOK
PROOF
<1> SUFFICES ASSUME PoolInit PROVE PoolTypeOK
  OBVIOUS
<1>1. allocated \in {SLOT_CHUNK * k : k \in 0..MAX_SLOT_CHUNKS}
  <2>1. 0 = SLOT_CHUNK * 0 /\ 0 \in 0..MAX_SLOT_CHUNKS
    BY PoolAssumption
  <2> QED BY <2>1 DEF PoolInit
<1>2. 0 \in 0..MaxSlots
  BY SlotsFacts
<1> QED BY <1>1, <1>2 DEF PoolInit, PoolTypeOK

LEMMA TypeGrow ==
  ASSUME PoolTypeOK, NEW g \in Growers, Grow(g)
  PROVE  PoolTypeOK' /\ allocated' >= allocated
PROOF
<1>0. allocated \in Nat /\ allocated <= MaxSlots
  BY AllocatedFacts
<1>1. CASE InitPool(g)
  BY <1>0, <1>1, PoolAssumption DEF InitPool, PoolTypeOK, cellVars, procVars
<1>2. CASE ThreadRegistered(g)
  BY <1>0, <1>2 DEF ThreadRegistered, PoolTypeOK, cellVars, procVars
<1>3. CASE LockPool(g)
  BY <1>0, <1>3 DEF LockPool, PoolTypeOK, cellVars, procVars
<1>4. CASE PublishChunk(g)
  <2>1. PICK k \in 0..MAX_SLOT_CHUNKS : allocated = SLOT_CHUNK * k
    BY DEF PoolTypeOK
  <2>2. k < MAX_SLOT_CHUNKS
    BY <1>4, <2>1, MulCancel, PoolAssumption DEF PublishChunk, NeedsChunk, MaxSlots
  <2>3. allocated' = SLOT_CHUNK * (k + 1)
    BY <1>4, <2>1, MulCancel, PoolAssumption DEF PublishChunk
  <2>4. k + 1 \in 0..MAX_SLOT_CHUNKS
    BY <2>2, PoolAssumption
  <2>5. allocated' \in {SLOT_CHUNK * j : j \in 0..MAX_SLOT_CHUNKS}
    BY <2>3, <2>4
  <2>6. allocated' >= allocated
    BY <1>0, <1>4, PoolAssumption DEF PublishChunk
  <2> QED BY <1>4, <2>5, <2>6 DEF PublishChunk, PoolTypeOK, cellVars, procVars
<1>5. CASE UnlockPool(g)
  BY <1>0, <1>5 DEF UnlockPool, PoolTypeOK, cellVars, procVars
<1> QED BY <1>1, <1>2, <1>3, <1>4, <1>5 DEF Grow

LEMMA TypeProc ==
  ASSUME PoolTypeOK, NEW p \in Procs,
         Claim(p) \/ BeginFini(p) \/ BeginStaleFini(p) \/ Release(p)
  PROVE  PoolTypeOK' /\ UNCHANGED growVars
PROOF
<1> USE SlotsFacts, AllocatedFacts
<1>1. CASE BeginClaim(p)
  BY <1>1 DEF BeginClaim, Goto, PoolTypeOK, growVars, cellVars
<1>2. CASE ClaimCas(p)
  BY <1>2 DEF ClaimCas, Goto, PoolTypeOK, growVars
<1>3. CASE ClaimCasFails(p)
  <2>1. at[p] + 1 \in 0..MaxSlots
    BY <1>3 DEF ClaimCasFails, PoolTypeOK
  <2> QED BY <1>3, <2>1 DEF ClaimCasFails, PoolTypeOK, growVars, cellVars
<1>4. CASE ClaimFails(p)
  BY <1>4 DEF ClaimFails, Dead, Goto, PoolTypeOK, growVars, cellVars
<1>5. CASE BumpSeq(p)
  <2>1. at[p] \in Slots /\ seq[at[p]] + 1 \in Nat
    BY <1>5 DEF BumpSeq, PoolTypeOK
  <2>2. seq' \in [Slots -> Nat] /\ nonce' \in [Procs -> Nat]
    BY <1>5, <2>1 DEF BumpSeq, PoolTypeOK
  <2> QED BY <1>5, <2>1, <2>2 DEF BumpSeq, Goto, PoolTypeOK, growVars
<1>6. CASE BeginFini(p)
  BY <1>6 DEF BeginFini, Goto, PoolTypeOK, growVars, cellVars
<1>7. CASE BeginStaleFini(p)
  <2>1. at' \in [Procs -> 0..MaxSlots] /\ at'[p] \in Slots /\ nonce' \in [Procs -> Nat]
    BY <1>7 DEF BeginStaleFini, PoolTypeOK
  <2>2. \A q \in Procs \ {p} : at'[q] = at[q] /\ pc'[q] = pc[q]
    BY <1>7 DEF BeginStaleFini, Goto, PoolTypeOK
  <2> QED BY <1>7, <2>1, <2>2 DEF BeginStaleFini, Goto, PoolTypeOK, growVars, cellVars
<1>8. CASE ReleaseCas(p)
  BY <1>8 DEF ReleaseCas, Goto, PoolTypeOK, growVars
<1>9. CASE ReleaseCasFails(p)
  BY <1>9 DEF ReleaseCasFails, Dead, Goto, PoolTypeOK, growVars, cellVars
<1>10. CASE FreeSlot(p)
  <2>1. in_use' \in [Slots -> BOOLEAN]
    BY <1>10, Zenon DEF FreeSlot, PoolTypeOK
  <2> QED BY <1>10, <2>1 DEF FreeSlot, Dead, Goto, PoolTypeOK, growVars
<1> QED
  BY <1>1, <1>2, <1>3, <1>4, <1>5, <1>6, <1>7, <1>8, <1>9, <1>10 DEF Claim, Release

(* A step of the pool is a step of one grower, of one walker or of one stale
   fini, or a stutter. *)
LEMMA PoolStep ==
  ASSUME [PoolNext]_poolVars
  PROVE  \/ \E g \in Growers : Grow(g)
         \/ \E w \in Walkers : Claim(w) \/ BeginFini(w) \/ Release(w)
         \/ \E s \in Stale : BeginStaleFini(s) \/ Release(s)
         \/ UNCHANGED poolVars
PROOF BY DEF PoolNext, Procs

LEMMA TypeStep == PoolTypeOK /\ [PoolNext]_poolVars => PoolTypeOK'
PROOF
<1> SUFFICES ASSUME PoolTypeOK, [PoolNext]_poolVars PROVE PoolTypeOK'
  OBVIOUS
<1>1. CASE UNCHANGED poolVars
  BY <1>1 DEF PoolTypeOK, poolVars, growVars, cellVars, procVars
<1> QED BY <1>1, PoolStep, TypeGrow, TypeProc DEF Procs

(* The slot pool is type-correct: in particular a scan index never leaves the
   pool, and a process that claimed a slot names a slot of the pool. *)
THEOREM PoolTypeCorrect == PoolSpec => []PoolTypeOK
PROOF BY TypeInit, TypeStep, PTL DEF PoolSpec

-----------------------------------------------------------------------------
(* One holder per claimed slot.                                            *)

(* What the proofs below need of the types. *)
CellTypes ==
  /\ in_use \in [Slots -> BOOLEAN] /\ seq \in [Slots -> Nat]
  /\ pc \in [Procs -> {"idle", "scan", "bump", "held", "fini", "clear"}]
  /\ at \in [Procs -> Nat] /\ nonce \in [Procs -> Nat]
  /\ \A p \in Procs : pc[p] \in {"bump", "held", "fini", "clear"} => at[p] \in Slots
  /\ \A p \in Procs : at[p] < allocated => at[p] \in Slots

LEMMA CellsTyped == ASSUME PoolTypeOK PROVE CellTypes
PROOF
<1>1. at \in [Procs -> Nat]
  BY SlotsFacts DEF PoolTypeOK
<1>2. \A p \in Procs : at[p] < allocated => at[p] \in Slots
  BY <1>1, SlotsFacts, AllocatedFacts
<1> QED BY <1>1, <1>2 DEF PoolTypeOK, CellTypes

LEMMA HolderProc ==
  ASSUME PoolTypeOK, PoolTypeOK', HolderInv, NEW p \in Procs,
         \/ p \in Walkers /\ (Claim(p) \/ BeginFini(p) \/ Release(p))
         \/ p \in Stale /\ (BeginStaleFini(p) \/ Release(p))
  PROVE  HolderInv'
PROOF
<1>0. CellTypes /\ Walkers \cap Stale = {}
  BY CellsTyped, ProcsDisjoint
<1>1. CASE p \in Walkers /\ BeginClaim(p)
  <2>1. \A q \in Procs : \A i \in Slots : Holder(q, i)' <=> Holder(q, i)
    BY <1>0, <1>1 DEF BeginClaim, Goto, CellTypes, Holder, growVars, cellVars
  <2> QED BY <1>0, <1>1, <2>1 DEF BeginClaim, Goto, CellTypes, HolderInv, Holder, growVars, cellVars
<1>2. CASE p \in Walkers /\ ClaimCas(p)
  BY <1>0, <1>2, Parity DEF ClaimCas, Goto, CellTypes, HolderInv, Holder, Procs, growVars, cellVars
<1>3. CASE p \in Walkers /\ ClaimCasFails(p)
  BY <1>0, <1>3, Parity DEF ClaimCasFails, Goto, CellTypes, HolderInv, Holder, Procs, growVars, cellVars
<1>4. CASE p \in Walkers /\ ClaimFails(p)
  BY <1>0, <1>4, Parity DEF ClaimFails, Goto, Dead, CellTypes, HolderInv, Holder, Procs, growVars, cellVars
<1>5. CASE p \in Walkers /\ BumpSeq(p)
  BY <1>0, <1>5, Parity DEF BumpSeq, Goto, CellTypes, HolderInv, Holder, Procs, growVars, cellVars
<1>6. CASE p \in Walkers /\ BeginFini(p)
  BY <1>0, <1>6, Parity DEF BeginFini, Goto, CellTypes, HolderInv, Holder, Procs, growVars, cellVars
<1>7. CASE p \in Stale /\ BeginStaleFini(p)
  <2>1. PICK i \in Slots, n \in Nat :
          /\ n <= seq[i] /\ Odd(n)
          /\ ~\E w \in Walkers : pc[w] = "held" /\ at[w] = i /\ nonce[w] = n
          /\ at' = [at EXCEPT ![p] = i] /\ nonce' = [nonce EXCEPT ![p] = n]
          /\ pc[p] = "idle" /\ pc' = [pc EXCEPT ![p] = "fini"]
          /\ seq[i] > 0
    <3>1. PICK i \in Slots : \E n \in {m \in 1..seq[i] : Odd(m)} :
            /\ ~\E w \in Walkers : pc[w] = "held" /\ at[w] = i /\ nonce[w] = n
            /\ at' = [at EXCEPT ![p] = i] /\ nonce' = [nonce EXCEPT ![p] = n]
      BY <1>7 DEF BeginStaleFini
    <3>2. PICK n \in 1..seq[i] :
            /\ Odd(n)
            /\ ~\E w \in Walkers : pc[w] = "held" /\ at[w] = i /\ nonce[w] = n
            /\ at' = [at EXCEPT ![p] = i] /\ nonce' = [nonce EXCEPT ![p] = n]
      BY <3>1
    <3>3. seq[i] \in Nat
      BY <1>0 DEF CellTypes
    <3>4. n \in Nat /\ n <= seq[i] /\ seq[i] > 0
      BY <3>2, <3>3
    <3> QED BY <1>7, <3>2, <3>4 DEF BeginStaleFini, Goto
  <2>2. \A q \in Procs : \A j \in Slots : Holder(q, j)' <=> Holder(q, j)
    BY <1>0, <1>7, <2>1 DEF BeginStaleFini, CellTypes, Holder, cellVars
  <2>3. seq[i] = n => \E w \in Walkers : pc[w] = "fini" /\ at[w] = i /\ nonce[w] = n
    BY <1>0, <1>7, <2>1 DEF CellTypes, HolderInv, Holder, Procs
  <2>4. UNCHANGED <<in_use, seq, allocated>>
    BY <1>7 DEF BeginStaleFini, growVars, cellVars
  <2>5. i < allocated
    BY <2>1 DEF HolderInv
  <2>6. /\ at'[p] = i /\ nonce'[p] = n /\ pc'[p] = "fini"
        /\ \A q \in Procs \ {p} : at'[q] = at[q] /\ nonce'[q] = nonce[q] /\ pc'[q] = pc[q]
    BY <1>0, <2>1 DEF CellTypes
  <2>7. at[p] \in Nat /\ ~Holder(p, at[p]) /\ ~Holder(p, i)'
    BY <1>0, <1>7, <2>1, <2>6 DEF Holder, CellTypes
  <2>8. \A q, r \in Procs : Holder(q, at[q])' /\ Holder(r, at[q])' => q = r
    BY <1>0, <2>2, <2>6, <2>7 DEF HolderInv, CellTypes, Holder
  <2>9. ASSUME NEW q \in Procs, Holder(q, at[q])' PROVE in_use'[at'[q]]
    <3>1. q # p /\ at'[q] = at[q] /\ pc'[q] = pc[q]
      BY <2>6, <2>7, <2>9
    <3>2. at[q] \in Slots
      BY <1>0, <2>9, <3>1 DEF CellTypes, Holder
    <3>3. Holder(q, at[q])
      BY <2>2, <2>9, <3>1, <3>2
    <3> QED BY <2>4, <3>1, <3>3 DEF HolderInv
  <2>10. ASSUME NEW j \in Slots, in_use'[j] PROVE \E q \in Procs : Holder(q, j)'
    <3>1. PICK q \in Procs : Holder(q, j)
      BY <2>4, <2>10 DEF HolderInv, cellVars
    <3>2. q # p /\ Holder(q, j)'
      BY <2>2, <2>4, <2>6, <2>7, <3>1 DEF Holder
    <3> QED BY <3>2
  <2> QED BY <1>0, <1>7, <2>1, <2>3, <2>4, <2>5, <2>6, <2>8, <2>9, <2>10 DEF HolderInv
<1>8. CASE ReleaseCas(p)
  BY <1>0, <1>8, Parity DEF ReleaseCas, Goto, CellTypes, HolderInv, Holder, Procs, growVars, cellVars
<1>9. CASE ReleaseCasFails(p)
  BY <1>0, <1>9, Parity DEF ReleaseCasFails, Goto, Dead, CellTypes, HolderInv, Holder, Procs, growVars, cellVars
<1>10. CASE FreeSlot(p)
  BY <1>0, <1>10, Parity DEF FreeSlot, Goto, Dead, CellTypes, HolderInv, Holder, Procs, growVars, cellVars
<1> QED
  BY <1>1, <1>2, <1>3, <1>4, <1>5, <1>6, <1>7, <1>8, <1>9, <1>10 DEF Claim, Release

LEMMA HolderInit == PoolInit => HolderInv
PROOF BY SlotsFacts, Parity DEF PoolInit, HolderInv, Holder, Procs

LEMMA HolderGrow ==
  ASSUME PoolTypeOK, HolderInv, NEW g \in Growers, Grow(g)
  PROVE  HolderInv'
PROOF
<1>1. UNCHANGED <<cellVars, procVars>>
  BY DEF Grow, InitPool, ThreadRegistered, LockPool, PublishChunk, UnlockPool
<1>2. allocated' >= allocated /\ allocated \in Nat /\ allocated' \in Nat
  BY TypeGrow, AllocatedFacts, PoolAssumption
     DEF Grow, InitPool, ThreadRegistered, LockPool, PublishChunk, UnlockPool
<1>3. \A q \in Procs : \A i : Holder(q, i)' <=> Holder(q, i)
  BY <1>1 DEF Holder, cellVars, procVars
<1> QED BY <1>1, <1>2, <1>3, SlotsFacts DEF HolderInv, PoolTypeOK, cellVars, procVars

LEMMA HolderStep == PoolTypeOK /\ HolderInv /\ [PoolNext]_poolVars => HolderInv'
PROOF
<1> SUFFICES ASSUME PoolTypeOK, HolderInv, [PoolNext]_poolVars PROVE HolderInv'
  OBVIOUS
<1>0. PoolTypeOK'
  BY TypeStep
<1>1. CASE UNCHANGED poolVars
  BY <1>1 DEF HolderInv, Holder, poolVars, growVars, cellVars, procVars
<1>2. CASE \E g \in Growers : Grow(g)
  BY <1>2, HolderGrow
<1>3. CASE \E w \in Walkers : Claim(w) \/ BeginFini(w) \/ Release(w)
  BY <1>0, <1>3, HolderProc DEF Procs
<1>4. CASE \E s \in Stale : BeginStaleFini(s) \/ Release(s)
  BY <1>0, <1>4, HolderProc DEF Procs
<1> QED BY <1>1, <1>2, <1>3, <1>4, PoolStep

LEMMA HolderInvCorrect == PoolSpec => [](PoolTypeOK /\ HolderInv)
PROOF
<1>1. PoolInit => PoolTypeOK /\ HolderInv
  BY TypeInit, HolderInit
<1>2. PoolTypeOK /\ HolderInv /\ [PoolNext]_poolVars => PoolTypeOK' /\ HolderInv'
  BY TypeStep, HolderStep
<1> QED BY <1>1, <1>2, PTL DEF PoolSpec

LEMMA HolderImpliesOne == PoolTypeOK /\ HolderInv => OneHolder
PROOF
<1> SUFFICES ASSUME PoolTypeOK, HolderInv, NEW i \in Slots
             PROVE  Cardinality({p \in Procs : Holder(p, i)}) = IF in_use[i] THEN 1 ELSE 0
  BY DEF OneHolder
<1> DEFINE H == {p \in Procs : Holder(p, i)}
<1>1. CASE in_use[i]
  <2>1. PICK p \in Procs : Holder(p, i)
    BY <1>1 DEF HolderInv
  <2>2. H = {p}
    BY <2>1 DEF HolderInv, Holder
  <2> QED BY <1>1, <2>2, FS_Singleton
<1>2. CASE ~in_use[i]
  <2>1. H = {}
    BY <1>2 DEF HolderInv, Holder
  <2> QED BY <1>2, <2>1, FS_EmptySet
<1> QED BY <1>1, <1>2

(* Slots are claimed exclusively and never lost, for every number of walks and
   of concurrent finis on stale copies of their cursors. *)
THEOREM SlotsExclusive == PoolSpec => []OneHolder
PROOF BY HolderInvCorrect, HolderImpliesOne, PTL

(* A walk keeps its slot and its nonce until its own cursor_fini. *)
THEOREM WalksKeepSlots == PoolSpec => []WalkKeepsSlot
PROOF
<1>1. PoolTypeOK /\ HolderInv => WalkKeepsSlot
  BY DEF HolderInv, WalkKeepsSlot, Holder, Procs
<1> QED BY <1>1, HolderInvCorrect, PTL

-----------------------------------------------------------------------------
(* Registration                                                            *)

(* The scan fails only when the pool is full.                              *)

LEMMA FiniteProcs == IsFiniteSet(Walkers) /\ IsFiniteSet(Procs)
PROOF
<1>1. IsFiniteSet(1..SLOTS_PER_THREAD)
  BY FS_Interval, PoolAssumption
<1>2. IsFiniteSet(Threads \X (1..SLOTS_PER_THREAD))
  BY <1>1, FS_Product, PoolAssumption
<1>3. IsFiniteSet(Walkers)
  BY <1>2, FS_Union, PoolAssumption DEF Walkers
<1> QED BY <1>3, FS_Union, PoolAssumption DEF Procs

(* w passes slot i, whose holder h stays: the crowd beyond i + 1 gains w. *)
LEMMA CrowdPasses ==
  ASSUME NEW B, IsFiniteSet(B), NEW A \in SUBSET B, NEW w \in B \ A, NEW h \in B \ A, w # h,
         NEW i \in Nat, NEW N \in Nat, Cardinality(B) + i <= N
  PROVE  Cardinality(A \cup {w}) + (i + 1) <= N
PROOF
<1>1. IsFiniteSet(A) /\ IsFiniteSet(A \cup {w})
  BY FS_Subset, FS_AddElement
<1>2. Cardinality((A \cup {w}) \cup {h}) = Cardinality(A \cup {w}) + 1 /\ IsFiniteSet((A \cup {w}) \cup {h})
  BY <1>1, FS_AddElement
<1>3. (A \cup {w}) \cup {h} \in SUBSET B
  OBVIOUS
<1>4. Cardinality((A \cup {w}) \cup {h}) <= Cardinality(B)
  BY <1>3, FS_Subset
<1>5. Cardinality(B) \in Nat /\ Cardinality(A \cup {w}) \in Nat
  BY <1>1, FS_CardinalityType
<1> QED BY <1>2, <1>4, <1>5

(* s takes w's place in a crowd. *)
LEMMA CrowdSwaps ==
  ASSUME NEW B, IsFiniteSet(B), NEW w \in B, NEW s
  PROVE  /\ IsFiniteSet((B \ {w}) \cup {s})
         /\ Cardinality((B \ {w}) \cup {s}) <= Cardinality(B)
PROOF
<1>1. IsFiniteSet(B \ {w}) /\ Cardinality(B \ {w}) = Cardinality(B) - 1
  BY FS_RemoveElement
<1>2. /\ IsFiniteSet((B \ {w}) \cup {s})
      /\ Cardinality((B \ {w}) \cup {s}) = IF s \in B \ {w} THEN Cardinality(B \ {w})
                                                           ELSE Cardinality(B \ {w}) + 1
  BY <1>1, FS_AddElement
<1>3. Cardinality(B) \in Nat
  BY FS_CardinalityType
<1> QED BY <1>1, <1>2, <1>3

LEMMA CrowdInvInit == PoolInit => CrowdInv
PROOF
<1> SUFFICES ASSUME PoolInit PROVE CrowdInv
  OBVIOUS
<1>1. \A p \in Procs : pc[p] = "idle"
  BY DEF PoolInit
<1>2. \A i : Beyond(i) = {}
  BY <1>1 DEF Beyond, Placed, Holder
<1> QED BY <1>1, <1>2 DEF CrowdInv, Procs

LEMMA MayWalkStable ==
  ASSUME PoolTypeOK, [PoolNext]_poolVars
  PROVE  \A w \in Walkers : MayWalk(w) => MayWalk(w)'
PROOF
<1>1. \A g \in Growers : gpc[g] = "done" => gpc'[g] = "done"
  <2>1. CASE \E g \in Growers : Grow(g)
    BY <2>1 DEF Grow, InitPool, ThreadRegistered, LockPool, PublishChunk, UnlockPool, PoolTypeOK
  <2>2. CASE \E w \in Walkers : Claim(w) \/ BeginFini(w) \/ Release(w)
    BY <2>2, TypeProc DEF growVars, Procs
  <2>3. CASE \E s \in Stale : BeginStaleFini(s) \/ Release(s)
    BY <2>3, TypeProc DEF growVars, Procs
  <2>4. CASE UNCHANGED poolVars
    BY <2>4 DEF poolVars, growVars
  <2> QED BY <2>1, <2>2, <2>3, <2>4, PoolStep
<1>2. \A w \in Walkers \ Unregistered : w[1] \in Growers
  BY DEF Walkers, Growers
<1> QED BY <1>1, <1>2 DEF MayWalk, Growers

LEMMA EntitledFacts ==
  ASSUME PoolTypeOK, HolderInv, CrowdInv
  PROVE  /\ IsFiniteSet(Entitled) /\ Cardinality(Entitled) \in Nat
         /\ \A i : Beyond(i) \in SUBSET Entitled
PROOF
<1>1. Entitled \in SUBSET Procs
  BY DEF Entitled, Procs
<1>2. IsFiniteSet(Entitled)
  BY <1>1, FiniteProcs, FS_Subset
<1>3. \A i : Beyond(i) \in SUBSET Entitled
  BY DEF Beyond, Placed, Holder, CrowdInv, Entitled, Procs
<1> QED BY <1>2, <1>3, FS_CardinalityType

(* How a step of a process changes the crowds. *)
LEMMA CrowdMoves ==
  ASSUME PoolTypeOK, PoolTypeOK', HolderInv, HolderInv', NEW p \in Procs,
         \/ p \in Walkers /\ (Claim(p) \/ BeginFini(p) \/ Release(p))
         \/ p \in Stale /\ (BeginStaleFini(p) \/ Release(p)),
         NEW i \in 1..MaxSlots
  PROVE  \/ Beyond(i)' \in SUBSET Beyond(i)
         \/ /\ ClaimCasFails(p) /\ i = at[p] + 1 /\ Beyond(i)' = Beyond(i) \cup {p}
         \/ \E w \in Beyond(i) : Beyond(i)' = (Beyond(i) \ {w}) \cup {p}
PROOF
<1>0. CellTypes /\ i \in Nat /\ Walkers \cap Stale = {}
  BY CellsTyped, SlotsFacts, ProcsDisjoint
<1>n. \A q \in Procs : at'[q] \in Nat
  <2>1. at' \in [Procs -> 0..MaxSlots]
    BY DEF PoolTypeOK
  <2>2. 0..MaxSlots \in SUBSET Nat
    BY SlotsFacts
  <2> QED BY <2>1, <2>2
<1>f. \A q \in Procs : pc[q] = "fini" => nonce[q] <= seq[at[q]]
  BY DEF HolderInv
<1>s. ASSUME \A q \in Procs : Placed(q)' => Placed(q) /\ at'[q] <= at[q]
      PROVE  Beyond(i)' \in SUBSET Beyond(i)
  BY <1>0, <1>n, <1>s DEF Beyond, CellTypes
<1>1. CASE BeginClaim(p)
  <2>1. \A q \in Procs \ {p} : pc'[q] = pc[q]
    BY <1>0, <1>1 DEF BeginClaim, Goto, CellTypes
  <2>2. at[p] = 0 /\ UNCHANGED <<at, nonce, in_use, seq>>
    BY <1>1 DEF BeginClaim, HolderInv, cellVars
  <2>3. p \notin Beyond(i)'
    BY <1>0, <2>2 DEF Beyond, CellTypes
  <2>4. Beyond(i)' \in SUBSET Beyond(i)
    BY <1>0, <2>1, <2>2, <2>3 DEF Beyond, Placed, Holder, CellTypes
  <2> QED BY <2>4
<1>2. CASE ClaimCas(p)
  <2>1. \A q \in Procs : Placed(q)' => Placed(q)
    BY <1>0, <1>2 DEF ClaimCas, Goto, Placed, Holder, CellTypes
  <2>2. Beyond(i)' \in SUBSET Beyond(i)
    BY <1>0, <1>2, <1>s, <2>1 DEF ClaimCas, CellTypes
  <2> QED BY <2>2
<1>3. CASE ClaimCasFails(p)
  <2>1. \A q \in Procs \ {p} : Placed(q)' = Placed(q) /\ at'[q] = at[q]
    BY <1>0, <1>3 DEF ClaimCasFails, Placed, Holder, CellTypes, cellVars
  <2>2. at'[p] = at[p] + 1 /\ Placed(p)' /\ Placed(p)
    BY <1>0, <1>3 DEF ClaimCasFails, Placed, CellTypes
  <2>3. CASE i = at[p] + 1
    BY <1>0, <1>3, <2>1, <2>2, <2>3 DEF Beyond, CellTypes
  <2>4. CASE i # at[p] + 1
    <3>1. Beyond(i)' \in SUBSET Beyond(i)
      BY <1>0, <2>1, <2>2, <2>4 DEF Beyond, CellTypes
    <3> QED BY <3>1
  <2> QED BY <2>3, <2>4
<1>4. CASE ClaimFails(p)
  <2>1. \A q \in Procs \ {p} : pc'[q] = pc[q] /\ at'[q] = at[q] /\ nonce'[q] = nonce[q]
    BY <1>0, <1>4 DEF ClaimFails, Dead, Goto, CellTypes
  <2>2. ~Placed(p)'
    BY <1>0, <1>4 DEF ClaimFails, Dead, Goto, Placed, Holder, CellTypes
  <2>3. UNCHANGED seq
    BY <1>4 DEF ClaimFails, cellVars
  <2>4. Beyond(i)' \in SUBSET Beyond(i)
    BY <1>0, <2>1, <2>2, <2>3 DEF Beyond, Placed, Holder, CellTypes
  <2> QED BY <2>4
<1>5. CASE BumpSeq(p)
  <2>1. \A q \in Procs : Placed(q)' => Placed(q)
    BY <1>0, <1>f, <1>5 DEF BumpSeq, Goto, Placed, Holder, CellTypes
  <2>2. Beyond(i)' \in SUBSET Beyond(i)
    BY <1>0, <1>5, <2>1 DEF BumpSeq, Beyond, CellTypes
  <2> QED BY <2>2
<1>6. CASE BeginFini(p)
  <2>1. \A q \in Procs : Placed(q)' => Placed(q)
    BY <1>0, <1>6 DEF BeginFini, Goto, Placed, Holder, CellTypes, cellVars
  <2>2. Beyond(i)' \in SUBSET Beyond(i)
    BY <1>0, <1>6, <1>s, <2>1 DEF BeginFini, CellTypes
  <2> QED BY <2>2
<1>7. CASE p \in Stale /\ BeginStaleFini(p)
  <2>1. \A q \in Procs \ {p} : pc'[q] = pc[q] /\ at'[q] = at[q] /\ nonce'[q] = nonce[q]
    BY <1>0, <1>7 DEF BeginStaleFini, Goto, CellTypes
  <2>2. ~Placed(p)'
    BY <1>0, <1>7 DEF BeginStaleFini, Goto, Placed, Holder, CellTypes
  <2>3. Beyond(i)' \in SUBSET Beyond(i)
    BY <1>0, <1>7, <2>1, <2>2 DEF BeginStaleFini, Beyond, Placed, Holder, cellVars, CellTypes
  <2> QED BY <2>3
<1>8. CASE p \in Walkers /\ ReleaseCas(p)
  <2>1. \A q \in Procs : Placed(q)' => Placed(q)
    BY <1>0, <1>f, <1>8 DEF ReleaseCas, Goto, Placed, Holder, CellTypes
  <2>2. Beyond(i)' \in SUBSET Beyond(i)
    BY <1>0, <1>8, <2>1 DEF ReleaseCas, Beyond, CellTypes
  <2> QED BY <2>2
<1>9. CASE p \in Stale /\ ReleaseCas(p)
  <2>1. PICK w \in Walkers : pc[w] = "fini" /\ at[w] = at[p] /\ nonce[w] = nonce[p]
    BY <1>9 DEF ReleaseCas, HolderInv
  <2>u. \A q \in Procs : Holder(q, at[p]) => q = w
    <3>1. w \in Procs /\ Holder(w, at[w]) /\ at[w] = at[p]
      BY <1>9, <2>1 DEF ReleaseCas, Holder, Procs
    <3> QED BY <3>1 DEF HolderInv
  <2>2. ASSUME NEW q \in Procs \ {p, w} PROVE Placed(q)' <=> Placed(q)
    <3>1. at'[q] = at[q] /\ nonce'[q] = nonce[q] /\ pc'[q] = pc[q]
      BY <1>0, <1>9 DEF ReleaseCas, Goto, CellTypes
    <3>2. CASE q \in Walkers /\ pc[q] = "fini" /\ at[q] = at[p]
      <4>1. nonce[q] # seq[at[q]] /\ nonce[q] <= seq[at[q]]
        BY <1>f, <2>u, <3>2, <1>9 DEF Holder, Procs, ReleaseCas
      <4>2. seq'[at[q]] = seq[at[q]] + 1 /\ seq[at[q]] \in Nat /\ nonce[q] \in Nat
        BY <1>0, <1>9, <3>2 DEF ReleaseCas, CellTypes
      <4>3. seq'[at[q]] # nonce[q]
        BY <4>1, <4>2
      <4>4. ~Placed(q)
        BY <3>2, <4>1 DEF Placed, Holder
      <4>5. ~Placed(q)'
        BY <3>1, <3>2, <4>3 DEF Placed, Holder
      <4> QED BY <4>4, <4>5
    <3>3. CASE ~(q \in Walkers /\ pc[q] = "fini" /\ at[q] = at[p])
      <4>1. q \in Walkers /\ pc[q] = "fini" => seq'[at[q]] = seq[at[q]]
        BY <1>0, <1>9, <3>3 DEF ReleaseCas, CellTypes
      <4> QED BY <3>1, <4>1 DEF Placed, Holder
    <3> QED BY <3>2, <3>3
  <2>3. Placed(w) /\ ~Placed(w)' /\ ~Placed(p) /\ Placed(p)' /\ w # p /\ w \in Procs
    BY <1>0, <1>9, <2>1 DEF ReleaseCas, Goto, Placed, Holder, CellTypes, Procs
  <2>4. UNCHANGED at
    BY <1>9 DEF ReleaseCas
  <2>5. CASE at[p] >= i
    <3>1. w \in Beyond(i) /\ Beyond(i)' = (Beyond(i) \ {w}) \cup {p}
      BY <1>0, <2>1, <2>2, <2>3, <2>4, <2>5 DEF Beyond, CellTypes
    <3> QED BY <3>1
  <2>6. CASE ~(at[p] >= i)
    <3>1. Beyond(i)' \in SUBSET Beyond(i)
      BY <1>0, <2>1, <2>2, <2>3, <2>4, <2>6 DEF Beyond, CellTypes
    <3> QED BY <3>1
  <2> QED BY <2>5, <2>6
<1>10. CASE ReleaseCasFails(p)
  <2>1. \A q \in Procs \ {p} : pc'[q] = pc[q] /\ at'[q] = at[q] /\ nonce'[q] = nonce[q]
    BY <1>0, <1>10 DEF ReleaseCasFails, Dead, Goto, CellTypes
  <2>2. ~Placed(p)'
    BY <1>0, <1>10 DEF ReleaseCasFails, Dead, Goto, Placed, Holder, CellTypes
  <2>3. UNCHANGED seq
    BY <1>10 DEF ReleaseCasFails, cellVars
  <2>4. Beyond(i)' \in SUBSET Beyond(i)
    BY <2>1, <2>2, <2>3 DEF Beyond, Placed, Holder
  <2> QED BY <2>4
<1>11. CASE FreeSlot(p)
  <2>1. \A q \in Procs \ {p} : pc'[q] = pc[q] /\ at'[q] = at[q] /\ nonce'[q] = nonce[q]
    BY <1>0, <1>11 DEF FreeSlot, Dead, Goto, CellTypes
  <2>2. ~Placed(p)'
    BY <1>0, <1>11 DEF FreeSlot, Dead, Goto, Placed, Holder, CellTypes
  <2>3. UNCHANGED seq
    BY <1>11 DEF FreeSlot, cellVars
  <2>4. Beyond(i)' \in SUBSET Beyond(i)
    BY <2>1, <2>2, <2>3 DEF Beyond, Placed, Holder
  <2> QED BY <2>4
<1> QED
  BY <1>1, <1>2, <1>3, <1>4, <1>5, <1>6, <1>7, <1>8, <1>9, <1>10, <1>11 DEF Claim, Release

LEMMA LeqChain ==
  /\ \A k \in Nat : k >= k /\ ~(k >= k + 1)
  /\ \A k, m \in Nat : m >= k + 1 => m >= k
  /\ \A a, b, k, n \in Nat : a <= n => a + b - k <= n + b
  /\ \A k, m, n \in Nat : k < m /\ m <= n => k < n
  /\ \A a, b, i, m, n \in Nat : a <= b /\ b + i <= m /\ m <= n => a + i <= n
PROOF OBVIOUS

LEMMA LeqAdd == \A a, b, i, n \in Nat : a <= b /\ b + i <= n => a + i <= n
PROOF OBVIOUS

LEMMA BeyondFinite ==
  /\ \A i : IsFiniteSet(Beyond(i)) /\ Cardinality(Beyond(i)) \in Nat
  /\ \A i : IsFiniteSet(Beyond(i)') /\ Cardinality(Beyond(i)') \in Nat
PROOF
<1>1. \A i : Beyond(i) \in SUBSET Procs /\ Beyond(i)' \in SUBSET Procs
  BY DEF Beyond
<1>2. \A i : IsFiniteSet(Beyond(i)) /\ IsFiniteSet(Beyond(i)')
  BY <1>1, FiniteProcs, FS_Subset
<1> QED BY <1>2, FS_CardinalityType

(* A scan that passes a slot joins those beyond it and leaves its holder. *)
LEMMA PassingKeepsBound ==
  ASSUME PoolTypeOK, PoolTypeOK', HolderInv, HolderInv', NEW p \in Procs,
         \/ p \in Walkers /\ (Claim(p) \/ BeginFini(p) \/ Release(p))
         \/ p \in Stale /\ (BeginStaleFini(p) \/ Release(p)),
         NEW i \in 1..MaxSlots, NEW N \in Nat,
         ClaimCasFails(p), i = at[p] + 1,
         Cardinality(Beyond(at[p])) + at[p] <= N
  PROVE  Cardinality(Beyond(i)') + i <= N
PROOF
<1>1. at[p] \in Slots /\ at[p] \in Nat /\ pc[p] = "scan" /\ in_use[at[p]]
  <2>1. pc[p] = "scan" /\ at[p] < allocated /\ in_use[at[p]]
    BY DEF ClaimCasFails
  <2>2. at[p] \in Nat
    BY CellsTyped DEF CellTypes
  <2>3. at[p] < MaxSlots
    BY <2>1, <2>2, SlotsFacts, AllocatedFacts, LeqChain
  <2> QED BY <2>1, <2>2, <2>3, SlotsFacts
<1>2. PICK h \in Procs : Holder(h, at[p])
  BY <1>1 DEF HolderInv
<1>3. h # p /\ at[h] = at[p]
  BY <1>1, <1>2 DEF Holder
<1>4. p \in Beyond(at[p]) \ Beyond(i) /\ h \in Beyond(at[p]) \ Beyond(i)
  <2>1. at[p] >= at[p] /\ ~(at[p] >= i)
    BY <1>1, LeqChain
  <2>2. Placed(p) /\ Placed(h)
    BY <1>1, <1>2, <1>3 DEF Placed
  <2> QED BY <1>3, <2>1, <2>2 DEF Beyond
<1>5. Beyond(i) \in SUBSET Beyond(at[p])
  <2>1. \A q \in Procs : at[q] \in Nat
    BY CellsTyped DEF CellTypes
  <2>2. \A q \in Procs : at[q] >= i => at[q] >= at[p]
    BY <1>1, <2>1, LeqChain
  <2> QED BY <2>2 DEF Beyond
<1>6. Cardinality(Beyond(i) \cup {p}) + (at[p] + 1) <= N
  BY <1>1, <1>3, <1>4, <1>5, BeyondFinite, CrowdPasses
<1>7. Beyond(i)' \in SUBSET (Beyond(i) \cup {p})
  BY CrowdMoves
<1>8. IsFiniteSet(Beyond(i) \cup {p})
  BY BeyondFinite, FS_AddElement
<1>9. Cardinality(Beyond(i)') <= Cardinality(Beyond(i) \cup {p})
  BY <1>7, <1>8, FS_Subset
<1>10. Cardinality(Beyond(i) \cup {p}) \in Nat /\ Cardinality(Beyond(i)') \in Nat
  BY <1>8, BeyondFinite, FS_CardinalityType
<1>11. i \in Nat
  BY SlotsFacts
<1>12. Cardinality(Beyond(i) \cup {p}) + i <= N
  BY <1>6, Zenon
<1> QED BY <1>9, <1>10, <1>11, <1>12, LeqAdd, Zenon

(* No other step of a process puts more of them beyond a slot. *)
LEMMA OthersKeepBound ==
  ASSUME PoolTypeOK, PoolTypeOK', HolderInv, HolderInv', NEW p \in Procs,
         \/ p \in Walkers /\ (Claim(p) \/ BeginFini(p) \/ Release(p))
         \/ p \in Stale /\ (BeginStaleFini(p) \/ Release(p)),
         NEW i \in 1..MaxSlots,
         ~(ClaimCasFails(p) /\ i = at[p] + 1)
  PROVE  /\ Cardinality(Beyond(i)') <= Cardinality(Beyond(i))
         /\ Beyond(i)' # {} => Beyond(i) # {}
PROOF
<1>1. CASE Beyond(i)' \in SUBSET Beyond(i)
  BY <1>1, BeyondFinite, FS_Subset
<1>2. ASSUME NEW w \in Beyond(i), Beyond(i)' = (Beyond(i) \ {w}) \cup {p}
      PROVE  Cardinality(Beyond(i)') <= Cardinality(Beyond(i))
  BY <1>2, BeyondFinite, CrowdSwaps, Zenon
<1> QED BY <1>1, <1>2, CrowdMoves

LEMMA CrowdStep ==
  PoolTypeOK /\ HolderInv /\ CrowdInv /\ [PoolNext]_poolVars => CrowdInv'
PROOF
<1> SUFFICES ASSUME PoolTypeOK, HolderInv, CrowdInv, [PoolNext]_poolVars PROVE CrowdInv'
  OBVIOUS
<1>0. PoolTypeOK' /\ HolderInv'
  BY TypeStep, HolderStep
<1>1. \A w \in Walkers : pc'[w] # "idle" => MayWalk(w)'
  <2>1. \A w \in Walkers : pc'[w] # "idle" => pc[w] # "idle" \/ MayWalk(w)
    <3>1. CASE \E g \in Growers : Grow(g)
      BY <3>1 DEF Grow, InitPool, ThreadRegistered, LockPool, PublishChunk, UnlockPool, procVars
    <3>2. CASE \E w \in Walkers : Claim(w) \/ BeginFini(w) \/ Release(w)
      BY <3>2 DEF Claim, BeginClaim, ClaimCas, ClaimCasFails, ClaimFails, BumpSeq, BeginFini,
                  Release, ReleaseCas, ReleaseCasFails, FreeSlot, Dead, Goto, PoolTypeOK, Procs
    <3>3. CASE \E s \in Stale : BeginStaleFini(s) \/ Release(s)
      BY <3>3, ProcsDisjoint
         DEF BeginStaleFini, Release, ReleaseCas, ReleaseCasFails, FreeSlot, Dead, Goto, PoolTypeOK, Procs
    <3>4. CASE UNCHANGED poolVars
      BY <3>4 DEF poolVars, procVars
    <3> QED BY <3>1, <3>2, <3>3, <3>4, PoolStep
  <2> QED BY <2>1, MayWalkStable DEF CrowdInv
<1>2. Entitled \in SUBSET Entitled'
  BY MayWalkStable DEF Entitled
<1>3. Entitled' \in SUBSET Procs
  BY DEF Entitled, Procs
<1>4. IsFiniteSet(Entitled') /\ Cardinality(Entitled') \in Nat /\ Cardinality(Entitled') >= Cardinality(Entitled)
  BY <1>2, <1>3, FiniteProcs, FS_Subset, FS_CardinalityType
<1>5. IsFiniteSet(Entitled) /\ Cardinality(Entitled) \in Nat /\ \A i : Beyond(i) \in SUBSET Entitled
  BY EntitledFacts
<1>6. ASSUME NEW i \in 0..MaxSlots, Beyond(i)' # {}
      PROVE  Cardinality(Beyond(i)') + i <= Cardinality(Entitled')
  <2>1. CASE i = 0
    <3>1. Beyond(i)' \in SUBSET Entitled'
      BY <1>0, <1>1 DEF Beyond, Placed, Holder, Entitled, Procs
    <3>2. Cardinality(Beyond(i)') <= Cardinality(Entitled') /\ Cardinality(Beyond(i)') \in Nat
      BY <3>1, <1>4, FS_Subset, FS_CardinalityType
    <3> QED BY <2>1, <3>2, <1>4
  <2>2. CASE UNCHANGED procVars /\ UNCHANGED cellVars
    <3>1. Beyond(i)' = Beyond(i)
      BY <2>2 DEF Beyond, Placed, Holder, procVars, cellVars
    <3> QED BY <1>4, <1>5, <1>6, <3>1, BeyondFinite, SlotsFacts DEF CrowdInv
  <2>3. CASE \E g \in Growers : Grow(g)
    BY <2>2, <2>3 DEF Grow, InitPool, ThreadRegistered, LockPool, PublishChunk, UnlockPool
  <2>4. CASE UNCHANGED poolVars
    BY <2>2, <2>4 DEF poolVars
  <2>5. ASSUME i # 0, NEW p \in Procs,
               \/ p \in Walkers /\ (Claim(p) \/ BeginFini(p) \/ Release(p))
               \/ p \in Stale /\ (BeginStaleFini(p) \/ Release(p))
        PROVE  Cardinality(Beyond(i)') + i <= Cardinality(Entitled')
    <3>1. i \in 1..MaxSlots
      BY <2>5, SlotsFacts
    <3>2. CASE ClaimCasFails(p) /\ i = at[p] + 1
      <4>1. at[p] \in 0..MaxSlots /\ p \in Beyond(at[p])
        BY <3>2, SlotsFacts DEF ClaimCasFails, PoolTypeOK, Beyond, Placed
      <4>2. Cardinality(Beyond(at[p])) + at[p] <= Cardinality(Entitled)
        BY <4>1 DEF CrowdInv
      <4>3. Cardinality(Beyond(i)') + i <= Cardinality(Entitled)
        BY <1>0, <1>5, <2>5, <3>1, <3>2, <4>2, PassingKeepsBound
      <4> QED BY <1>4, <1>5, <3>1, <4>3, BeyondFinite, SlotsFacts
    <3>3. CASE ~(ClaimCasFails(p) /\ i = at[p] + 1)
      <4>1. Cardinality(Beyond(i)') <= Cardinality(Beyond(i)) /\ Beyond(i) # {}
        BY <1>0, <1>6, <2>5, <3>1, <3>3, OthersKeepBound
      <4>2. Cardinality(Beyond(i)) + i <= Cardinality(Entitled)
        BY <4>1 DEF CrowdInv
      <4> QED BY <1>4, <1>5, <3>1, <4>1, <4>2, BeyondFinite, SlotsFacts
    <3> QED BY <3>2, <3>3
  <2> QED BY <2>1, <2>3, <2>4, <2>5, PoolStep DEF Procs
<1> QED BY <1>1, <1>6 DEF CrowdInv

LEMMA CrowdInvCorrect == PoolSpec => [](PoolTypeOK /\ HolderInv /\ CrowdInv)
PROOF
<1>1. PoolInit => PoolTypeOK /\ HolderInv /\ CrowdInv
  BY TypeInit, HolderInit, CrowdInvInit
<1>2. PoolTypeOK /\ HolderInv /\ CrowdInv /\ [PoolNext]_poolVars
        => PoolTypeOK' /\ HolderInv' /\ CrowdInv'
  BY TypeStep, HolderStep, CrowdStep
<1> QED BY <1>1, <1>2, PTL DEF PoolSpec

(* A scan that reaches the end has more walks and finis around it than slots. *)
LEMMA EndNeedsClaimants ==
  ASSUME PoolTypeOK, HolderInv, CrowdInv,
         NEW w \in Walkers, pc[w] = "scan", at[w] >= allocated
  PROVE  Cardinality(Entitled) > allocated
PROOF
<1>1. allocated \in 0..MaxSlots
  BY AllocatedFacts, SlotsFacts
<1>2. w \in Beyond(allocated)
  BY DEF Beyond, Placed, Procs
<1>3. IsFiniteSet(Beyond(allocated)) /\ Cardinality(Entitled) \in Nat
  BY EntitledFacts, FS_Subset
<1>4. Cardinality(Beyond(allocated)) \in Nat /\ Cardinality(Beyond(allocated)) # 0
  BY <1>2, <1>3, FS_CardinalityType, FS_EmptySet
<1>5. Cardinality(Beyond(allocated)) + allocated <= Cardinality(Entitled)
  BY <1>1, <1>2 DEF CrowdInv
<1> QED BY <1>1, <1>3, <1>4, <1>5

-----------------------------------------------------------------------------
(* A scan fails only if the pool was crowded while it ran.                 *)

(* A scan is past its first slot only if it was scanning before, and moves on
   only by passing a slot itself. *)
LEMMA ScanMoves ==
  ASSUME PoolTypeOK, NEW p \in Procs,
         \/ p \in Walkers /\ (Claim(p) \/ BeginFini(p) \/ Release(p))
         \/ p \in Stale /\ (BeginStaleFini(p) \/ Release(p)),
         NEW w \in Walkers, HolderInv, pc'[w] = "scan", at'[w] # 0
  PROVE  /\ pc[w] = "scan"
         /\ at'[w] = at[w] \/ (p = w /\ ClaimCasFails(w) /\ at'[w] = at[w] + 1)
PROOF
<1>0. CellTypes /\ w \in Procs /\ Walkers \cap Stale = {}
  BY CellsTyped, ProcsDisjoint DEF Procs
<1>i. pc[w] = "idle" => at[w] = 0
  BY <1>0 DEF HolderInv
<1>1. CASE Claim(p)
  BY <1>0, <1>i, <1>1
     DEF Claim, BeginClaim, ClaimCas, ClaimCasFails, ClaimFails, BumpSeq, Dead, Goto, CellTypes
<1>2. CASE BeginFini(p)
  BY <1>0, <1>2 DEF BeginFini, Goto, CellTypes
<1>3. CASE Release(p)
  BY <1>0, <1>3 DEF Release, ReleaseCas, ReleaseCasFails, FreeSlot, Dead, Goto, CellTypes
<1>4. CASE p \in Stale /\ BeginStaleFini(p)
  BY <1>0, <1>4 DEF BeginStaleFini, Goto, CellTypes
<1> QED BY <1>1, <1>2, <1>3, <1>4

LEMMA PeakInit == CrowdInit => PeakInv
PROOF BY DEF CrowdInit, PoolInit, PeakInv, Procs

LEMMA InsideFinite ==
  IsFiniteSet(Inside') /\ Cardinality(Inside') \in Nat
PROOF BY FiniteProcs, FS_Subset, FS_CardinalityType DEF Inside

LEMMA PeakStep ==
  PoolTypeOK /\ HolderInv /\ PeakInv /\ [CrowdNext]_crowdVars => PeakInv'
PROOF
<1> SUFFICES ASSUME PoolTypeOK, HolderInv, PeakInv, [CrowdNext]_crowdVars PROVE PeakInv'
  OBVIOUS
<1>1. [PoolNext]_poolVars
  BY DEF CrowdNext, crowdVars
<1>2. PoolTypeOK' /\ HolderInv'
  BY <1>1, TypeStep, HolderStep
<1>3. CASE UNCHANGED crowdVars
  <2>1. UNCHANGED <<pc, at, seq, nonce, crowd>>
    BY <1>3 DEF crowdVars, poolVars, procVars, cellVars
  <2>2. \A i : Beyond(i)' = Beyond(i)
    BY <2>1 DEF Beyond, Placed, Holder
  <2> QED BY <2>1, <2>2 DEF PeakInv
<1>4. CASE CrowdNext
  <2>1. crowd' \in [Walkers -> Nat]
    BY <1>4, InsideFinite DEF CrowdNext, Watch, PeakInv
  <2>2. ASSUME NEW w \in Walkers, pc'[w] = "scan", NEW i \in 0..at'[w]
        PROVE  Cardinality(Beyond(i)') + i <= crowd'[w]
    <3>1. crowd'[w] \in Nat /\ crowd[w] \in Nat /\ crowd[w] <= crowd'[w] /\ Cardinality(Inside') <= crowd'[w]
      BY <1>4, <2>1, <2>2, InsideFinite DEF CrowdNext, Watch, PeakInv
    <3>2. at'[w] \in 0..MaxSlots /\ i \in Nat /\ at'[w] \in Nat /\ at[w] \in Nat /\ MaxSlots \in Nat
      BY <1>2, SlotsFacts DEF PoolTypeOK, Procs
    <3>3. CASE i = 0
      <4>1. Cardinality(Beyond(i)') <= Cardinality(Inside')
        BY InsideFinite, FS_Subset DEF Inside, Beyond
      <4> QED BY <3>1, <3>3, <4>1, BeyondFinite, InsideFinite
    <3>4. ASSUME i # 0, NEW p \in Procs,
                 \/ p \in Walkers /\ (Claim(p) \/ BeginFini(p) \/ Release(p))
                 \/ p \in Stale /\ (BeginStaleFini(p) \/ Release(p))
          PROVE  Cardinality(Beyond(i)') + i <= crowd'[w]
      <4>1. /\ pc[w] = "scan" /\ i \in 1..MaxSlots
            /\ at'[w] = at[w] \/ (p = w /\ ClaimCasFails(w) /\ at'[w] = at[w] + 1)
        <5>1. i \in 1..MaxSlots /\ at'[w] # 0
          BY <2>2, <3>2, <3>4
        <5> QED BY <2>2, <3>4, <5>1, ScanMoves
      <4>2. CASE ClaimCasFails(p) /\ i = at[p] + 1
        <5>1. at[p] \in Nat /\ at[p] <= at[w]
          <6>1. at[p] \in Nat
            BY CellsTyped DEF CellTypes
          <6> QED BY <2>2, <3>2, <4>1, <4>2, <6>1
        <5>2. Cardinality(Beyond(at[p])) + at[p] <= crowd[w]
          BY <3>2, <4>1, <5>1 DEF PeakInv
        <5>3. Cardinality(Beyond(i)') + i <= crowd[w]
          BY <1>2, <3>1, <3>4, <4>1, <4>2, <5>2, PassingKeepsBound
        <5> QED BY <3>1, <3>2, <5>3, BeyondFinite
      <4>3. CASE ~(ClaimCasFails(p) /\ i = at[p] + 1)
        <5>1. i \in 0..at[w]
          BY <2>2, <3>2, <4>1, <4>3
        <5>2. Cardinality(Beyond(i)) + i <= crowd[w]
          BY <4>1, <5>1 DEF PeakInv
        <5>3. Cardinality(Beyond(i)') <= Cardinality(Beyond(i))
          BY <1>2, <3>4, <4>1, <4>3, OthersKeepBound
        <5>4. Cardinality(Beyond(i)) \in Nat /\ Cardinality(Beyond(i)') \in Nat
          BY BeyondFinite
        <5> QED BY <3>1, <3>2, <5>2, <5>3, <5>4, LeqChain
      <4> QED BY <4>2, <4>3
    <3>5. CASE \E g \in Growers : Grow(g)
      <4>1. UNCHANGED <<pc, at, seq, nonce>>
        BY <3>5 DEF Grow, InitPool, ThreadRegistered, LockPool, PublishChunk, UnlockPool, procVars, cellVars
      <4>2. Beyond(i)' = Beyond(i)
        BY <4>1 DEF Beyond, Placed, Holder
      <4>3. Cardinality(Beyond(i)) + i <= crowd[w]
        BY <2>2, <4>1 DEF PeakInv
      <4> QED BY <3>1, <3>2, <4>2, <4>3, BeyondFinite
    <3> QED BY <1>4, <3>3, <3>4, <3>5 DEF CrowdNext, PoolNext, Procs
  <2> QED BY <2>1, <2>2 DEF PeakInv
<1> QED BY <1>3, <1>4

(* However claims and frees interleave with it, a lock-free scan reports the
   pool exhausted only if at one moment of it more processes were scanning or
   answerable for a slot than there are slots. *)
THEOREM ScanFailsOnlyInCrowd == CrowdSpec => []ClaimFailsOnlyInCrowd
PROOF
<1>1. PoolTypeOK /\ PeakInv => ClaimFailsOnlyInCrowd
  <2> SUFFICES ASSUME PoolTypeOK, PeakInv, NEW w \in Walkers, pc[w] = "scan", at[w] >= allocated
               PROVE  crowd[w] > allocated
    BY DEF ClaimFailsOnlyInCrowd
  <2>1. allocated \in Nat /\ at[w] \in Nat /\ crowd[w] \in Nat
    BY AllocatedFacts, SlotsFacts DEF PoolTypeOK, PeakInv, Procs
  <2>2. w \in Beyond(allocated)
    BY DEF Beyond, Placed, Procs
  <2>3. Cardinality(Beyond(allocated)) \in Nat /\ Cardinality(Beyond(allocated)) # 0
    BY <2>2, BeyondFinite, FS_EmptySet
  <2>4. Cardinality(Beyond(allocated)) + allocated <= crowd[w]
    BY <2>1 DEF PeakInv
  <2> QED BY <2>1, <2>3, <2>4
<1>2. CrowdInit => PoolTypeOK /\ HolderInv /\ PeakInv
  BY TypeInit, HolderInit, PeakInit DEF CrowdInit
<1>3. PoolTypeOK /\ HolderInv /\ PeakInv /\ [CrowdNext]_crowdVars
        => PoolTypeOK' /\ HolderInv' /\ PeakInv'
  <2>1. [CrowdNext]_crowdVars => [PoolNext]_poolVars
    BY DEF CrowdNext, crowdVars
  <2> QED BY <2>1, TypeStep, HolderStep, PeakStep
<1> QED BY <1>1, <1>2, <1>3, PTL DEF CrowdSpec

-----------------------------------------------------------------------------
(* Registered threads always find a slot.                                  *)

LEMMA WantFacts ==
  ASSUME PoolTypeOK, NEW g \in Growers
  PROVE  Want(g) \in Nat
PROOF BY PoolAssumption DEF Want, PoolTypeOK

LEMMA GrowthInit == PoolInit => GrowthInv
PROOF BY DEF PoolInit, GrowthInv, Growers

LEMMA GrowthStep == PoolTypeOK /\ GrowthInv /\ [PoolNext]_poolVars => GrowthInv'
PROOF
<1> SUFFICES ASSUME PoolTypeOK, GrowthInv, [PoolNext]_poolVars PROVE GrowthInv'
  OBVIOUS
<1>0. PoolTypeOK'
  BY TypeStep
<1>1. CASE UNCHANGED growVars
  BY <1>1 DEF GrowthInv, Want, growVars
<1>2. ASSUME NEW g \in Growers, InitPool(g) PROVE GrowthInv'
  <2>1. g \notin Threads
    BY <1>2, ProcsDisjoint DEF InitPool
  <2>2. \A h \in Growers \ {g} : arg'[h] = arg[h] /\ gpc'[h] = gpc[h] /\ Want(h)' = Want(h)
    BY <1>2 DEF InitPool, PoolTypeOK, Want
  <2>3. gpc'[g] = "lock" /\ UNCHANGED <<threads, allocated>>
    BY <1>2 DEF InitPool, PoolTypeOK
  <2> QED BY <2>1, <2>2, <2>3 DEF GrowthInv, Growers
<1>3. ASSUME NEW g \in Growers, ThreadRegistered(g) PROVE GrowthInv'
  <2>1. \A h \in Growers \ {g} : arg'[h] = arg[h] /\ gpc'[h] = gpc[h] /\ Want(h)' = Want(h)
    BY <1>3 DEF ThreadRegistered, PoolTypeOK, Want
  <2>2. arg'[g] = threads + 1 /\ gpc'[g] = "lock" /\ threads' = threads + 1 /\ allocated' = allocated
    BY <1>3 DEF ThreadRegistered, PoolTypeOK
  <2> QED BY <2>1, <2>2 DEF GrowthInv, PoolTypeOK, Growers
<1>4. ASSUME NEW g \in Growers, LockPool(g) PROVE GrowthInv'
  BY <1>4 DEF LockPool, GrowthInv, PoolTypeOK, Growers, Want
<1>5. ASSUME NEW g \in Growers, PublishChunk(g) PROVE GrowthInv'
  <2>1. \A h \in Growers : Want(h)' = Want(h) /\ Want(h) \in Nat
    BY <1>5, WantFacts DEF PublishChunk, Want
  <2>2. allocated \in Nat /\ allocated' \in Nat /\ allocated' >= allocated
    BY <1>5, AllocatedFacts, PoolAssumption DEF PublishChunk
  <2>3. UNCHANGED <<threads, arg, gpc>>
    BY <1>5 DEF PublishChunk
  <2>4. \A h \in Growers : gpc[h] = "done" => allocated' >= Want(h) \/ allocated' >= MaxSlots
    BY <2>1, <2>2, SlotsFacts DEF GrowthInv
  <2> QED BY <2>1, <2>3, <2>4 DEF GrowthInv
<1>6. ASSUME NEW g \in Growers, UnlockPool(g) PROVE GrowthInv'
  <2>1. \A h \in Growers : Want(h)' = Want(h) /\ Want(h) \in Nat
    BY <1>6, WantFacts DEF UnlockPool, Want
  <2>2. allocated \in Nat /\ allocated' = allocated
    BY <1>6, AllocatedFacts DEF UnlockPool
  <2>3. allocated >= Want(g) \/ allocated >= MaxSlots
    BY <1>6, <2>1, <2>2, SlotsFacts DEF UnlockPool, NeedsChunk
  <2> QED BY <1>6, <2>1, <2>2, <2>3 DEF UnlockPool, GrowthInv, PoolTypeOK, Growers
<1>7. CASE \E w \in Walkers : Claim(w) \/ BeginFini(w) \/ Release(w)
  BY <1>1, <1>7, TypeProc DEF Procs
<1>8. CASE \E s \in Stale : BeginStaleFini(s) \/ Release(s)
  BY <1>1, <1>8, TypeProc DEF Procs
<1>9. CASE UNCHANGED poolVars
  BY <1>1, <1>9 DEF poolVars
<1> QED BY <1>2, <1>3, <1>4, <1>5, <1>6, <1>7, <1>8, <1>9, PoolStep DEF Grow

Registered == {t \in Threads : gpc[t] = "done"}

(* Among the threads whose registration has returned, one took a ticket at
   least as large as their number. *)
LEMMA LargestTicket ==
  ASSUME PoolTypeOK, GrowthInv, Registered # {}
  PROVE  /\ IsFiniteSet(Registered)
         /\ \E t \in Registered : arg[t] >= Cardinality(Registered)
PROOF
<1> DEFINE n == Cardinality(Registered)
<1>1. IsFiniteSet(Registered) /\ n \in Nat
  BY PoolAssumption, FS_Subset, FS_CardinalityType DEF Registered
<1>2. SUFFICES ASSUME \A t \in Registered : ~(arg[t] >= n) PROVE FALSE
  BY <1>1
<1> DEFINE f == [t \in Registered |-> arg[t]]
<1>3. \A t \in Registered : arg[t] \in 1..(n - 1) /\ gpc[t] # "start" /\ t \in Threads
  <2>1. \A t \in Registered : t \in Threads /\ gpc[t] # "start"
    BY DEF Registered
  <2>2. \A t \in Threads : threads \in Nat /\ arg[t] \in Nat
    BY DEF PoolTypeOK, Growers
  <2>3. \A t \in Registered : arg[t] \in 1..threads
    BY <2>1 DEF GrowthInv
  <2> HIDE DEF n
  <2> QED BY <1>1, <1>2, <2>1, <2>2, <2>3
<1>4. f \in [Registered -> 1..(n - 1)]
  BY <1>3
<1>5. n # 0
  BY <1>1, FS_EmptySet
<1>6. IsFiniteSet(1..(n - 1)) /\ Cardinality(1..(n - 1)) < n
  <2>1. 1 \in Int /\ n - 1 \in Int
    BY <1>1
  <2>2. IsFiniteSet(1..(n - 1)) /\ Cardinality(1..(n - 1)) = IF 1 > n - 1 THEN 0 ELSE (n - 1) - 1 + 1
    BY <2>1, FS_Interval
  <2> HIDE DEF n
  <2> QED BY <1>1, <1>5, <2>2
<1>7. \E x, y \in Registered : x # y /\ f[x] = f[y]
  <2> HIDE DEF f
  <2> QED BY <1>1, <1>4, <1>6, FS_PigeonHole
<1> QED BY <1>3, <1>7 DEF GrowthInv

(* The walks entitled to run fit into the pool. *)
LEMMA EntitledFit ==
  ASSUME PoolTypeOK, HolderInv, CrowdInv, GrowthInv, NEW w \in Walkers, MayWalk(w),
         Cardinality(Unregistered \cup Stale) <= DEFAULT_SLOTS,
         DEFAULT_SLOTS + SLOTS_PER_THREAD * Cardinality(Threads) <= MaxSlots
  PROVE  Cardinality(Entitled) <= allocated
PROOF
<1> DEFINE R == Registered
<1> DEFINE C == 1..SLOTS_PER_THREAD
<1> DEFINE U == Unregistered \cup Stale
<1> USE PoolAssumption
<1>0. allocated \in Nat /\ IsFiniteSet(Entitled) /\ Cardinality(Entitled) \in Nat
  BY AllocatedFacts, EntitledFacts
<1>1. IsFiniteSet(R) /\ Cardinality(R) \in Nat /\ Cardinality(R) <= Cardinality(Threads)
      /\ Cardinality(Threads) \in Nat /\ IsFiniteSet(U) /\ Cardinality(U) \in Nat
      /\ Cardinality(U) <= DEFAULT_SLOTS
  BY FS_Subset, FS_Union, FS_CardinalityType DEF Registered
<1>2. IsFiniteSet(C) /\ Cardinality(C) = SLOTS_PER_THREAD
  BY FS_Interval
<1>3. IsFiniteSet(R \X C) /\ Cardinality(R \X C) = SLOTS_PER_THREAD * Cardinality(R)
  <2>1. IsFiniteSet(R \X C) /\ Cardinality(R \X C) = Cardinality(R) * Cardinality(C)
    BY <1>1, <1>2, FS_Product
  <2> QED BY <1>1, <1>2, <2>1
<1>4. Entitled \in SUBSET (U \cup (R \X C))
  BY DEF Entitled, Walkers, MayWalk, Registered
<1>5. CASE R = {}
  <2>1. Entitled \in SUBSET U
    BY <1>4, <1>5
  <2>2. Cardinality(Entitled) <= DEFAULT_SLOTS
    BY <2>1, <1>0, <1>1, FS_Subset
  <2>3. PICK g \in Inits : gpc[g] = "done"
    BY <1>5 DEF MayWalk, Walkers, Registered
  <2>4. allocated >= Want(g) \/ allocated >= MaxSlots
    BY <2>3 DEF GrowthInv, Growers
  <2>5. CASE DEFAULT_SLOTS = 0
    BY <2>2, <2>5, <1>0
  <2>6. CASE DEFAULT_SLOTS # 0
    <3>1. Want(g) \in Nat \ {0}
      BY <2>6, ProcsDisjoint DEF Want, PoolTypeOK, Growers
    <3>2. allocated > 0
      BY <2>4, <3>1, <1>0, SlotsFacts
    <3>3. PICK k \in 0..MAX_SLOT_CHUNKS : allocated = SLOT_CHUNK * k
      BY DEF PoolTypeOK
    <3>4. k # 0
      BY <3>2, <3>3
    <3>5. SLOT_CHUNK * 1 <= SLOT_CHUNK * k
      BY <3>4, MulCancel
    <3> QED BY <2>2, <3>3, <3>5, <1>0
  <2> QED BY <2>5, <2>6
<1>6. CASE R # {}
  <2>1. PICK t \in R : arg[t] >= Cardinality(R)
    BY <1>6, LargestTicket
  <2>2. t \in Threads /\ gpc[t] = "done" /\ arg[t] \in Nat
    BY DEF Registered, PoolTypeOK, Growers
  <2>3. SLOTS_PER_THREAD * Cardinality(R) <= SLOTS_PER_THREAD * arg[t]
    BY <2>1, <2>2, <1>1, MulCancel
  <2>4. SLOTS_PER_THREAD * Cardinality(R) <= SLOTS_PER_THREAD * Cardinality(Threads)
    BY <1>1, MulCancel
  <2>5. allocated >= DEFAULT_SLOTS + SLOTS_PER_THREAD * arg[t] \/ allocated >= MaxSlots
    BY <2>2 DEF GrowthInv, Growers, Want
  <2>6. /\ SLOTS_PER_THREAD * Cardinality(R) \in Nat /\ SLOTS_PER_THREAD * arg[t] \in Nat
        /\ SLOTS_PER_THREAD * Cardinality(Threads) \in Nat
    BY <1>1, <2>2, MulCancel
  <2>7. DEFAULT_SLOTS + SLOTS_PER_THREAD * Cardinality(R) <= allocated
    BY <2>3, <2>4, <2>5, <2>6, <1>0, SlotsFacts
  <2>8. /\ IsFiniteSet(U \cup (R \X C))
        /\ Cardinality(U \cup (R \X C)) <= DEFAULT_SLOTS + SLOTS_PER_THREAD * Cardinality(R)
    <3>1. IsFiniteSet(U \cap (R \X C)) /\ Cardinality(U \cap (R \X C)) \in Nat
      BY <1>3, FS_Subset, FS_CardinalityType
    <3>2. IsFiniteSet(U \cup (R \X C))
          /\ Cardinality(U \cup (R \X C))
               = Cardinality(U) + Cardinality(R \X C) - Cardinality(U \cap (R \X C))
      BY <1>3, FS_Union
    <3>3. Cardinality(U) + Cardinality(R \X C) - Cardinality(U \cap (R \X C))
            <= DEFAULT_SLOTS + Cardinality(R \X C)
      <4> HIDE DEF R, C, U
      <4>1. Cardinality(R \X C) \in Nat
        BY <1>3, <2>6
      <4> QED BY <3>1, <4>1, <1>1, LeqChain
    <3> HIDE DEF R, C, U
    <3> QED BY <3>2, <3>3, <1>3
  <2>9. Cardinality(Entitled) <= Cardinality(U \cup (R \X C))
        /\ Cardinality(U \cup (R \X C)) \in Nat
    BY <1>4, <2>8, FS_Subset, FS_CardinalityType
  <2> HIDE DEF R, C, U
  <2> QED BY <2>6, <2>7, <2>8, <2>9, <1>0
<1> QED BY <1>5, <1>6

(* Two slots per registered thread suffice: for every number of threads below
   the pool's maximum, no walk within its share finds the pool exhausted, in
   whatever order threads register, pools grow and walks begin and end. *)
THEOREM RegistrationSuffices == PoolSpec => []RegisteredNeverTurnedAway
PROOF
<1>1. PoolTypeOK /\ HolderInv /\ CrowdInv /\ GrowthInv => RegisteredNeverTurnedAway
  <2> SUFFICES ASSUME PoolTypeOK, HolderInv, CrowdInv, GrowthInv,
                      Cardinality(Unregistered \cup Stale) <= DEFAULT_SLOTS,
                      DEFAULT_SLOTS + SLOTS_PER_THREAD * Cardinality(Threads) <= MaxSlots,
                      NEW w \in Walkers, pc[w] = "scan", ~(at[w] < allocated)
               PROVE  FALSE
    BY DEF RegisteredNeverTurnedAway
  <2>1. at[w] >= allocated /\ allocated \in Nat
    BY AllocatedFacts DEF PoolTypeOK, Procs
  <2>2. Cardinality(Entitled) > allocated
    BY <2>1, EndNeedsClaimants
  <2>3. MayWalk(w)
    BY DEF CrowdInv
  <2>4. Cardinality(Entitled) <= allocated
    BY <2>3, EntitledFit
  <2> QED BY <2>1, <2>2, <2>4, EntitledFacts
<1>2. PoolSpec => []GrowthInv
  <2>1. PoolTypeOK /\ GrowthInv /\ [PoolNext]_poolVars => GrowthInv'
    BY GrowthStep
  <2> QED BY <2>1, GrowthInit, PoolTypeCorrect, PTL DEF PoolSpec
<1> QED BY <1>1, <1>2, CrowdInvCorrect, PTL

=============================================================================
