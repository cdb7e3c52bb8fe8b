----------------------------- MODULE DyldProofs -----------------------------
(***************************************************************************)
(* Proofs about DyldImages, for any number of keys, images and JIT         *)
(* registrations, for any order of dyld's events and of init_callbacks,    *)
(* and with JIT code and images at the same addresses at different times.  *)
(*                                                                         *)
(* The invariant says of every key that was not unloaded between the two   *)
(* registrations which image the callbacks hold for it (Held): pending has *)
(* just this one while batching, static_mods and the published list after. *)
(* JIT modules take part in it, as remove_module removes any module with a *)
(* given start: at such a key there is only one to remove.                 *)
(***************************************************************************)
EXTENDS DyldImages, FiniteSetTheorems, WellFoundedInduction, TLAPS

\* The image at k whose add callback has run and whose remove callback has not.
Held(k) ==
  IF loaded[k] \in Unwindable /\ dyld # <<"added", k>> /\ dyld # <<"removed", k>>
  THEN {loaded[k]} ELSE {}
Waiting(k) == IF dpc \in {"add", "both"} THEN Held(k) ELSE {}
Shown(k) == IF dpc = "done" THEN Held(k) ELSE {}

JitAt(k) ==
  IF k \in jit_keys
  THEN loaded[k] = None /\ \E e \in EhFrames : unw[k][e] = 1 /\ \A f \in EhFrames \ {e} : unw[k][f] = 0
  ELSE \A e \in EhFrames : unw[k][e] = 0
PendingOK(k) == \E n \in 0 .. MaxEvents :
                  PendingAt(k) = {[key |-> k, image |-> i, at |-> n] : i \in Waiting(k)}
ShownOK(k) ==
  /\ static_mods[k] = IF Shown(k) = {} THEN None ELSE loaded[k]
  /\ \A i \in Images : unw[k][i] = IF i \in Shown(k) THEN 1 ELSE 0

AllAt(k) == JitAt(k) /\ PendingOK(k) /\ ShownOK(k)
DyldInv ==
  /\ TypeOK
  /\ IsFiniteSet(pending)
  /\ \A k \in Keys : loaded[k] # None => k \in ImageKeys
  /\ \A k \in Keys \ missed : AllAt(k)

-----------------------------------------------------------------------------
(* Naturals and lists of modules                                           *)

LEMMA LeastNatural ==
  ASSUME NEW S \in SUBSET Nat, S # {}
  PROVE  \E n \in S : \A m \in S : n <= m
<1> DEFINE R == {ss \in Nat \X Nat : ss[1] < ss[2]}
<1>1. IsWellFoundedOn(R, Nat)
  BY NatLessThanWellFounded DEF OpToRel
<1> HIDE DEF R
<1>2. PICK n \in S : \A m \in S : ~(<<m, n>> \in R)
  BY <1>1, WFMin
<1>3. \A m \in S : ~(m < n)
  BY <1>2 DEF R
<1> QED
  BY <1>3

LEMMA GreatestOfBounded ==
  ASSUME NEW N \in Nat, NEW S \in SUBSET (0 .. N), S # {}
  PROVE  \E n \in S : \A m \in S : m <= n
<1> DEFINE U == {n \in Nat : \A m \in S : m <= n}
<1>1. PICK n \in U : \A u \in U : n <= u
  <2>1. U \in SUBSET Nat /\ N \in U
    OBVIOUS
  <2> HIDE DEF U
  <2> QED
    BY <2>1, LeastNatural
<1>2. n \in S
  <2> SUFFICES ASSUME n \notin S PROVE FALSE
    OBVIOUS
  <2>1. n \in Nat /\ \A m \in S : m \in Nat /\ m <= n - 1
    BY <1>1
  <2>2. n - 1 \in Nat
    <3>1. PICK m \in S : TRUE
      OBVIOUS
    <3> QED
      BY <2>1, <3>1
  <2>3. n - 1 \in U
    BY <2>1, <2>2
  <2> QED
    BY <2>1, <2>3, <1>1
<1> QED
  BY <1>1, <1>2

Cleared == [m \in Mods |-> 0]

LEMMA RemoveType ==
  ASSUME NEW b \in [Mods -> Nat], NEW c \in remove_module(b)
  PROVE  c \in [Mods -> Nat] /\ \A m \in Mods : c[m] <= b[m]
BY DEF remove_module

LEMMA AddType ==
  ASSUME NEW b \in [Mods -> Nat], NEW m \in Mods
  PROVE  add_module(b, m) \in [Mods -> Nat]
BY DEF add_module

LEMMA RemoveTheOne ==
  ASSUME NEW b \in [Mods -> Nat], NEW m \in Mods, b[m] = 1, \A n \in Mods \ {m} : b[n] = 0
  PROVE  remove_module(b) = {Cleared}
<1>1. {n \in Mods : b[n] > 0} = {m}
  OBVIOUS
<1>2. [b EXCEPT ![m] = @ - 1] = Cleared
  <2>1. \A n \in Mods : [b EXCEPT ![m] = @ - 1][n] = 0
    OBVIOUS
  <2> QED
    BY <2>1 DEF Cleared
<1>3. remove_module(b) = {[b EXCEPT ![n] = @ - 1] : n \in {m}}
  BY <1>1 DEF remove_module
<1> QED
  BY <1>2, <1>3

-----------------------------------------------------------------------------
(* The invariant of one key                                                *)

LEMMA AtSame ==
  ASSUME NEW k \in Keys, AllAt(k),
         unw'[k] = unw[k], static_mods'[k] = static_mods[k], loaded'[k] = loaded[k],
         k \in jit_keys' <=> k \in jit_keys, PendingAt(k)' = PendingAt(k),
         Waiting(k)' = Waiting(k), Shown(k)' = Shown(k)
  PROVE  AllAt(k)'
<1>1. JitAt(k)'
  BY DEF AllAt, JitAt
<1>2. PendingOK(k)'
  BY DEF AllAt, PendingOK
<1>3. ShownOK(k)'
  BY DEF AllAt, ShownOK
<1> QED
  BY <1>1, <1>2, <1>3 DEF AllAt

LEMMA InitDyld == Init => DyldInv
<1> SUFFICES ASSUME Init PROVE DyldInv
  OBVIOUS
<1>1. TypeOK
  <2>1. RegistryTypeOK /\ static_mods \in [Keys -> Images \cup {None}]
    BY DEF Init, RegistryInit, RegistryTypeOK
  <2>2. batching \in BOOLEAN /\ (batching <=> dpc \in {"begun", "add", "both"})
    BY DEF Init
  <2>3. maps \in 0 .. MaxEvents
    BY DyldAssumption DEF Init
  <2> QED
    BY <2>1, <2>2, <2>3 DEF Init, TypeOK
<1>2. IsFiniteSet(pending) /\ \A k \in Keys : loaded[k] # None => k \in ImageKeys
  BY FS_EmptySet DEF Init
<1>3. ASSUME NEW k \in Keys PROVE AllAt(k)
  <2>1. Waiting(k) = {} /\ Shown(k) = {} /\ PendingAt(k) = {}
    BY DEF Init, Waiting, Shown, PendingAt
  <2>2. JitAt(k)
    BY DEF Init, RegistryInit, JitAt, Mods
  <2>3. PendingOK(k)
    BY <2>1, DyldAssumption DEF PendingOK
  <2>4. ShownOK(k)
    BY <2>1 DEF Init, RegistryInit, ShownOK, Mods
  <2> QED
    BY <2>2, <2>3, <2>4 DEF AllAt
<1> QED
  BY <1>1, <1>2, <1>3 DEF DyldInv

-----------------------------------------------------------------------------
(* init_callbacks                                                          *)

LEMMA BeginBatch == ASSUME DyldInv, macos_begin_batch PROVE DyldInv'
<1>1. TypeOK'
  <2>1. batching' \in BOOLEAN /\ (batching' <=> dpc' \in {"begun", "add", "both"})
    BY DEF macos_begin_batch
  <2> QED
    BY <2>1 DEF DyldInv, macos_begin_batch, TypeOK, RegistryTypeOK, registryVars, jitVars, dyldVars
<1>2. IsFiniteSet(pending)' /\ \A k \in Keys : loaded'[k] # None => k \in ImageKeys
  BY DEF DyldInv, macos_begin_batch, dyldVars
<1>3. ASSUME NEW k \in Keys \ missed' PROVE AllAt(k)'
  <2>1. AllAt(k)
    BY DEF DyldInv, macos_begin_batch
  <2>2. Waiting(k)' = Waiting(k) /\ Shown(k)' = Shown(k)
    BY DEF macos_begin_batch, Waiting, Shown
  <2> QED
    BY <2>1, <2>2, AtSame DEF macos_begin_batch, registryVars, jitVars, dyldVars, PendingAt
<1> QED
  BY <1>1, <1>2, <1>3 DEF DyldInv

LEMMA RegisterAddKeeps == ASSUME DyldInv, RegisterAdd PROVE DyldInv'
<1> DEFINE images == {q \in Keys : loaded[q] \in Unwindable}
           new == {Entry(k, loaded[k]) : k \in images}
<1>a. TypeOK /\ IsFiniteSet(pending) /\ \A k \in Keys : loaded[k] # None => k \in ImageKeys
  BY DEF DyldInv
<1>b. /\ dpc = "begun" /\ dyld = <<>> /\ pending' = pending \cup new /\ dpc' = "add"
      /\ UNCHANGED <<registryVars, batching, dyldVars, missed>>
  BY DEF RegisterAdd
<1>c. None \notin Unwindable
  BY RegistryAssumption, DyldAssumption DEF Mods
<1>1. TypeOK'
  <2>1. batching' \in BOOLEAN /\ (batching' <=> dpc' \in {"begun", "add", "both"})
    BY <1>a, <1>b DEF TypeOK
  <2>2. new \subseteq [key : ImageKeys, image : Unwindable, at : 0 .. MaxEvents]
    BY <1>a, <1>c DEF TypeOK, Entry
  <2> QED
    BY <1>a, <1>b, <2>1, <2>2 DEF TypeOK, RegistryTypeOK, registryVars, jitVars, dyldVars
<1>2. IsFiniteSet(pending')
  <2>1. IsFiniteSet(images)
    BY DyldAssumption, FS_Subset
  <2>2. [k \in images |-> Entry(k, loaded[k])] \in Surjection(images, new)
    BY DEF Surjection
  <2>3. IsFiniteSet(new)
    BY <2>1, <2>2, FS_Surjection
  <2> QED
    BY <1>a, <1>b, <2>3, FS_Union
<1>3. \A k \in Keys : loaded'[k] # None => k \in ImageKeys
  BY <1>a, <1>b DEF dyldVars
<1>4. ASSUME NEW k \in Keys \ missed' PROVE AllAt(k)'
  <2>1. AllAt(k)
    BY <1>b DEF DyldInv
  <2>2. /\ Waiting(k) = {} /\ Shown(k) = {} /\ Shown(k)' = {}
        /\ Waiting(k)' = IF loaded[k] \in Unwindable THEN {loaded[k]} ELSE {}
    BY <1>b DEF Waiting, Shown, Held, dyldVars
  <2>3. PendingAt(k) = {}
    BY <2>1, <2>2 DEF AllAt, PendingOK
  <2>4. PendingAt(k)' = {[key |-> k, image |-> i, at |-> maps] : i \in Waiting(k)'}
    BY <1>b, <2>2, <2>3 DEF PendingAt, Entry
  <2>5. PendingOK(k)'
    BY <2>4, <1>a DEF PendingOK, TypeOK
  <2>6. JitAt(k)' /\ ShownOK(k)'
    BY <1>b, <2>1, <2>2 DEF AllAt, JitAt, ShownOK, registryVars, jitVars, dyldVars
  <2> QED
    BY <2>5, <2>6 DEF AllAt
<1> QED
  BY <1>1, <1>2, <1>3, <1>4 DEF DyldInv

LEMMA RegisterRemoveKeeps == ASSUME DyldInv, RegisterRemove PROVE DyldInv'
<1>1. TypeOK'
  <2>1. batching' \in BOOLEAN /\ (batching' <=> dpc' \in {"begun", "add", "both"})
    BY DEF DyldInv, TypeOK, RegisterRemove
  <2> QED
    BY <2>1 DEF DyldInv, RegisterRemove, TypeOK, RegistryTypeOK, registryVars, jitVars, dyldVars
<1>2. IsFiniteSet(pending)' /\ \A k \in Keys : loaded'[k] # None => k \in ImageKeys
  BY DEF DyldInv, RegisterRemove, dyldVars
<1>3. ASSUME NEW k \in Keys \ missed' PROVE AllAt(k)'
  <2>1. AllAt(k)
    BY DEF DyldInv, RegisterRemove
  <2>2. Waiting(k)' = Waiting(k) /\ Shown(k)' = Shown(k)
    BY DEF RegisterRemove, Waiting, Shown, Held, dyldVars
  <2> QED
    BY <2>1, <2>2, AtSame DEF RegisterRemove, registryVars, jitVars, dyldVars, PendingAt
<1> QED
  BY <1>1, <1>2, <1>3 DEF DyldInv

\* The last entry of a key is one of its entries.
LEMMA LastAtIsThere ==
  ASSUME TypeOK, NEW k, PendingAt(k) # {}
  PROVE  LastAt(k) \in PendingAt(k)
<1> DEFINE S == {p.at : p \in PendingAt(k)}
<1>1. S \in SUBSET (0 .. MaxEvents) /\ S # {}
  BY DEF TypeOK, PendingAt
<1>2. PICK n \in S : \A m \in S : m <= n
  BY <1>1, DyldAssumption, GreatestOfBounded
<1>3. PICK p \in PendingAt(k) : p.at = n
  BY <1>2
<1>4. \A q \in PendingAt(k) : q.at <= p.at
  BY <1>2, <1>3
<1> QED
  BY <1>3, <1>4 DEF LastAt

LEMMA EndBatch == ASSUME DyldInv, macos_end_batch PROVE DyldInv'
<1> DEFINE Added(k, m) == {p \in PendingAt(k) : p.image = m}
<1>a. TypeOK /\ IsFiniteSet(pending) /\ \A k \in Keys : loaded[k] # None => k \in ImageKeys
  BY DEF DyldInv
<1>b. /\ dpc = "both" /\ batching' = FALSE /\ pending' = {} /\ dpc' = "done"
      /\ static_mods' = [k \in Keys |-> IF PendingAt(k) = {} THEN static_mods[k] ELSE LastAt(k).image]
      /\ unw' = [k \in Keys |-> [m \in Mods |-> unw[k][m] + Cardinality(Added(k, m))]]
      /\ UNCHANGED <<jitVars, dyldVars, missed>>
  BY DEF macos_end_batch
<1>c. \A k, m : Cardinality(Added(k, m)) \in Nat
  BY <1>a, FS_Subset, FS_CardinalityType DEF PendingAt
<1> HIDE DEF Added
<1>d. unw \in [Keys -> [Mods -> Nat]]
  BY <1>a DEF TypeOK, RegistryTypeOK
<1>e. \A k \in Keys, m \in Mods : unw'[k][m] = unw[k][m] + Cardinality(Added(k, m))
  BY <1>b
<1>1. TypeOK'
  <2>1. batching' \in BOOLEAN /\ (batching' <=> dpc' \in {"begun", "add", "both"})
    BY <1>b
  <2>2. unw' \in [Keys -> [Mods -> Nat]]
    BY <1>b, <1>c, <1>d
  <2>3. ASSUME NEW k \in Keys PROVE static_mods'[k] \in Images \cup {None}
    <3>1. CASE PendingAt(k) = {}
      BY <1>a, <1>b, <3>1 DEF TypeOK
    <3>2. CASE PendingAt(k) # {}
      <4>1. LastAt(k) \in pending
        BY <1>a, <3>2, LastAtIsThere DEF PendingAt
      <4> QED
        BY <1>a, <1>b, <3>2, <4>1, DyldAssumption DEF TypeOK
    <3> QED
      BY <3>1, <3>2
  <2>4. static_mods' \in [Keys -> Images \cup {None}]
    BY <1>b, <2>3
  <2> QED
    BY <1>a, <1>b, <2>1, <2>2, <2>4 DEF TypeOK, RegistryTypeOK, jitVars, dyldVars
<1>2. IsFiniteSet(pending)' /\ \A k \in Keys : loaded'[k] # None => k \in ImageKeys
  BY <1>a, <1>b, FS_EmptySet DEF dyldVars
<1>3. ASSUME NEW k \in Keys \ missed' PROVE AllAt(k)'
  <2>1. AllAt(k)
    BY <1>b DEF DyldInv
  <2>2. Waiting(k)' = {} /\ Shown(k) = {} /\ Shown(k)' = Waiting(k)
    BY <1>b DEF Waiting, Shown, Held, dyldVars
  <2>3. PICK n \in 0 .. MaxEvents :
          PendingAt(k) = {[key |-> k, image |-> i, at |-> n] : i \in Waiting(k)}
    BY <2>1 DEF AllAt, PendingOK
  <2>4. Waiting(k) = {} \/ Waiting(k) = {loaded[k]}
    BY DEF Waiting, Held
  <2>5. \A m \in Mods : Cardinality(Added(k, m)) = IF m \in Waiting(k) THEN 1 ELSE 0
    <3>1. ASSUME NEW m \in Mods, m \in Waiting(k)
          PROVE  Added(k, m) = {[key |-> k, image |-> m, at |-> n]}
      BY <2>3, <2>4, <3>1 DEF Added
    <3>2. ASSUME NEW m \in Mods, m \notin Waiting(k) PROVE Added(k, m) = {}
      BY <2>3, <3>2 DEF Added
    <3> QED
      BY <3>1, <3>2, FS_EmptySet, FS_Singleton
  <2>6. JitAt(k)'
    <3>1. \A e \in EhFrames : e \in Mods /\ e \notin Waiting(k)
      BY RegistryAssumption, DyldAssumption DEF Mods, Waiting, Held
    <3>2. \A e \in EhFrames : unw'[k][e] = unw[k][e]
      BY <1>d, <1>e, <2>5, <3>1
    <3> QED
      BY <1>b, <2>1, <3>2 DEF AllAt, JitAt, jitVars, dyldVars
  <2>7. ShownOK(k)'
    <3>1. \A i \in Images : unw'[k][i] = IF i \in Waiting(k) THEN 1 ELSE 0
      <4>1. \A i \in Images : i \in Mods /\ unw[k][i] = 0
        BY <2>1, <2>2 DEF AllAt, ShownOK, Mods
      <4> QED
        BY <1>e, <2>5, <4>1
    <3>2. static_mods'[k] = IF Waiting(k) = {} THEN None ELSE loaded[k]
      <4>1. CASE Waiting(k) = {}
        BY <1>b, <2>1, <2>2, <2>3, <4>1 DEF AllAt, ShownOK
      <4>2. CASE Waiting(k) # {}
        <5>1. PendingAt(k) = {[key |-> k, image |-> loaded[k], at |-> n]}
          BY <2>3, <2>4, <4>2
        <5>2. LastAt(k) = [key |-> k, image |-> loaded[k], at |-> n]
          BY <1>a, <5>1, LastAtIsThere
        <5> QED
          BY <1>b, <4>2, <5>1, <5>2
      <4> QED
        BY <4>1, <4>2
    <3> QED
      BY <1>b, <2>2, <3>1, <3>2 DEF ShownOK, dyldVars
  <2>8. PendingOK(k)'
    BY <1>b, <2>2, <2>3 DEF PendingOK, PendingAt
  <2> QED
    BY <2>6, <2>7, <2>8 DEF AllAt
<1> QED
  BY <1>1, <1>2, <1>3 DEF DyldInv

-----------------------------------------------------------------------------
(* dyld                                                                    *)

\* What dyld does at one key leaves the others alone.
LEMMA AtOther ==
  ASSUME NEW k \in Keys, NEW q \in Keys, q # k, AllAt(q),
         dyld \in {<<>>, <<"added", k>>, <<"removed", k>>},
         dyld' \in {<<>>, <<"added", k>>, <<"removed", k>>},
         unw'[q] = unw[q], static_mods'[q] = static_mods[q], loaded'[q] = loaded[q],
         PendingAt(q)' = PendingAt(q), UNCHANGED <<jit_keys, dpc>>
  PROVE  AllAt(q)'
<1>1. Held(q)' = Held(q)
  BY DEF Held
<1>2. Waiting(q)' = Waiting(q) /\ Shown(q)' = Shown(q)
  BY <1>1 DEF Waiting, Shown
<1> QED
  BY <1>2, AtSame

LEMMA MapImageKeeps ==
  ASSUME DyldInv, NEW k \in ImageKeys, NEW i \in Images, MapImage(k, i)
  PROVE  DyldInv'
<1>a. TypeOK /\ IsFiniteSet(pending) /\ (\A q \in Keys : loaded[q] # None => q \in ImageKeys) /\ k \in Keys
  BY DyldAssumption DEF DyldInv
<1>b. /\ dyld = <<>> /\ loaded[k] = None /\ k \notin jit_keys /\ maps < MaxEvents
      /\ loaded' = [loaded EXCEPT ![k] = i] /\ dyld' = <<"added", k>> /\ maps' = maps + 1
      /\ UNCHANGED <<unw, static_mods, jit_keys, jit_by_eh_frame, jit_eh_frame_by_key,
                     batching, pending, dpc, missed>>
  BY DEF MapImage, registryVars, jitVars
<1>1. TypeOK'
  BY <1>a, <1>b, DyldAssumption DEF TypeOK, RegistryTypeOK
<1>2. IsFiniteSet(pending)' /\ \A q \in Keys : loaded'[q] # None => q \in ImageKeys
  BY <1>a, <1>b DEF TypeOK
<1>3. ASSUME NEW q \in Keys \ missed' PROVE AllAt(q)'
  <2>1. AllAt(q)
    BY <1>b DEF DyldInv
  <2>2. CASE q # k
    <3>1. loaded'[q] = loaded[q] /\ PendingAt(q)' = PendingAt(q)
      BY <1>a, <1>b, <2>2 DEF TypeOK, PendingAt
    <3> QED
      BY <1>a, <1>b, <2>1, <2>2, <3>1, AtOther
  <2>3. CASE q = k
    <3>1. Held(k) = {} /\ Held(k)' = {}
      BY <1>b, RegistryAssumption, DyldAssumption DEF Held, Mods
    <3>2. Waiting(k) = {} /\ Shown(k) = {} /\ Waiting(k)' = {} /\ Shown(k)' = {}
      BY <3>1 DEF Waiting, Shown
    <3>3. JitAt(k)' /\ ShownOK(k)'
      BY <1>b, <2>1, <2>3, <3>2 DEF AllAt, JitAt, ShownOK
    <3>4. PendingOK(k)'
      BY <1>b, <2>1, <2>3, <3>2 DEF AllAt, PendingOK, PendingAt
    <3> QED
      BY <2>3, <3>3, <3>4 DEF AllAt
  <2> QED
    BY <2>2, <2>3
<1> QED
  BY <1>1, <1>2, <1>3 DEF DyldInv

LEMMA UnmapImageKeeps ==
  ASSUME DyldInv, NEW k \in ImageKeys, UnmapImage(k)
  PROVE  DyldInv'
<1>a. TypeOK /\ IsFiniteSet(pending) /\ (\A q \in Keys : loaded[q] # None => q \in ImageKeys) /\ k \in Keys
  BY DyldAssumption DEF DyldInv
<1>b. /\ dyld = <<"removed", k>> /\ dyld' = <<>>
      /\ loaded' = [loaded EXCEPT ![k] = None]
      /\ UNCHANGED <<unw, static_mods, jit_keys, jit_by_eh_frame, jit_eh_frame_by_key,
                     batching, pending, maps, dpc, missed>>
  BY DEF UnmapImage, registryVars, jitVars
<1>1. TypeOK'
  BY <1>a, <1>b DEF TypeOK, RegistryTypeOK
<1>2. IsFiniteSet(pending)' /\ \A q \in Keys : loaded'[q] # None => q \in ImageKeys
  BY <1>a, <1>b DEF TypeOK
<1>3. ASSUME NEW q \in Keys \ missed' PROVE AllAt(q)'
  <2>1. AllAt(q)
    BY <1>b DEF DyldInv
  <2>2. CASE q # k
    <3>1. loaded'[q] = loaded[q] /\ PendingAt(q)' = PendingAt(q)
      BY <1>a, <1>b, <2>2 DEF TypeOK, PendingAt
    <3> QED
      BY <1>a, <1>b, <2>1, <2>2, <3>1, AtOther
  <2>3. CASE q = k
    <3>0. loaded'[k] = None
      BY <1>a, <1>b DEF TypeOK
    <3>1. Held(k) = {} /\ Held(k)' = {}
      BY <1>b, <3>0, RegistryAssumption, DyldAssumption DEF Held, Mods
    <3>2. Waiting(k) = {} /\ Shown(k) = {} /\ Waiting(k)' = {} /\ Shown(k)' = {}
      BY <3>1 DEF Waiting, Shown
    <3>3. JitAt(k)' /\ ShownOK(k)'
      BY <1>b, <2>1, <2>3, <3>0, <3>2 DEF AllAt, JitAt, ShownOK
    <3>4. PendingOK(k)'
      BY <1>b, <2>1, <2>3, <3>2 DEF AllAt, PendingOK, PendingAt
    <3> QED
      BY <2>3, <3>3, <3>4 DEF AllAt
  <2> QED
    BY <2>2, <2>3
<1> QED
  BY <1>1, <1>2, <1>3 DEF DyldInv

\* Added while batching, published at once after.
LEMMA OnAddKeeps ==
  ASSUME DyldInv, NEW k \in ImageKeys, on_add_image(k)
  PROVE  DyldInv'
<1> DEFINE i == loaded[k]
           Used == dpc \in {"add", "both", "done"} /\ i \in Unwindable
<1>a. TypeOK /\ IsFiniteSet(pending) /\ (\A q \in Keys : loaded[q] # None => q \in ImageKeys) /\ k \in Keys
  BY DyldAssumption DEF DyldInv
<1>b. /\ dyld = <<"added", k>> /\ dyld' = <<>>
      /\ UNCHANGED <<jit_keys, jit_by_eh_frame, jit_eh_frame_by_key, batching, loaded, maps, dpc, missed>>
  BY DEF on_add_image, jitVars
<1>c. \/ ~Used /\ UNCHANGED <<unw, static_mods, pending>>
      \/ /\ Used /\ batching /\ pending' = pending \cup {Entry(k, i)}
         /\ UNCHANGED <<unw, static_mods>>
      \/ /\ Used /\ ~batching
         /\ \E b \in (IF static_mods[k] # None THEN remove_module(unw[k]) ELSE {unw[k]}) :
              unw' = [unw EXCEPT ![k] = add_module(b, i)]
         /\ static_mods' = [static_mods EXCEPT ![k] = i]
         /\ UNCHANGED pending
  BY DEF on_add_image, macos_add_image
<1>d. unw \in [Keys -> [Mods -> Nat]] /\ (i \in Unwindable => i \in Images /\ i \in Mods)
  BY <1>a, DyldAssumption DEF TypeOK, RegistryTypeOK, Mods
<1>e. batching <=> dpc \in {"begun", "add", "both"}
  BY <1>a DEF TypeOK
<1>1. unw' \in [Keys -> [Mods -> Nat]] /\ \A q \in Keys \ {k} : unw'[q] = unw[q]
  <2>1. CASE UNCHANGED unw
    BY <2>1, <1>d
  <2>2. CASE Used /\ \E b \in (IF static_mods[k] # None THEN remove_module(unw[k]) ELSE {unw[k]}) :
                       unw' = [unw EXCEPT ![k] = add_module(b, i)]
    <3>1. PICK b \in (IF static_mods[k] # None THEN remove_module(unw[k]) ELSE {unw[k]}) :
            unw' = [unw EXCEPT ![k] = add_module(b, i)]
      BY <2>2
    <3>2. b \in [Mods -> Nat]
      BY <1>a, <1>d, <3>1, RemoveType
    <3>3. add_module(b, i) \in [Mods -> Nat]
      BY <1>d, <2>2, <3>2, AddType
    <3> QED
      BY <1>a, <1>d, <3>1, <3>3
  <2> QED
    BY <1>c, <2>1, <2>2
<1>2. pending' = pending \/ (Used /\ pending' = pending \cup {Entry(k, i)})
  BY <1>c
<1>3. /\ static_mods' \in [Keys -> Images \cup {None}]
      /\ \A q \in Keys \ {k} : static_mods'[q] = static_mods[q]
  BY <1>a, <1>c, <1>d DEF TypeOK
<1>4. TypeOK'
  <2>1. pending' \subseteq [key : ImageKeys, image : Unwindable, at : 0 .. MaxEvents]
    BY <1>a, <1>2 DEF TypeOK, Entry
  <2>2. RegistryTypeOK'
    BY <1>a, <1>b, <1>1 DEF TypeOK, RegistryTypeOK
  <2> QED
    BY <1>a, <1>b, <1>3, <2>1, <2>2 DEF TypeOK
<1>5. IsFiniteSet(pending)' /\ \A q \in Keys : loaded'[q] # None => q \in ImageKeys
  BY <1>a, <1>b, <1>2, FS_AddElement
<1>6. ASSUME NEW q \in Keys \ missed' PROVE AllAt(q)'
  <2>1. AllAt(q)
    BY <1>b DEF DyldInv
  <2>2. CASE q # k
    <3>1. PendingAt(q)' = PendingAt(q)
      BY <1>2, <2>2 DEF PendingAt, Entry
    <3> QED
      BY <1>a, <1>b, <1>1, <1>3, <2>1, <2>2, <3>1, AtOther
  <2>3. CASE q = k
    <3>1. Held(k) = {} /\ Held(k)' = IF i \in Unwindable THEN {i} ELSE {}
      BY <1>b DEF Held
    <3>2. Waiting(k) = {} /\ Shown(k) = {} /\ PendingAt(k) = {} /\ static_mods[k] = None
      BY <2>1, <2>3, <3>1 DEF Waiting, Shown, AllAt, PendingOK, ShownOK
    <3>3. /\ Waiting(k)' = IF Used /\ batching THEN {i} ELSE {}
          /\ Shown(k)' = IF Used /\ ~batching THEN {i} ELSE {}
      BY <1>b, <1>e, <3>1 DEF Waiting, Shown
    <3>4. PendingOK(k)'
      <4>1. PendingAt(k)' = {[key |-> k, image |-> j, at |-> maps] : j \in Waiting(k)'}
        BY <1>c, <3>2, <3>3 DEF PendingAt, Entry
      <4> QED
        BY <1>a, <4>1 DEF PendingOK, TypeOK
    <3>5. \A m \in Mods : unw'[k][m] = IF m \in Shown(k)' THEN unw[k][m] + 1 ELSE unw[k][m]
      <4>1. CASE Used /\ ~batching
        <5>1. unw' = [unw EXCEPT ![k] = [unw[k] EXCEPT ![i] = @ + 1]]
          BY <1>c, <3>2, <4>1 DEF add_module
        <5> QED
          BY <1>a, <1>d, <3>3, <4>1, <5>1
      <4>2. CASE ~(Used /\ ~batching)
        BY <1>c, <3>3, <4>2
      <4> QED
        BY <4>1, <4>2
    <3>6. JitAt(k)'
      <4>1. \A e \in EhFrames : unw'[k][e] = unw[k][e]
        BY <1>d, <3>3, <3>5, RegistryAssumption DEF Mods
      <4> QED
        BY <1>b, <2>1, <2>3, <4>1 DEF AllAt, JitAt
    <3>7. ShownOK(k)'
      <4>1. \A j \in Images : j \in Mods /\ unw[k][j] = 0
        BY <2>1, <2>3, <3>2 DEF AllAt, ShownOK, Mods
      <4>2. \A j \in Images : unw'[k][j] = IF j \in Shown(k)' THEN 1 ELSE 0
        BY <3>5, <4>1
      <4>3. static_mods'[k] = IF Shown(k)' = {} THEN None ELSE loaded'[k]
        BY <1>a, <1>b, <1>c, <3>2, <3>3 DEF TypeOK
      <4> QED
        BY <4>2, <4>3 DEF ShownOK
    <3> QED
      BY <2>3, <3>4, <3>6, <3>7 DEF AllAt
  <2> QED
    BY <2>2, <2>3
<1> QED
  BY <1>4, <1>5, <1>6 DEF DyldInv

\* Dropped from where it is held: at this key there is no other module to remove.
LEMMA OnRemoveKeeps ==
  ASSUME DyldInv, NEW k \in ImageKeys, on_remove_image(k)
  PROVE  DyldInv'
<1> DEFINE Used == dpc \in {"both", "done"}
<1>a. TypeOK /\ IsFiniteSet(pending) /\ (\A q \in Keys : loaded[q] # None => q \in ImageKeys) /\ k \in Keys
  BY DyldAssumption DEF DyldInv
<1>b. /\ dyld = <<>> /\ loaded[k] # None /\ dyld' = <<"removed", k>>
      /\ missed' = IF dpc = "add" THEN missed \cup {k} ELSE missed
      /\ UNCHANGED <<jit_keys, jit_by_eh_frame, jit_eh_frame_by_key, batching, loaded, maps, dpc>>
  BY DEF on_remove_image, jitVars
<1>c. \/ ~Used /\ UNCHANGED <<unw, static_mods, pending>>
      \/ /\ Used /\ macos_remove_image(k)
  BY DEF on_remove_image
<1>d. unw \in [Keys -> [Mods -> Nat]]
  BY <1>a DEF TypeOK, RegistryTypeOK
<1>e. batching <=> dpc \in {"begun", "add", "both"}
  BY <1>a DEF TypeOK
<1>f. pending' = IF Used /\ batching THEN {p \in pending : p.key # k} ELSE pending
  BY <1>c DEF macos_remove_image
<1>g. static_mods' = IF Used THEN [static_mods EXCEPT ![k] = None] ELSE static_mods
  <2>1. static_mods[k] = None => [static_mods EXCEPT ![k] = None] = static_mods
    BY <1>a DEF TypeOK
  <2> QED
    BY <1>c, <2>1 DEF macos_remove_image
<1>h. \/ unw' = unw /\ (~Used \/ static_mods[k] = None \/ k \in jit_keys)
      \/ /\ Used /\ static_mods[k] # None /\ k \notin jit_keys
         /\ \E b \in remove_module(unw[k]) : unw' = [unw EXCEPT ![k] = b]
  BY <1>c DEF macos_remove_image
<1>1. unw' \in [Keys -> [Mods -> Nat]] /\ \A q \in Keys \ {k} : unw'[q] = unw[q]
  BY <1>a, <1>d, <1>h, RemoveType
<1>2. /\ static_mods' \in [Keys -> Images \cup {None}]
      /\ \A q \in Keys \ {k} : static_mods'[q] = static_mods[q]
  BY <1>a, <1>g DEF TypeOK
<1>3. TypeOK'
  <2>1. RegistryTypeOK'
    BY <1>a, <1>b, <1>1 DEF TypeOK, RegistryTypeOK
  <2>2. pending' \subseteq [key : ImageKeys, image : Unwindable, at : 0 .. MaxEvents]
    BY <1>a, <1>f DEF TypeOK
  <2> QED
    BY <1>a, <1>b, <1>2, <2>1, <2>2 DEF TypeOK
<1>4. IsFiniteSet(pending)' /\ \A q \in Keys : loaded'[q] # None => q \in ImageKeys
  <2>1. pending' \in SUBSET pending
    BY <1>f
  <2> QED
    BY <1>a, <1>b, <2>1, FS_Subset
<1>5. ASSUME NEW q \in Keys \ missed' PROVE AllAt(q)'
  <2>1. AllAt(q) /\ q \notin missed
    BY <1>b DEF DyldInv
  <2>2. CASE q # k
    <3>1. PendingAt(q)' = PendingAt(q)
      BY <1>f, <2>2 DEF PendingAt
    <3> QED
      BY <1>a, <1>b, <1>1, <1>2, <2>1, <2>2, <3>1, AtOther
  <2>3. CASE q = k
    <3>1. Held(k)' = {} /\ Held(k) = IF loaded[k] \in Unwindable THEN {loaded[k]} ELSE {}
      BY <1>b DEF Held
    <3>2. Waiting(k)' = {} /\ Shown(k)' = {} /\ dpc # "add" /\ k \notin jit_keys
      BY <1>b, <2>1, <2>3, <3>1 DEF Waiting, Shown, AllAt, JitAt
    <3>3. PendingOK(k)'
      <4>1. PendingAt(k)' = {}
        <5>1. CASE Used /\ batching
          BY <1>f, <5>1 DEF PendingAt
        <5>2. CASE ~(Used /\ batching)
          <6>1. Waiting(k) = {}
            BY <1>a, <1>e, <3>2, <5>2 DEF Waiting, TypeOK
          <6> QED
            BY <1>f, <2>1, <2>3, <5>2, <6>1 DEF AllAt, PendingOK, PendingAt
        <5> QED
          BY <5>1, <5>2
      <4>2. 0 \in 0 .. MaxEvents
        BY DyldAssumption
      <4> QED
        BY <3>2, <4>1, <4>2 DEF PendingOK
    <3>4. \A m \in Mods : unw'[k][m] = 0
      <4>0. \A e \in EhFrames : unw[k][e] = 0
        BY <2>1, <2>3, <3>2 DEF AllAt, JitAt
      <4>1. CASE Shown(k) = {}
        <5>1. static_mods[k] = None /\ \A i \in Images : unw[k][i] = 0
          BY <2>1, <2>3, <4>1 DEF AllAt, ShownOK
        <5> QED
          BY <1>h, <4>0, <5>1 DEF Mods
      <4>2. CASE Shown(k) # {}
        <5>1. Used /\ Shown(k) = {loaded[k]} /\ loaded[k] \in Images
          BY <3>1, <4>2, DyldAssumption DEF Shown
        <5>2. /\ static_mods[k] # None /\ unw[k][loaded[k]] = 1
              /\ \A i \in Images \ {loaded[k]} : unw[k][i] = 0
          BY <1>b, <2>1, <2>3, <5>1 DEF AllAt, ShownOK
        <5>3. remove_module(unw[k]) = {Cleared}
          <6>1. unw[k] \in [Mods -> Nat] /\ loaded[k] \in Mods
            BY <1>a, <1>d, <5>1 DEF Mods
          <6>2. \A m \in Mods \ {loaded[k]} : unw[k][m] = 0
            BY <4>0, <5>2 DEF Mods
          <6> QED
            BY <5>2, <6>1, <6>2, RemoveTheOne
        <5>4. unw' = [unw EXCEPT ![k] = Cleared]
          BY <1>h, <3>2, <5>1, <5>2, <5>3
        <5> QED
          BY <1>a, <1>d, <5>4 DEF Cleared
      <4> QED
        BY <4>1, <4>2
    <3>5. JitAt(k)'
      BY <1>b, <3>2, <3>4 DEF JitAt, Mods
    <3>6. ShownOK(k)'
      <4>1. static_mods'[k] = None
        <5>1. CASE Used
          BY <1>a, <1>g, <5>1 DEF TypeOK
        <5>2. CASE ~Used
          BY <1>g, <2>1, <2>3, <5>2 DEF AllAt, ShownOK, Shown
        <5> QED
          BY <5>1, <5>2
      <4> QED
        BY <3>2, <3>4, <4>1 DEF ShownOK, Mods
    <3> QED
      BY <2>3, <3>3, <3>5, <3>6 DEF AllAt
  <2> QED
    BY <2>2, <2>3
<1> QED
  BY <1>3, <1>4, <1>5 DEF DyldInv

-----------------------------------------------------------------------------
(* JIT code                                                                *)

\* A key where nothing is mapped has no module but the JIT one, if any.
LEMMA JitAlone ==
  ASSUME TypeOK, NEW k \in Keys, loaded[k] = None, AllAt(k)
  PROVE  IF k \in jit_keys THEN remove_module(unw[k]) = {Cleared} ELSE unw[k] = Cleared
<1>1. unw[k] \in [Mods -> Nat]
  BY DEF TypeOK, RegistryTypeOK
<1>2. \A i \in Images : unw[k][i] = 0
  BY RegistryAssumption, DyldAssumption DEF AllAt, ShownOK, Shown, Held, Mods
<1>3. CASE k \in jit_keys
  <2>1. PICK e \in EhFrames : unw[k][e] = 1 /\ \A f \in EhFrames \ {e} : unw[k][f] = 0
    BY <1>3 DEF AllAt, JitAt
  <2>2. e \in Mods /\ \A m \in Mods \ {e} : unw[k][m] = 0
    BY <1>2, <2>1 DEF Mods
  <2> QED
    BY <1>1, <1>3, <2>1, <2>2, RemoveTheOne
<1>4. CASE k \notin jit_keys
  <2>1. \A m \in Mods : unw[k][m] = 0
    BY <1>2, <1>4 DEF AllAt, JitAt, Mods
  <2> QED
    BY <1>1, <1>4, <2>1 DEF Cleared
<1> QED
  BY <1>3, <1>4

LEMMA ForgetType ==
  ASSUME TypeOK, NEW k \in Keys
  PROVE  forget_jit_eh_frame(k) \in [EhFrames -> Keys \cup {None}]
BY DEF TypeOK, RegistryTypeOK, forget_jit_eh_frame

\* A registration or removal at k, given by the modules it leaves there.
LEMMA JitStep ==
  ASSUME DyldInv, NEW k \in JitKeys, loaded[k] = None \/ k \in jit_keys,
         NEW c, unw' = [unw EXCEPT ![k] = c], c \in [Mods -> Nat],
         jit_by_eh_frame' \in [EhFrames -> Keys \cup {None}],
         jit_eh_frame_by_key' \in [Keys -> EhFrames \cup {None}],
         jit_keys' = jit_keys \cup {k} \/ jit_keys' = jit_keys \ {k},
         k \notin missed =>
           IF k \in jit_keys'
           THEN \E e \in EhFrames : c = [Cleared EXCEPT ![e] = 1]
           ELSE c = Cleared,
         UNCHANGED <<static_mods, batching, pending, dyldVars, dpc, missed>>
  PROVE  DyldInv'
<1>a. TypeOK /\ IsFiniteSet(pending) /\ (\A q \in Keys : loaded[q] # None => q \in ImageKeys) /\ k \in Keys
  BY RegistryAssumption DEF DyldInv
<1>1. TypeOK'
  <2>1. RegistryTypeOK'
    BY <1>a DEF TypeOK, RegistryTypeOK
  <2> QED
    BY <1>a, <2>1 DEF TypeOK, dyldVars
<1>2. IsFiniteSet(pending)' /\ \A q \in Keys : loaded'[q] # None => q \in ImageKeys
  BY <1>a DEF dyldVars
<1>3. ASSUME NEW q \in Keys \ missed' PROVE AllAt(q)'
  <2>1. AllAt(q) /\ q \notin missed
    BY DEF DyldInv
  <2>2. Waiting(q)' = Waiting(q) /\ Shown(q)' = Shown(q) /\ PendingAt(q)' = PendingAt(q)
    BY DEF Waiting, Shown, Held, PendingAt, dyldVars
  <2>3. CASE q # k
    <3>1. unw'[q] = unw[q]
      BY <1>a, <2>3 DEF TypeOK, RegistryTypeOK
    <3> QED
      BY <2>1, <2>2, <2>3, <3>1, AtSame DEF dyldVars
  <2>4. CASE q = k
    <3>1. loaded[k] = None /\ loaded'[k] = None
      BY <2>1, <2>4 DEF AllAt, JitAt, dyldVars
    <3>2. unw'[k] = c
      BY <1>a DEF TypeOK, RegistryTypeOK
    <3>3. Cleared \in [Mods -> Nat] /\ \A m \in Mods : Cleared[m] = 0
      BY DEF Cleared
    <3>4. JitAt(k)'
      <4>1. CASE k \in jit_keys'
        <5>1. PICK e \in EhFrames : c = [Cleared EXCEPT ![e] = 1]
          BY <2>1, <2>4, <4>1
        <5>2. unw'[k][e] = 1 /\ \A f \in EhFrames \ {e} : unw'[k][f] = 0
          BY <3>2, <3>3, <5>1 DEF Mods
        <5> QED
          BY <3>1, <4>1, <5>2 DEF JitAt
      <4>2. CASE k \notin jit_keys'
        BY <2>1, <2>4, <3>2, <3>3, <4>2 DEF JitAt, Mods
      <4> QED
        BY <4>1, <4>2
    <3>5. Shown(k)' = {} /\ static_mods[k] = None
      <4>1. Shown(k) = {}
        BY <3>1, RegistryAssumption, DyldAssumption DEF Shown, Held, Mods
      <4> QED
        BY <2>1, <2>2, <2>4, <4>1 DEF AllAt, ShownOK
    <3>6. \A i \in Images : unw'[k][i] = 0
      <4>1. CASE k \in jit_keys'
        <5>1. PICK e \in EhFrames : c = [Cleared EXCEPT ![e] = 1]
          BY <2>1, <2>4, <4>1
        <5>2. \A i \in Images : i \in Mods /\ i # e
          BY RegistryAssumption DEF Mods
        <5> QED
          BY <3>2, <3>3, <5>1, <5>2
      <4>2. CASE k \notin jit_keys'
        BY <2>1, <2>4, <3>2, <3>3, <4>2 DEF Mods
      <4> QED
        BY <4>1, <4>2
    <3>7. ShownOK(k)' /\ PendingOK(k)'
      BY <2>1, <2>2, <2>4, <3>5, <3>6 DEF AllAt, ShownOK, PendingOK
    <3> QED
      BY <2>4, <3>4, <3>7 DEF AllAt
  <2> QED
    BY <2>3, <2>4
<1> QED
  BY <1>1, <1>2, <1>3 DEF DyldInv

LEMMA RegisterJitKeeps ==
  ASSUME DyldInv, NEW k \in JitKeys, NEW e \in EhFrames, loaded[k] = None, RegisterJit(k, e),
         UNCHANGED <<batching, pending, dyldVars, dpc, missed>>
  PROVE  DyldInv'
<1>a. TypeOK /\ k \in Keys /\ e \in Mods /\ unw[k] \in [Mods -> Nat]
  BY RegistryAssumption DEF DyldInv, TypeOK, RegistryTypeOK, Mods
<1>1. PICK b \in (IF k \in jit_keys THEN remove_module(unw[k]) ELSE {unw[k]}) :
        unw' = [unw EXCEPT ![k] = add_module(b, e)]
  BY DEF RegisterJit, add_jit_module
<1> DEFINE c == add_module(b, e)
<1>2. b \in [Mods -> Nat]
  BY <1>a, <1>1, RemoveType
<1>3. c \in [Mods -> Nat]
  BY <1>a, <1>2, AddType
<1>4. k \notin missed => c = [Cleared EXCEPT ![e] = 1]
  <2> SUFFICES ASSUME k \notin missed PROVE c = [Cleared EXCEPT ![e] = 1]
    OBVIOUS
  <2>1. AllAt(k)
    BY <1>a DEF DyldInv
  <2>2. b = Cleared
    BY <1>a, <1>1, <2>1, JitAlone
  <2> QED
    BY <1>a, <2>2 DEF add_module, Cleared
<1>5. jit_by_eh_frame' \in [EhFrames -> Keys \cup {None}]
  BY <1>a, ForgetType DEF RegisterJit, add_jit_module
<1>6. jit_eh_frame_by_key' \in [Keys -> EhFrames \cup {None}]
  BY <1>a DEF RegisterJit, add_jit_module, TypeOK, RegistryTypeOK
<1>7. jit_keys' = jit_keys \cup {k} /\ UNCHANGED static_mods
  BY DEF RegisterJit, add_jit_module
<1> HIDE DEF c
<1> QED
  BY <1>1, <1>3, <1>4, <1>5, <1>6, <1>7, JitStep DEF c

LEMMA RemoveJitKeeps ==
  ASSUME DyldInv, NEW k \in Keys, remove_jit_locked(k), UNCHANGED static_mods,
         UNCHANGED <<batching, pending, dyldVars, dpc, missed>>
  PROVE  DyldInv'
<1>a. TypeOK /\ k \in jit_keys /\ k \in JitKeys /\ unw[k] \in [Mods -> Nat]
  BY DEF DyldInv, TypeOK, RegistryTypeOK, remove_jit_locked
<1>1. PICK c \in remove_module(unw[k]) : unw' = [unw EXCEPT ![k] = c]
  BY DEF remove_jit_locked
<1>2. c \in [Mods -> Nat]
  BY <1>a, <1>1, RemoveType
<1>3. k \notin missed => c = Cleared
  <2> SUFFICES ASSUME k \notin missed PROVE c = Cleared
    OBVIOUS
  <2>1. AllAt(k) /\ loaded[k] = None
    BY <1>a DEF DyldInv, AllAt, JitAt
  <2> QED
    BY <1>a, <1>1, <2>1, JitAlone
<1>4. jit_by_eh_frame' \in [EhFrames -> Keys \cup {None}]
  BY <1>a, ForgetType DEF remove_jit_locked
<1>5. jit_eh_frame_by_key' \in [Keys -> EhFrames \cup {None}]
  BY <1>a DEF remove_jit_locked, TypeOK, RegistryTypeOK
<1>6. jit_keys' = jit_keys \ {k}
  BY DEF remove_jit_locked
<1> QED
  BY <1>a, <1>1, <1>2, <1>3, <1>4, <1>5, <1>6, JitStep

LEMMA JitKeeps == ASSUME DyldInv, Jit PROVE DyldInv'
<1>0. UNCHANGED <<batching, pending, dyldVars, dpc, missed>>
  BY DEF Jit
<1>1. ASSUME NEW k \in JitKeys, NEW e \in EhFrames, loaded[k] = None, RegisterJit(k, e) PROVE DyldInv'
  BY <1>0, <1>1, RegisterJitKeeps
<1>2. ASSUME NEW k \in JitKeys, remove_jit_module(k) PROVE DyldInv'
  BY <1>0, <1>2, RemoveJitKeeps, RegistryAssumption DEF remove_jit_module
<1>3. ASSUME NEW e \in EhFrames, remove_jit_module_by_eh_frame(e) PROVE DyldInv'
  <2>1. jit_by_eh_frame[e] \in Keys
    BY <1>3 DEF remove_jit_module_by_eh_frame, DyldInv, TypeOK, RegistryTypeOK
  <2> QED
    BY <1>0, <1>3, <2>1, RemoveJitKeeps DEF remove_jit_module_by_eh_frame
<1> QED
  BY <1>1, <1>2, <1>3 DEF Jit

-----------------------------------------------------------------------------

LEMMA DyldStutter == ASSUME DyldInv, UNCHANGED vars PROVE DyldInv'
<1>1. TypeOK'
  BY DEF DyldInv, TypeOK, RegistryTypeOK, vars, registryVars, jitVars, dyldVars
<1>2. ASSUME NEW k \in Keys \ missed' PROVE AllAt(k)'
  <2>1. AllAt(k)
    BY DEF DyldInv, vars
  <2>2. Waiting(k)' = Waiting(k) /\ Shown(k)' = Shown(k) /\ PendingAt(k)' = PendingAt(k)
    BY DEF Waiting, Shown, Held, PendingAt, vars, dyldVars
  <2> QED
    BY <2>1, <2>2, AtSame DEF vars, registryVars, jitVars, dyldVars
<1> QED
  BY <1>1, <1>2 DEF DyldInv, vars, dyldVars

LEMMA NextDyld == DyldInv /\ [Next]_vars => DyldInv'
<1> SUFFICES ASSUME DyldInv, [Next]_vars PROVE DyldInv'
  OBVIOUS
<1>1. CASE macos_begin_batch \/ RegisterAdd \/ RegisterRemove \/ macos_end_batch
  BY <1>1, BeginBatch, RegisterAddKeeps, RegisterRemoveKeeps, EndBatch
<1>2. ASSUME NEW k \in ImageKeys, NEW i \in Images, MapImage(k, i) PROVE DyldInv'
  BY <1>2, MapImageKeeps
<1>3. ASSUME NEW k \in ImageKeys, on_add_image(k) \/ on_remove_image(k) \/ UnmapImage(k) PROVE DyldInv'
  BY <1>3, OnAddKeeps, OnRemoveKeeps, UnmapImageKeeps
<1>4. CASE Jit
  BY <1>4, JitKeeps
<1>5. CASE UNCHANGED vars
  BY <1>5, DyldStutter
<1> QED
  BY <1>1, <1>2, <1>3, <1>4, <1>5 DEF Next

(* Once init_callbacks has returned, the published modules are those of the
   mapped images whenever dyld is between two events (macos_begin_batch,
   macos_end_batch, on_add_image and on_remove_image), at every key that was
   not unloaded between the two registrations. *)
THEOREM DyldMirrored == Spec => []MirrorsDyld
<1>1. DyldInv => MirrorsDyld
  BY DEF DyldInv, AllAt, ShownOK, MirrorsDyld, ReflectsAt, Shown, Held
<1> QED
  BY <1>1, InitDyld, NextDyld, PTL DEF Spec

(* The module of an image is published only while dyld has the image mapped:
   macos_remove_image publishes before the remove callback returns, and no
   module is left behind in pending or published late by macos_end_batch. *)
THEOREM PublishedStaysMapped == Spec => []PublishedIsMapped
<1>1. DyldInv => PublishedIsMapped
  BY DEF DyldInv, AllAt, ShownOK, PublishedIsMapped, Shown, Held
<1> QED
  BY <1>1, InitDyld, NextDyld, PTL DEF Spec

=============================================================================
