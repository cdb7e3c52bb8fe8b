------------------------ MODULE StaticRefreshProofs -------------------------
(***************************************************************************)
(* Proofs about JitRegistry and StaticRefresh, for any number of keys,     *)
(* .eh_frame buffers, images, loads and unloads, with and without the      *)
(* loader's counts, on ELF and on Windows.  With the loader, the           *)
(* hypotheses are that fingerprints distinguish images and that images and *)
(* JIT code have different start addresses.                                *)
(*                                                                         *)
(* The invariant has three parts.  The published static modules are those  *)
(* of the images static_mods records (Recorded).  A scan in progress agrees *)
(* with the loader at every key the loader left alone (ScanAgrees), and if  *)
(* the counts read before it are still the loader's, that is every key.    *)
(* The recorded counts were the loader's, and if they still are the        *)
(* published modules are exact (CountsAgree).                              *)
(***************************************************************************)
EXTENDS StaticRefresh, TLAPS

-----------------------------------------------------------------------------
(* The registry alone.  Its three properties need each other: a removal by *)
(* .eh_frame address removes the right module because the maps are         *)
(* inverse, and the list has one module per key because a re-registration  *)
(* removes the old one.  The invariant adds that no image is published at  *)
(* a JIT key, without which remove_module could take the wrong one of two  *)
(* modules with one start.                                                 *)

(* No image module shares a JIT key. *)
JitKeysFree == \A k \in JitKeys, i \in Images : unw[k][i] = 0

(* JitPublished, key by key. *)
NoneAt(k) == \A e \in EhFrames : unw[k][e] = 0
OnlyAt(k, e) == unw[k][e] = 1 /\ \A f \in EhFrames \ {e} : unw[k][f] = 0
OnePerKey ==
  /\ \A k \in Keys \ jit_keys : NoneAt(k)
  /\ \A k \in jit_keys : \E e \in EhFrames : OnlyAt(k, e)

JitInv ==
  RegistryTypeOK /\ EhFrameMapsInverse /\ OnePerKey /\ HandleNamesItsModule /\ JitKeysFree

Cleared == [m \in Mods |-> 0]

LEMMA OnePerKeyPublishes ==
  ASSUME RegistryTypeOK, OnePerKey
  PROVE  JitPublished
<1> SUFFICES ASSUME NEW k \in Keys
             PROVE  LET here == {e \in EhFrames : unw[k][e] > 0}
                    IN  IF k \in jit_keys THEN \E e \in EhFrames : here = {e} /\ unw[k][e] = 1
                        ELSE here = {}
  BY DEF JitPublished
<1> DEFINE here == {e \in EhFrames : unw[k][e] > 0}
<1>1. CASE k \notin jit_keys
  BY <1>1 DEF OnePerKey, NoneAt
<1>2. CASE k \in jit_keys
  <2>1. PICK e \in EhFrames : OnlyAt(k, e)
    BY <1>2 DEF OnePerKey
  <2>2. here = {e} /\ unw[k][e] = 1
    BY <2>1 DEF OnlyAt
  <2>3. QED
    BY <1>2, <2>2
<1>3. QED
  BY <1>1, <1>2

(* Removing the one module at a key leaves none. *)
LEMMA RemoveOnly ==
  ASSUME RegistryTypeOK, JitKeysFree, NEW k \in JitKeys, NEW e \in EhFrames, OnlyAt(k, e)
  PROVE  remove_module(unw[k]) = {Cleared}
<1>1. unw[k] \in [Mods -> Nat] /\ e \in Mods
  BY RegistryAssumption DEF RegistryTypeOK, Mods
<1>2. \A m \in Mods \ {e} : unw[k][m] = 0
  BY DEF OnlyAt, JitKeysFree, Mods
<1>3. unw[k][e] = 1
  BY DEF OnlyAt
<1>4. {m \in Mods : unw[k][m] > 0} = {e}
  BY <1>1, <1>2, <1>3
<1>5. [unw[k] EXCEPT ![e] = @ - 1] = Cleared
  BY <1>1, <1>2, <1>3 DEF Cleared
<1>6. remove_module(unw[k]) = {[unw[k] EXCEPT ![m] = @ - 1] : m \in {e}}
  BY <1>4 DEF remove_module
<1>7. QED
  BY <1>5, <1>6

(* A registration leaves exactly the new module at its key. *)
LEMMA RegisterEffect ==
  ASSUME JitInv, NEW k \in JitKeys, NEW e \in EhFrames, RegisterJit(k, e)
  PROVE  unw' = [unw EXCEPT ![k] = [Cleared EXCEPT ![e] = 1]]
<1>a. RegistryTypeOK /\ OnePerKey /\ JitKeysFree /\ k \in Keys /\ e \in Mods
  BY RegistryAssumption DEF JitInv, Mods
<1>1. PICK b \in (IF k \in jit_keys THEN remove_module(unw[k]) ELSE {unw[k]}) :
        unw' = [unw EXCEPT ![k] = add_module(b, e)]
  BY DEF RegisterJit, add_jit_module
<1>2. b = Cleared
  <2>1. CASE k \in jit_keys
    <3>1. PICK f \in EhFrames : OnlyAt(k, f)
      BY <2>1, <1>a DEF OnePerKey
    <3>2. QED
      BY <2>1, <3>1, <1>1, <1>a, RemoveOnly
  <2>2. CASE k \notin jit_keys
    <3>1. unw[k] \in [Mods -> Nat] /\ \A m \in Mods : unw[k][m] = 0
      BY <2>2, <1>a DEF RegistryTypeOK, OnePerKey, NoneAt, JitKeysFree, Mods
    <3>2. unw[k] = Cleared
      BY <3>1 DEF Cleared
    <3>3. QED
      BY <2>2, <1>1, <3>2
  <2>3. QED
    BY <2>1, <2>2
<1>3. add_module(Cleared, e) = [Cleared EXCEPT ![e] = 1]
  BY <1>a DEF add_module, Cleared
<1>4. QED
  BY <1>1, <1>2, <1>3

(* A removal leaves no module at its key. *)
LEMMA RemoveEffect ==
  ASSUME JitInv, NEW k \in Keys, remove_jit_locked(k)
  PROVE  unw' = [unw EXCEPT ![k] = Cleared]
<1>1. k \in jit_keys /\ k \in JitKeys
  BY DEF remove_jit_locked, JitInv, RegistryTypeOK
<1>2. PICK e \in EhFrames : OnlyAt(k, e)
  BY <1>1 DEF JitInv, OnePerKey
<1>3. remove_module(unw[k]) = {Cleared}
  BY <1>1, <1>2, RemoveOnly DEF JitInv
<1>4. QED
  BY <1>3 DEF remove_jit_locked

LEMMA InitJit == RegistryInit => JitInv
<1> SUFFICES ASSUME RegistryInit PROVE JitInv
  OBVIOUS
<1>1. RegistryTypeOK
  BY DEF RegistryInit, RegistryTypeOK
<1>2. EhFrameMapsInverse
  BY RegistryAssumption DEF RegistryInit, EhFrameMapsInverse, Mods
<1>3. OnePerKey /\ JitKeysFree
  BY RegistryAssumption DEF RegistryInit, OnePerKey, NoneAt, JitKeysFree, Mods
<1>4. HandleNamesItsModule
  BY DEF RegistryInit, HandleNamesItsModule
<1>5. QED
  BY <1>1, <1>2, <1>3, <1>4 DEF JitInv

LEMMA RegisterKeeps ==
  ASSUME JitInv, NEW k \in JitKeys, NEW e \in EhFrames, RegisterJit(k, e)
  PROVE  JitInv'
<1> DEFINE by_eh == forget_jit_eh_frame(k)
<1>a. /\ RegistryTypeOK /\ EhFrameMapsInverse /\ OnePerKey /\ HandleNamesItsModule
      /\ JitKeysFree /\ k \in Keys /\ e \in Mods
  BY RegistryAssumption DEF JitInv, Mods
<1>b. Cleared \in [Mods -> Nat] /\ \A m \in Mods : Cleared[m] = 0
  BY DEF Cleared
<1>c. unw' = [unw EXCEPT ![k] = [Cleared EXCEPT ![e] = 1]]
  BY RegisterEffect
<1>d. /\ jit_keys' = jit_keys \cup {k}
      /\ jit_by_eh_frame' = [by_eh EXCEPT ![e] = k]
      /\ jit_eh_frame_by_key' =
           [q \in Keys |-> IF q = k THEN e ELSE IF by_eh[e] = q THEN None
                           ELSE jit_eh_frame_by_key[q]]
  BY DEF RegisterJit, add_jit_module
<1>e. \A q \in Keys : q # None
  BY RegistryAssumption
<1>f. \A f \in EhFrames : f # None
  BY RegistryAssumption DEF Mods
<1>g. /\ by_eh \in [EhFrames -> Keys \cup {None}]
      /\ \A f \in EhFrames : by_eh[f] = IF jit_by_eh_frame[f] = k THEN None ELSE jit_by_eh_frame[f]
  BY <1>a, <1>e, <1>f DEF forget_jit_eh_frame, RegistryTypeOK, EhFrameMapsInverse
<1> HIDE DEF by_eh
<1>1. RegistryTypeOK'
  <2>1. unw' \in [Keys -> [Mods -> Nat]]
    BY <1>a, <1>b, <1>c DEF RegistryTypeOK
  <2>2. jit_keys' \subseteq JitKeys
    BY <1>a, <1>d DEF RegistryTypeOK
  <2>3. jit_by_eh_frame' \in [EhFrames -> Keys \cup {None}]
    BY <1>a, <1>d, <1>g
  <2>4. jit_eh_frame_by_key' \in [Keys -> EhFrames \cup {None}]
    BY <1>a, <1>d DEF RegistryTypeOK
  <2>5. QED
    BY <2>1, <2>2, <2>3, <2>4 DEF RegistryTypeOK
<1>2. \A f \in EhFrames : jit_by_eh_frame'[f] = IF f = e THEN k ELSE by_eh[f]
  BY <1>d, <1>g
<1>3. EhFrameMapsInverse'
  <2>1. ASSUME NEW q \in Keys, NEW f \in EhFrames
        PROVE  jit_by_eh_frame'[f] = q <=> jit_eh_frame_by_key'[q] = f
    <3>1. jit_by_eh_frame[f] = q <=> jit_eh_frame_by_key[q] = f
      BY <2>1, <1>a DEF EhFrameMapsInverse
    <3>2. jit_by_eh_frame[e] = q <=> jit_eh_frame_by_key[q] = e
      BY <2>1, <1>a DEF EhFrameMapsInverse
    <3>3. jit_eh_frame_by_key'[q] = IF q = k THEN e ELSE IF by_eh[e] = q THEN None
                                    ELSE jit_eh_frame_by_key[q]
      BY <1>d
    <3>4. QED
      BY <3>1, <3>2, <3>3, <1>2, <1>e, <1>f, <1>g
  <2>2. ASSUME NEW q \in Keys, jit_eh_frame_by_key'[q] # None PROVE q \in jit_keys'
    BY <2>2, <1>a, <1>d DEF EhFrameMapsInverse
  <2>3. QED
    BY <2>1, <2>2 DEF EhFrameMapsInverse
<1>4. OnePerKey'
  <2>1. ASSUME NEW q \in Keys \ jit_keys', NEW f \in EhFrames PROVE unw'[q][f] = 0
    BY <2>1, <1>a, <1>c, <1>d DEF OnePerKey, NoneAt
  <2>2. ASSUME NEW q \in jit_keys' PROVE \E f \in EhFrames : OnlyAt(q, f)'
    <3>1. CASE q = k
      <4>1. unw'[k][e] = 1 /\ \A f \in EhFrames \ {e} : unw'[k][f] = 0
        BY <1>a, <1>b, <1>c DEF RegistryTypeOK, Mods
      <4>2. QED
        BY <3>1, <4>1 DEF OnlyAt
    <3>2. CASE q # k
      <4>1. q \in jit_keys /\ q \in Keys
        BY <3>2, <1>a, <1>d, RegistryAssumption DEF RegistryTypeOK
      <4>2. unw'[q] = unw[q]
        BY <3>2, <4>1, <1>a, <1>c DEF RegistryTypeOK
      <4>3. QED
        BY <4>1, <4>2, <1>a DEF OnePerKey, OnlyAt
    <3>3. QED
      BY <3>1, <3>2
  <2>3. QED
    BY <2>1, <2>2 DEF OnePerKey, NoneAt
<1>5. HandleNamesItsModule'
  <2> SUFFICES ASSUME NEW f \in EhFrames, jit_by_eh_frame'[f] # None
               PROVE  unw'[jit_by_eh_frame'[f]][f] = 1
    BY DEF HandleNamesItsModule
  <2>1. CASE f = e
    BY <2>1, <1>2, <1>a, <1>b, <1>c DEF RegistryTypeOK
  <2>2. CASE f # e
    <3>1. jit_by_eh_frame'[f] = jit_by_eh_frame[f] /\ jit_by_eh_frame[f] # k
      BY <2>2, <1>2, <1>g
    <3>2. jit_by_eh_frame[f] \in Keys
      BY <3>1, <1>a DEF RegistryTypeOK
    <3>3. QED
      BY <3>1, <3>2, <1>a, <1>c DEF HandleNamesItsModule, RegistryTypeOK
  <2>3. QED
    BY <2>1, <2>2
<1>6. JitKeysFree'
  <2> SUFFICES ASSUME NEW q \in JitKeys, NEW i \in Images PROVE unw'[q][i] = 0
    BY DEF JitKeysFree
  <2>1. q \in Keys /\ i # e /\ i \in Mods
    BY RegistryAssumption DEF Mods
  <2>2. CASE q = k
    BY <2>1, <2>2, <1>a, <1>b, <1>c DEF RegistryTypeOK
  <2>3. CASE q # k
    BY <2>1, <2>3, <1>a, <1>c DEF RegistryTypeOK, JitKeysFree
  <2>4. QED
    BY <2>2, <2>3
<1>7. QED
  BY <1>1, <1>3, <1>4, <1>5, <1>6 DEF JitInv

LEMMA RemoveKeeps ==
  ASSUME JitInv, NEW k \in Keys, remove_jit_locked(k)
  PROVE  JitInv'
<1>a. /\ RegistryTypeOK /\ EhFrameMapsInverse /\ OnePerKey /\ HandleNamesItsModule
      /\ JitKeysFree
  BY DEF JitInv
<1>b. Cleared \in [Mods -> Nat] /\ \A m \in Mods : Cleared[m] = 0
  BY DEF Cleared
<1>c. unw' = [unw EXCEPT ![k] = Cleared]
  BY RemoveEffect
<1>d. /\ jit_keys' = jit_keys \ {k}
      /\ jit_by_eh_frame' = forget_jit_eh_frame(k)
      /\ jit_eh_frame_by_key' = [jit_eh_frame_by_key EXCEPT ![k] = None]
  BY DEF remove_jit_locked
<1>e. (\A q \in Keys : q # None) /\ (\A f \in EhFrames : f # None)
  BY RegistryAssumption DEF Mods
<1>g. /\ jit_by_eh_frame' \in [EhFrames -> Keys \cup {None}]
      /\ \A f \in EhFrames :
           jit_by_eh_frame'[f] = IF jit_by_eh_frame[f] = k THEN None ELSE jit_by_eh_frame[f]
  BY <1>a, <1>d, <1>e DEF forget_jit_eh_frame, RegistryTypeOK, EhFrameMapsInverse
<1>1. RegistryTypeOK'
  BY <1>a, <1>b, <1>c, <1>d, <1>g DEF RegistryTypeOK
<1>2. EhFrameMapsInverse'
  <2>1. ASSUME NEW q \in Keys, NEW f \in EhFrames
        PROVE  jit_by_eh_frame'[f] = q <=> jit_eh_frame_by_key'[q] = f
    BY <2>1, <1>a, <1>d, <1>e, <1>g DEF EhFrameMapsInverse, RegistryTypeOK
  <2>2. ASSUME NEW q \in Keys, jit_eh_frame_by_key'[q] # None PROVE q \in jit_keys'
    BY <2>2, <1>a, <1>d DEF EhFrameMapsInverse, RegistryTypeOK
  <2>3. QED
    BY <2>1, <2>2 DEF EhFrameMapsInverse
<1>3. OnePerKey'
  <2>1. ASSUME NEW q \in Keys \ jit_keys', NEW f \in EhFrames PROVE unw'[q][f] = 0
    BY <2>1, <1>a, <1>b, <1>c, <1>d DEF OnePerKey, NoneAt, RegistryTypeOK, Mods
  <2>2. ASSUME NEW q \in jit_keys' PROVE \E f \in EhFrames : OnlyAt(q, f)'
    <3>1. q \in jit_keys /\ q \in Keys /\ q # k
      BY <2>2, <1>a, <1>d, RegistryAssumption DEF RegistryTypeOK
    <3>2. unw'[q] = unw[q]
      BY <3>1, <1>a, <1>c DEF RegistryTypeOK
    <3>3. QED
      BY <3>1, <3>2, <1>a DEF OnePerKey, OnlyAt
  <2>3. QED
    BY <2>1, <2>2 DEF OnePerKey, NoneAt
<1>4. HandleNamesItsModule'
  BY <1>a, <1>c, <1>g DEF HandleNamesItsModule, RegistryTypeOK
<1>5. JitKeysFree'
  BY <1>a, <1>b, <1>c, RegistryAssumption DEF JitKeysFree, RegistryTypeOK, Mods
<1>6. QED
  BY <1>1, <1>2, <1>3, <1>4, <1>5 DEF JitInv

(* What the registry variables alone determine is kept when they stay. *)
LEMMA RegistryStutter ==
  ASSUME JitInv, UNCHANGED <<unw, jitVars>> PROVE JitInv'
BY DEF jitVars, JitInv, RegistryTypeOK, EhFrameMapsInverse, OnePerKey, NoneAt, OnlyAt,
       HandleNamesItsModule, JitKeysFree

LEMMA ByEhFrameKeeps ==
  ASSUME JitInv, NEW e \in EhFrames, remove_jit_module_by_eh_frame(e)
  PROVE  JitInv'
BY RemoveKeeps DEF remove_jit_module_by_eh_frame, JitInv, RegistryTypeOK

LEMMA NextJit == JitInv /\ [JitNext]_registryVars => JitInv'
<1> SUFFICES ASSUME JitInv, [JitNext]_registryVars PROVE JitInv'
  OBVIOUS
<1>1. ASSUME NEW k \in JitKeys, NEW e \in EhFrames, RegisterJit(k, e) PROVE JitInv'
  BY <1>1, RegisterKeeps
<1>2. ASSUME NEW k \in Keys, remove_jit_module(k) PROVE JitInv'
  BY <1>2, RemoveKeeps DEF remove_jit_module
<1>3. ASSUME NEW e \in EhFrames, remove_jit_module_by_eh_frame(e) PROVE JitInv'
  BY <1>3, ByEhFrameKeeps
<1>4. CASE UNCHANGED registryVars
  BY <1>4, RegistryStutter DEF registryVars
<1>5. QED
  BY <1>1, <1>2, <1>3, <1>4 DEF JitNext

(* Whatever sequence of registrations, re-registrations, reused buffers and
   removals: the two .eh_frame maps of the registry are inverse, the snapshot
   has one module per registered key, and a removal by .eh_frame address names
   the module built from that buffer (add_jit_module, remove_jit_locked,
   forget_jit_eh_frame). *)
THEOREM JitRegistryCorrect ==
  JitSpec => [](EhFrameMapsInverse /\ JitPublished /\ HandleNamesItsModule)
<1>1. JitInv => EhFrameMapsInverse /\ JitPublished /\ HandleNamesItsModule
  BY OnePerKeyPublishes DEF JitInv
<1>2. QED
  BY InitJit, NextJit, <1>1, PTL DEF JitSpec

-----------------------------------------------------------------------------
(* The registry, the loader and the refreshes.                             *)

Hyp == FingerprintsDistinguish /\ KeysDisjoint

(* The modules published at a key for image c; none for None. *)
Shown(c) == [m \in Mods |-> IF m = c /\ c \in Unwindable THEN 1 ELSE 0]

(* At a key of an image, static_mods and the published modules go together. *)
Recorded ==
  \A k \in StaticKeys : \E c \in Images \cup {None} :
    static_mods[k] = fingerprint_of(c) /\ unw[k] = Shown(c)

(* Nothing static happens at the other keys. *)
Elsewhere ==
  \A k \in Keys \ StaticKeys :
    /\ static_mods[k] = None /\ loaded[k] = None /\ current[k] = None
    /\ \A i \in Images : unw[k][i] = 0

(* The counts of a refresh in progress are the loader's only if the loader
   did nothing since it began. *)
ScanAgrees ==
  /\ rpc # "idle" /\ counts = <<adds, subs>> => stable = Keys
  /\ ~Counted => counts = None
  /\ rpc = "pin" => ~Counted
  /\ rpc = "pin" => \A k \in stable \ handles : current[k] = loaded[k]
  /\ rpc = "publish" => \A k \in stable : current[k] = loaded[k]

Past(c) == c # None => c[1] <= adds /\ c[2] <= subs

CountsAgree ==
  /\ Past(load_counts) /\ Past(counts)
  /\ load_counts = <<adds, subs>> => \A k \in Keys : ReflectsAt(k)

RefreshInv == Hyp /\ TypeOK /\ JitInv /\ Recorded /\ Elsewhere /\ ScanAgrees /\ CountsAgree

-----------------------------------------------------------------------------
(* Publishing a scan.                                                      *)

LEMMA ConstantFacts ==
  /\ StaticKeys \subseteq Keys /\ Unwindable \subseteq Images /\ Images \subseteq Mods
  /\ None \notin Mods /\ None \notin Keys
  /\ \A i \in Images : fingerprint_of(i) = Fingerprint[i] /\ fingerprint_of(i) # None
  /\ fingerprint_of(None) = None
  /\ None \notin Nat \X Nat
BY RegistryAssumption, RefreshAssumption DEF Mods, fingerprint_of

LEMMA ShownFacts ==
  ASSUME NEW c \in Images \cup {None}
  PROVE  /\ Shown(c) \in [Mods -> Nat]
         /\ remove_module(Shown(c)) = {Cleared}
         /\ c \notin Unwindable => Shown(c) = Cleared
         /\ c \in Unwindable => add_module(Cleared, c) = Shown(c)
<1>1. Shown(c) \in [Mods -> Nat]
  BY DEF Shown
<1>2. ASSUME c \notin Unwindable PROVE Shown(c) = Cleared
  BY <1>2 DEF Shown, Cleared
<1>3. ASSUME c \in Unwindable PROVE add_module(Cleared, c) = Shown(c)
  BY <1>3, ConstantFacts DEF Shown, Cleared, add_module
<1>4. remove_module(Shown(c)) = {Cleared}
  <2>1. CASE c \in Unwindable
    <3>1. {m \in Mods : Shown(c)[m] > 0} = {c}
      BY <2>1, ConstantFacts DEF Shown
    <3>2. [Shown(c) EXCEPT ![c] = @ - 1] = Cleared
      BY <2>1, ConstantFacts DEF Shown, Cleared
    <3>3. remove_module(Shown(c)) = {[Shown(c) EXCEPT ![m] = @ - 1] : m \in {c}}
      BY <3>1 DEF remove_module
    <3>4. QED
      BY <3>2, <3>3
  <2>2. CASE c \notin Unwindable
    <3>1. {m \in Mods : Shown(c)[m] > 0} = {}
      BY <2>2 DEF Shown
    <3>2. remove_module(Shown(c)) = {Shown(c)}
      BY <3>1 DEF remove_module
    <3>3. QED
      BY <3>2, <1>2, <2>2
  <2>3. QED
    BY <2>1, <2>2
<1>5. QED
  BY <1>1, <1>2, <1>3, <1>4

(* Whatever was published at an image's key, the rebuilt modules there are
   those of the image the scan found. *)
LEMMA RebuiltShows ==
  ASSUME Hyp, TypeOK, Recorded, NEW k \in StaticKeys, k \notin jit_keys
  PROVE  Rebuilt(k) = {Shown(current[k])}
<1> DEFINE c == current[k]
           dropped == IF k \in changed_keys THEN remove_module(unw[k]) ELSE {unw[k]}
           added   == {IF k \in new_modules THEN add_module(b, c) ELSE b : b \in dropped}
<1>1. k \in Keys /\ c \in Images \cup {None}
  BY ConstantFacts DEF TypeOK
<1>2. PICK d \in Images \cup {None} : static_mods[k] = fingerprint_of(d) /\ unw[k] = Shown(d)
  BY DEF Recorded
<1>3. Rebuilt(k) = IF k \in removed_keys \ jit_keys THEN UNION {remove_module(b) : b \in added}
                   ELSE added
  BY DEF Rebuilt
<1>4. c = d <=> fingerprint_of(c) = static_mods[k]
  BY <1>1, <1>2, ConstantFacts DEF Hyp, FingerprintsDistinguish
<1>5. /\ k \in changed_keys <=> d # None /\ c # None /\ c # d
      /\ k \in removed_keys <=> d # None /\ c = None
      /\ k \in new_modules  <=> c \in Unwindable /\ c # d
  <2>1. static_mods[k] = None <=> d = None
    BY <1>2, ConstantFacts
  <2>2. QED
    BY <2>1, <1>1, <1>4 DEF changed_keys, removed_keys, new_modules
<1>6. remove_module(Shown(d)) = {Cleared}
  BY ShownFacts
<1>7. CASE c = d
  <2>1. dropped = {Shown(d)}
    BY <1>2, <1>5, <1>7
  <2>2. added = {Shown(d)}
    BY <2>1, <1>5, <1>7
  <2>3. QED
    BY <2>2, <1>3, <1>5, <1>7
<1>8. CASE c # d /\ c = None
  <2>1. dropped = {Shown(d)}
    BY <1>2, <1>5, <1>8
  <2>2. added = {Shown(d)}
    BY <2>1, <1>5, <1>8, ConstantFacts
  <2>3. Rebuilt(k) = UNION {remove_module(b) : b \in {Shown(d)}}
    BY <2>2, <1>3, <1>5, <1>8
  <2>4. Rebuilt(k) = {Cleared}
    BY <2>3, <1>6
  <2>5. QED
    BY <2>4, <1>8, ShownFacts, ConstantFacts
<1>9. CASE c # d /\ c # None
  <2>1. dropped = {Cleared}
    <3>1. CASE d # None
      BY <3>1, <1>2, <1>5, <1>6, <1>9
    <3>2. CASE d = None
      BY <3>2, <1>2, <1>5, ShownFacts, ConstantFacts
    <3>3. QED
      BY <3>1, <3>2
  <2>2. Rebuilt(k) = added
    BY <1>3, <1>5, <1>9
  <2>3. added = {Shown(c)}
    <3>1. CASE c \in Unwindable
      BY <3>1, <2>1, <1>1, <1>5, <1>9, ShownFacts
    <3>2. CASE c \notin Unwindable
      BY <3>2, <2>1, <1>1, <1>5, ShownFacts
    <3>3. QED
      BY <3>1, <3>2
  <2>4. QED
    BY <2>2, <2>3
<1>10. QED
  BY <1>7, <1>8, <1>9

(* At any other key nothing is rebuilt. *)
LEMMA RebuiltElsewhere ==
  ASSUME Elsewhere, NEW k \in Keys \ StaticKeys
  PROVE  Rebuilt(k) = {unw[k]}
<1>1. static_mods[k] = None /\ current[k] = None
  BY DEF Elsewhere
<1>2. k \notin changed_keys /\ k \notin removed_keys /\ k \notin new_modules
  BY <1>1, ConstantFacts DEF changed_keys, removed_keys, new_modules
<1>3. QED
  BY <1>2 DEF Rebuilt

(* After PublishScan the static modules are those of the scan, whether or not
   it had anything to publish. *)
LEMMA PublishShows ==
  ASSUME RefreshInv, PublishScan
  PROVE  /\ \A k \in StaticKeys : unw'[k] = Shown(current[k])
         /\ \A k \in Keys \ StaticKeys : unw'[k] = unw[k]
         /\ unw' \in [Keys -> [Mods -> Nat]]
<1>a. Hyp /\ TypeOK /\ JitInv /\ Recorded /\ Elsewhere
  BY DEF RefreshInv
<1>b. \A k \in StaticKeys : k \in Keys /\ k \notin jit_keys /\ current[k] \in Images \cup {None}
  BY <1>a, ConstantFacts DEF TypeOK, RegistryTypeOK, Hyp, KeysDisjoint
<1>c. \A k \in StaticKeys : Rebuilt(k) = {Shown(current[k])}
  BY <1>a, <1>b, RebuiltShows
<1>d. \A k \in Keys \ StaticKeys : Rebuilt(k) = {unw[k]}
  BY <1>a, RebuiltElsewhere
<1>1. CASE new_modules = {} /\ removed_keys = {} /\ changed_keys = {}
  <2>1. unw' = unw
    BY <1>1 DEF PublishScan
  <2>2. \A k \in Keys : Rebuilt(k) = {unw[k]}
    BY <1>1 DEF Rebuilt
  <2>3. \A k \in StaticKeys : unw[k] = Shown(current[k])
    BY <2>2, <1>b, <1>c
  <2>4. QED
    BY <2>1, <2>3, <1>a DEF TypeOK, RegistryTypeOK
<1>2. CASE ~(new_modules = {} /\ removed_keys = {} /\ changed_keys = {})
  <2>1. /\ unw' \in [Keys -> UNION {Rebuilt(k) : k \in Keys}]
        /\ \A k \in Keys : unw'[k] \in Rebuilt(k)
    BY <1>2 DEF PublishScan
  <2>2. \A k \in Keys : unw'[k] \in [Mods -> Nat]
    <3>1. ASSUME NEW k \in StaticKeys PROVE unw'[k] \in [Mods -> Nat]
      BY <2>1, <1>b, <1>c, ShownFacts
    <3>2. ASSUME NEW k \in Keys \ StaticKeys PROVE unw'[k] \in [Mods -> Nat]
      BY <2>1, <1>a, <1>d DEF TypeOK, RegistryTypeOK
    <3>3. QED
      BY <3>1, <3>2
  <2>3. unw' = [k \in Keys |-> unw'[k]]
    BY <2>1
  <2>4. unw' \in [Keys -> [Mods -> Nat]]
    BY <2>2, <2>3
  <2>5. QED
    BY <2>1, <2>4, <1>b, <1>c, <1>d
<1>3. QED
  BY <1>1, <1>2

(* A key whose scan result is the loaded image reflects it after PublishScan. *)
LEMMA PublishReflects ==
  ASSUME RefreshInv, PublishScan, NEW k \in Keys, current[k] = loaded[k]
  PROVE  ReflectsAt(k)'
<1>1. loaded' = loaded
  BY DEF PublishScan, loaderVars
<1>2. CASE k \in StaticKeys
  <2>1. unw'[k] = Shown(current[k])
    BY <1>2, PublishShows
  <2>2. \A i \in Images : Shown(current[k])[i] = IF current[k] = i /\ i \in Unwindable THEN 1 ELSE 0
    BY ConstantFacts DEF Shown
  <2>3. QED
    BY <1>1, <2>1, <2>2 DEF ReflectsAt
<1>3. CASE k \notin StaticKeys
  <2>1. unw'[k] = unw[k] /\ loaded[k] = None /\ \A i \in Images : unw[k][i] = 0
    BY <1>3, PublishShows DEF RefreshInv, Elsewhere
  <2>2. \A i \in Images : i # None
    BY ConstantFacts
  <2>3. QED
    BY <1>1, <2>1, <2>2 DEF ReflectsAt
<1>4. QED
  BY <1>2, <1>3

-----------------------------------------------------------------------------
(* Each kind of step keeps the invariant.                                  *)

LEMMA InitRefresh == Hyp /\ Init => RefreshInv
<1> SUFFICES ASSUME Hyp, Init PROVE RefreshInv
  OBVIOUS
<1> USE DEF Init
<1>1. JitInv
  BY InitJit
<1>2. TypeOK
  BY <1>1 DEF JitInv, TypeOK, RegistryInit
<1>3. Shown(None) = Cleared
  BY ShownFacts, ConstantFacts
<1>4. Recorded
  <2>1. \A k \in StaticKeys : static_mods[k] = fingerprint_of(None) /\ unw[k] = Shown(None)
    BY <1>3, ConstantFacts DEF RegistryInit, Cleared
  <2>2. QED
    BY <2>1 DEF Recorded
<1>5. Elsewhere
  BY ConstantFacts DEF Elsewhere, RegistryInit
<1>6. ScanAgrees
  BY DEF ScanAgrees
<1>7. CountsAgree
  <2>1. \A k \in Keys, i \in Images : unw[k][i] = 0 /\ loaded[k] = None /\ i # None
    BY ConstantFacts DEF RegistryInit
  <2>2. \A k \in Keys : ReflectsAt(k)
    BY <2>1 DEF ReflectsAt
  <2>3. QED
    BY <2>2 DEF CountsAgree, Past
<1>8. QED
  BY <1>1, <1>2, <1>4, <1>5, <1>6, <1>7 DEF RefreshInv

(* The loader changes one key and one count, which no count read before it
   can equal. *)
LEMMA LoaderKeeps ==
  ASSUME RefreshInv, NEW k \in StaticKeys,
         loaded' \in [Keys -> Images \cup {None}],
         \A q \in Keys \ {k} : loaded'[q] = loaded[q],
         \/ adds' = adds + 1 /\ subs' = subs
         \/ adds' = adds /\ subs' = subs + 1,
         stable' = stable \ {k}, UNCHANGED <<registryVars, refreshVars>>
  PROVE  RefreshInv'
<1> USE DEF registryVars, refreshVars
<1>a. Hyp /\ TypeOK /\ JitInv /\ Recorded /\ Elsewhere /\ ScanAgrees /\ CountsAgree
  BY DEF RefreshInv
<1>1. Hyp'
  BY <1>a DEF Hyp, FingerprintsDistinguish, KeysDisjoint
<1>2. JitInv'
  BY <1>a, RegistryStutter
<1>3. TypeOK'
  BY <1>2, <1>a DEF JitInv, TypeOK
<1>4. Recorded'
  BY <1>a DEF Recorded
<1>5. Elsewhere'
  BY <1>a DEF Elsewhere
<1>6. /\ Past(load_counts)' /\ Past(counts)'
      /\ load_counts' # <<adds', subs'>> /\ counts' # <<adds', subs'>>
  <2>1. ASSUME NEW c \in (Nat \X Nat) \cup {None}, Past(c)
        PROVE  Past(c)' /\ c # <<adds', subs'>>
    <3>1. adds \in Nat /\ subs \in Nat /\ adds' \in Nat /\ subs' \in Nat
      BY <1>a, <1>3 DEF TypeOK
    <3>2. CASE c = None
      BY <2>1, <3>1, <3>2, ConstantFacts DEF Past
    <3>3. CASE c \in Nat \X Nat
      <4>1. c[1] \in Nat /\ c[2] \in Nat /\ c[1] <= adds /\ c[2] <= subs
        BY <2>1, <3>3, ConstantFacts DEF Past
      <4>2. c[1] <= adds' /\ c[2] <= subs' /\ ~(c[1] = adds' /\ c[2] = subs')
        BY <4>1, <3>1
      <4>3. QED
        BY <4>2 DEF Past
    <3>4. QED
      BY <3>2, <3>3
  <2>2. /\ load_counts \in (Nat \X Nat) \cup {None} /\ Past(load_counts)
        /\ counts \in (Nat \X Nat) \cup {None} /\ Past(counts)
    BY <1>a DEF CountsAgree, TypeOK
  <2>3. \A c \in (Nat \X Nat) \cup {None} :
          Past(c) => (c # None => c[1] <= adds' /\ c[2] <= subs') /\ c # <<adds', subs'>>
    BY <2>1 DEF Past
  <2>4. QED
    BY <2>2, <2>3 DEF Past
<1>7. CountsAgree'
  BY <1>6 DEF CountsAgree
<1>8. ScanAgrees'
  <2>1. rpc' = "pin" => \A q \in stable' \ handles' : current'[q] = loaded'[q]
    BY <1>a DEF ScanAgrees, TypeOK
  <2>2. rpc' = "publish" => \A q \in stable' : current'[q] = loaded'[q]
    BY <1>a DEF ScanAgrees, TypeOK
  <2>3. QED
    BY <1>6, <1>a, <2>1, <2>2 DEF ScanAgrees
<1>9. QED
  BY <1>1, <1>2, <1>3, <1>4, <1>5, <1>7, <1>8 DEF RefreshInv

(* Registrations of JIT code leave the modules of images alone. *)
LEMMA JitEffect ==
  ASSUME RefreshInv, Jit
  PROVE  /\ JitInv' /\ UNCHANGED <<static_mods, loaderVars, refreshVars>>
         /\ \A k \in StaticKeys : unw'[k] = unw[k]
         /\ \A k \in Keys, i \in Images : unw'[k][i] = unw[k][i]
<1>a. JitInv /\ KeysDisjoint /\ unw \in [Keys -> [Mods -> Nat]] /\ JitKeysFree
  BY DEF RefreshInv, Hyp, JitInv, RegistryTypeOK
<1>b. ASSUME NEW k \in JitKeys, NEW b \in [Mods -> Nat], \A i \in Images : b[i] = 0,
             unw' = [unw EXCEPT ![k] = b]
      PROVE  /\ \A q \in StaticKeys : unw'[q] = unw[q]
             /\ \A q \in Keys, i \in Images : unw'[q][i] = unw[q][i]
  <2>1. k \in Keys /\ k \notin StaticKeys
    BY <1>a, RegistryAssumption DEF KeysDisjoint
  <2>2. \A q \in Keys : unw'[q] = IF q = k THEN b ELSE unw[q]
    BY <1>a, <1>b
  <2>3. QED
    BY <2>1, <2>2, <1>a, <1>b, ConstantFacts DEF JitKeysFree
<1>c. Cleared \in [Mods -> Nat] /\ \A i \in Images : Cleared[i] = 0
  BY ConstantFacts DEF Cleared
<1>1. ASSUME NEW k \in JitKeys, NEW e \in EhFrames, RegisterJit(k, e)
      PROVE  /\ JitInv' /\ UNCHANGED static_mods
             /\ \A q \in StaticKeys : unw'[q] = unw[q]
             /\ \A q \in Keys, i \in Images : unw'[q][i] = unw[q][i]
  <2>1. unw' = [unw EXCEPT ![k] = [Cleared EXCEPT ![e] = 1]]
    BY <1>1, <1>a, RegisterEffect
  <2>2. /\ [Cleared EXCEPT ![e] = 1] \in [Mods -> Nat]
        /\ \A i \in Images : [Cleared EXCEPT ![e] = 1][i] = 0
    BY <1>c, RegistryAssumption DEF Mods
  <2>3. JitInv' /\ UNCHANGED static_mods
    BY <1>1, <1>a, RegisterKeeps DEF RegisterJit
  <2>4. QED
    BY <2>1, <2>2, <2>3, <1>b
<1>2. ASSUME NEW k \in JitKeys, remove_jit_locked(k)
      PROVE  /\ JitInv'
             /\ \A q \in StaticKeys : unw'[q] = unw[q]
             /\ \A q \in Keys, i \in Images : unw'[q][i] = unw[q][i]
  <2>1. k \in Keys
    BY RegistryAssumption
  <2>2. JitInv' /\ unw' = [unw EXCEPT ![k] = Cleared]
    BY <2>1, <1>2, <1>a, RemoveEffect, RemoveKeeps
  <2>3. QED
    BY <2>2, <1>b, <1>c
<1>3. \A e \in EhFrames : remove_jit_module_by_eh_frame(e) => jit_by_eh_frame[e] \in JitKeys
  BY <1>a DEF remove_jit_module_by_eh_frame, remove_jit_locked, JitInv, RegistryTypeOK
<1>4. QED
  BY <1>1, <1>2, <1>3 DEF Jit, remove_jit_module, remove_jit_module_by_eh_frame

LEMMA JitKeeps ==
  ASSUME RefreshInv, Jit PROVE RefreshInv'
<1>a. Hyp /\ TypeOK /\ JitInv /\ Recorded /\ Elsewhere /\ ScanAgrees /\ CountsAgree
  BY DEF RefreshInv
<1>b. /\ JitInv' /\ UNCHANGED <<static_mods, loaderVars, refreshVars>>
      /\ \A k \in StaticKeys : unw'[k] = unw[k]
      /\ \A k \in Keys, i \in Images : unw'[k][i] = unw[k][i]
  BY JitEffect
<1>1. Hyp'
  BY <1>a DEF Hyp, FingerprintsDistinguish, KeysDisjoint
<1>2. TypeOK'
  BY <1>a, <1>b DEF JitInv, TypeOK, loaderVars, refreshVars
<1>3. Recorded'
  BY <1>a, <1>b DEF Recorded, fingerprint_of
<1>4. Elsewhere'
  BY <1>a, <1>b DEF Elsewhere, loaderVars, refreshVars
<1>5. ScanAgrees'
  BY <1>a, <1>b DEF ScanAgrees, loaderVars, refreshVars
<1>6. CountsAgree'
  BY <1>a, <1>b DEF CountsAgree, Past, ReflectsAt, loaderVars, refreshVars
<1>7. QED
  BY <1>1, <1>2, <1>3, <1>4, <1>5, <1>6, <1>b DEF RefreshInv

(* The steps of refresh before it publishes change only its own variables. *)
LEMMA ScanKeeps ==
  ASSUME RefreshInv, UNCHANGED <<registryVars, loaded, adds, subs, load_counts>>,
         counts' = counts \/ counts' = load_counts_now,
         current' \in [Keys -> Images \cup {None}], \A k \in Keys \ StaticKeys : current'[k] = None,
         rpc' \in {"idle", "scan", "pin", "publish"},
         handles' \subseteq StaticKeys, stable' \subseteq Keys, ScanAgrees'
  PROVE  RefreshInv'
<1> USE DEF registryVars
<1>a. Hyp /\ TypeOK /\ JitInv /\ Recorded /\ Elsewhere /\ ScanAgrees /\ CountsAgree
  BY DEF RefreshInv
<1>1. Hyp'
  BY <1>a DEF Hyp, FingerprintsDistinguish, KeysDisjoint
<1>2. JitInv'
  BY <1>a, RegistryStutter
<1>3. counts' \in (Nat \X Nat) \cup {None} /\ Past(counts)'
  <2>1. CASE counts' = counts
    BY <2>1, <1>a DEF TypeOK, CountsAgree, Past
  <2>2. CASE counts' = load_counts_now
    BY <2>2, <1>a DEF load_counts_now, TypeOK, Past
  <2>3. QED
    BY <2>1, <2>2
<1>4. TypeOK'
  BY <1>2, <1>3, <1>a DEF JitInv, TypeOK
<1>5. Recorded' /\ Elsewhere'
  BY <1>a DEF Recorded, Elsewhere, fingerprint_of
<1>6. CountsAgree'
  BY <1>3, <1>a DEF CountsAgree, Past, ReflectsAt
<1>7. QED
  BY <1>1, <1>2, <1>4, <1>5, <1>6 DEF RefreshInv

LEMMA PublishKeeps ==
  ASSUME RefreshInv, PublishScan PROVE RefreshInv'
<1>a. Hyp /\ TypeOK /\ JitInv /\ Recorded /\ Elsewhere /\ ScanAgrees /\ CountsAgree
  BY DEF RefreshInv
<1>b. /\ load_counts' = counts /\ rpc' = "idle"
      /\ UNCHANGED <<jit_keys, jit_by_eh_frame, jit_eh_frame_by_key, loaded, adds, subs, stable,
                     counts, current, handles>>
  BY DEF PublishScan, jitVars, loaderVars
<1>c. /\ \A k \in StaticKeys : unw'[k] = Shown(current[k])
      /\ \A k \in Keys \ StaticKeys : unw'[k] = unw[k]
      /\ unw' \in [Keys -> [Mods -> Nat]]
  BY PublishShows
<1>d. /\ \A k \in StaticKeys : k \in Keys /\ k \notin JitKeys /\ current[k] \in Images \cup {None}
      /\ JitKeys \subseteq Keys /\ jit_keys \subseteq JitKeys
  BY <1>a, ConstantFacts, RegistryAssumption DEF Hyp, KeysDisjoint, TypeOK, RegistryTypeOK
<1>1. Hyp'
  BY <1>a DEF Hyp, FingerprintsDistinguish, KeysDisjoint
<1>2. JitInv'
  <2>1. RegistryTypeOK' /\ EhFrameMapsInverse'
    BY <1>a, <1>b, <1>c DEF JitInv, RegistryTypeOK, EhFrameMapsInverse
  <2>2. \A k \in JitKeys : unw'[k] = unw[k]
    BY <1>c, <1>d
  <2>3. JitKeysFree'
    BY <2>2, <1>a DEF JitInv, JitKeysFree
  <2>4. OnePerKey'
    <3>1. ASSUME NEW k \in Keys \ jit_keys, NEW e \in EhFrames PROVE unw'[k][e] = 0
      <4>1. CASE k \in StaticKeys
        <5>1. e # current[k] \/ current[k] \notin Unwindable
          BY <1>d, <4>1, RegistryAssumption, ConstantFacts DEF Mods
        <5>2. e \in Mods
          BY DEF Mods
        <5>3. Shown(current[k])[e] = 0
          BY <5>1, <5>2 DEF Shown
        <5>4. QED
          BY <5>3, <4>1, <1>c
      <4>2. CASE k \notin StaticKeys
        BY <4>2, <1>a, <1>c DEF JitInv, OnePerKey, NoneAt
      <4>3. QED
        BY <4>1, <4>2
    <3>2. ASSUME NEW k \in jit_keys PROVE \E e \in EhFrames : OnlyAt(k, e)'
      BY <2>2, <1>a, <1>d DEF JitInv, OnePerKey, OnlyAt
    <3>3. QED
      BY <3>1, <3>2, <1>b DEF OnePerKey, NoneAt
  <2>5. HandleNamesItsModule'
    <3>1. ASSUME NEW e \in EhFrames, jit_by_eh_frame[e] # None PROVE jit_by_eh_frame[e] \in JitKeys
      <4>1. jit_by_eh_frame[e] \in Keys
        BY <3>1, <1>a DEF JitInv, RegistryTypeOK
      <4>2. jit_eh_frame_by_key[jit_by_eh_frame[e]] = e /\ e # None
        BY <4>1, <1>a, RegistryAssumption DEF JitInv, EhFrameMapsInverse, Mods
      <4>3. QED
        BY <4>1, <4>2, <1>a, <1>d DEF JitInv, EhFrameMapsInverse
    <3>2. QED
      BY <3>1, <2>2, <1>a, <1>b DEF JitInv, HandleNamesItsModule
  <2>6. QED
    BY <2>1, <2>3, <2>4, <2>5 DEF JitInv
<1>3. /\ static_mods' \in [Keys -> {Fingerprint[i] : i \in Images} \cup {None}]
      /\ \A k \in Keys \ StaticKeys : static_mods'[k] = None
      /\ Recorded'
  <2>1. CASE new_modules = {} /\ removed_keys = {} /\ changed_keys = {}
    <3>1. unw' = unw /\ static_mods' = static_mods
      BY <2>1 DEF PublishScan
    <3>2. QED
      BY <3>1, <1>a DEF TypeOK, Elsewhere, Recorded, fingerprint_of
  <2>2. CASE ~(new_modules = {} /\ removed_keys = {} /\ changed_keys = {})
    <3>1. static_mods' = [k \in Keys |-> fingerprint_of(current[k])]
      BY <2>2 DEF PublishScan
    <3>2. \A k \in Keys : fingerprint_of(current[k]) \in {Fingerprint[i] : i \in Images} \cup {None}
      BY <1>a DEF TypeOK, fingerprint_of
    <3>3. \A k \in Keys \ StaticKeys : static_mods'[k] = None
      BY <3>1, <1>a, ConstantFacts DEF Elsewhere
    <3>4. \A k \in StaticKeys : static_mods'[k] = fingerprint_of(current[k])
      BY <3>1, <1>d
    <3>5. Recorded'
      BY <3>4, <1>c, <1>d DEF Recorded, fingerprint_of
    <3>6. QED
      BY <3>1, <3>2, <3>3, <3>5
  <2>3. QED
    BY <2>1, <2>2
<1>4. TypeOK'
  BY <1>2, <1>3, <1>a, <1>b DEF JitInv, TypeOK
<1>5. Elsewhere'
  BY <1>3, <1>a, <1>b, <1>c DEF Elsewhere
<1>6. ScanAgrees'
  BY <1>a, <1>b DEF ScanAgrees
<1>7. CountsAgree'
  <2>1. Past(load_counts)' /\ Past(counts)'
    BY <1>a, <1>b DEF CountsAgree, Past
  <2>2. ASSUME load_counts' = <<adds', subs'>>, NEW k \in Keys PROVE ReflectsAt(k)'
    <3>1. current[k] = loaded[k]
      BY <2>2, <1>a, <1>b DEF ScanAgrees, PublishScan
    <3>2. QED
      BY <3>1, PublishReflects
  <2>3. QED
    BY <2>1, <2>2 DEF CountsAgree
<1>8. QED
  BY <1>1, <1>2, <1>3, <1>4, <1>5, <1>6, <1>7 DEF RefreshInv

LEMMA NextRefresh == RefreshInv /\ [Next]_vars => RefreshInv'
<1> SUFFICES ASSUME RefreshInv, [Next]_vars PROVE RefreshInv'
  OBVIOUS
<1>a. TypeOK /\ Elsewhere /\ ScanAgrees
  BY DEF RefreshInv
<1>1. ASSUME NEW k \in StaticKeys, NEW i \in Images, dlopen(k, i) PROVE RefreshInv'
  <2>1. loaded' \in [Keys -> Images \cup {None}] /\ \A q \in Keys \ {k} : loaded'[q] = loaded[q]
    BY <1>1, <1>a, ConstantFacts DEF dlopen, TypeOK
  <2>2. QED
    BY <1>1, <2>1, LoaderKeeps DEF dlopen
<1>2. ASSUME NEW k \in StaticKeys, dlclose(k) PROVE RefreshInv'
  <2>1. loaded' \in [Keys -> Images \cup {None}] /\ \A q \in Keys \ {k} : loaded'[q] = loaded[q]
    BY <1>2, <1>a, ConstantFacts DEF dlclose, TypeOK
  <2>2. QED
    BY <1>2, <2>1, LoaderKeeps DEF dlclose
<1>3. CASE Jit
  BY <1>3, JitKeeps
<1>4. CASE BeginRefresh
  <2>1. ScanAgrees'
    BY <1>4 DEF BeginRefresh, ScanAgrees, load_counts_now
  <2>2. QED
    BY <1>4, <2>1, <1>a, ScanKeeps DEF BeginRefresh, TypeOK, Elsewhere
<1>5. CASE Enumerate
  <2>1. ScanAgrees'
    BY <1>5, <1>a DEF Enumerate, loaderVars, ScanAgrees
  <2>2. QED
    BY <1>5, <2>1, <1>a, ScanKeeps DEF Enumerate, loaderVars, TypeOK, Elsewhere
<1>6. CASE ListModules
  <2>1. handles' \subseteq StaticKeys
    BY <1>6, <1>a DEF ListModules, Elsewhere
  <2>2. ScanAgrees'
    BY <1>6, <1>a, RefreshAssumption DEF ListModules, loaderVars, ScanAgrees, TypeOK
  <2>3. QED
    BY <1>6, <2>1, <2>2, <1>a, ScanKeeps DEF ListModules, loaderVars, TypeOK
<1>7. CASE ListFails
  <2>1. ScanAgrees'
    BY <1>7, <1>a DEF ListFails, ScanAgrees
  <2>2. QED
    BY <1>7, <2>1, <1>a, ScanKeeps DEF ListFails, TypeOK, Elsewhere
<1>8. ASSUME NEW k \in StaticKeys, PinModule(k) PROVE RefreshInv'
  <2>1. ScanAgrees'
    BY <1>8, <1>a DEF PinModule, loaderVars, ScanAgrees, TypeOK
  <2>2. current' \in [Keys -> Images \cup {None}] /\ \A q \in Keys \ StaticKeys : current'[q] = None
    BY <1>8, <1>a, ConstantFacts DEF PinModule, TypeOK, Elsewhere
  <2>3. QED
    BY <1>8, <2>1, <2>2, <1>a, ScanKeeps DEF PinModule, loaderVars, TypeOK
<1>9. ASSUME NEW k \in StaticKeys, InfoFails(k) PROVE RefreshInv'
  <2>1. counts = None /\ counts # <<adds, subs>>
    BY <1>9, <1>a, ConstantFacts DEF InfoFails, ScanAgrees, TypeOK
  <2>2. ScanAgrees'
    BY <1>9, <1>a, <2>1 DEF InfoFails, ScanAgrees
  <2>3. QED
    BY <1>9, <2>2, <1>a, ScanKeeps DEF InfoFails, TypeOK, Elsewhere
<1>10. CASE ListDone
  <2>1. ScanAgrees'
    BY <1>10, <1>a DEF ListDone, loaderVars, ScanAgrees
  <2>2. QED
    BY <1>10, <2>1, <1>a, ScanKeeps DEF ListDone, loaderVars, TypeOK, Elsewhere
<1>11. CASE PublishScan
  BY <1>11, PublishKeeps
<1>12. CASE UNCHANGED vars
  <2>1. ScanAgrees'
    BY <1>12, <1>a DEF vars, loaderVars, refreshVars, ScanAgrees
  <2>2. QED
    BY <1>12, <2>1, <1>a, ScanKeeps DEF vars, loaderVars, refreshVars, TypeOK, Elsewhere
<1>13. QED
  BY <1>1, <1>2, <1>3, <1>4, <1>5, <1>6, <1>7, <1>8, <1>9, <1>10, <1>11, <1>12 DEF Next, Refresh

-----------------------------------------------------------------------------
(* The quick check of refresh (mod.rs: "Equal counts mean no object was loaded
   or unloaded since the last scan") is sound, and refreshes and JIT
   registrations never disturb each other's modules, for any interleaving of
   loads, unloads, refreshes and registrations. *)
THEOREM RefreshCorrect == Hyp /\ Spec => [](TypeOK /\ QuickCheckIsSound /\ JitPublished)
<1>1. RefreshInv => TypeOK /\ QuickCheckIsSound /\ JitPublished
  BY OnePerKeyPublishes DEF RefreshInv, CountsAgree, QuickCheckIsSound, JitInv
<1>2. QED
  BY InitRefresh, NextRefresh, <1>1, PTL DEF Spec

(* While images are loaded, unloaded and refreshed the registry's two .eh_frame
   maps stay inverse (add_jit_module, forget_jit_eh_frame). *)
THEOREM MapsSurviveRefreshes == Hyp /\ Spec => []EhFrameMapsInverse
<1>1. RefreshInv => EhFrameMapsInverse
  BY DEF RefreshInv, JitInv
<1>2. QED
  BY InitRefresh, NextRefresh, <1>1, PTL DEF Spec

(* And a removal by .eh_frame address still names its module
   (remove_jit_module_by_eh_frame). *)
THEOREM HandlesSurviveRefreshes == Hyp /\ Spec => []HandleNamesItsModule
<1>1. RefreshInv => HandleNamesItsModule
  BY DEF RefreshInv, JitInv
<1>2. QED
  BY InitRefresh, NextRefresh, <1>1, PTL DEF Spec

(* A refresh that returns has published the loader's images at every address
   the loader left alone meanwhile, on ELF and on Windows (mod.rs: "publish a
   snapshot reflecting additions, removals, and changed images"). *)
THEOREM RefreshIsCurrent == Hyp /\ Spec => RefreshReflectsLoads
<1> DEFINE Step == rpc # "idle" /\ rpc' = "idle" => \A k \in stable' : ReflectsAt(k)'
<1>1. RefreshInv /\ [Next]_vars => [Step]_vars
  <2> SUFFICES ASSUME RefreshInv, Next, rpc # "idle", rpc' = "idle", NEW k \in stable'
               PROVE  ReflectsAt(k)'
    BY DEF vars
  <2>1. PublishScan
    BY DEF Next, Refresh, dlopen, dlclose, Jit, BeginRefresh, Enumerate, ListModules, ListFails,
           ListDone, PinModule, InfoFails, loaderVars, refreshVars
  <2>2. k \in stable /\ k \in Keys /\ current[k] = loaded[k]
    BY <2>1 DEF PublishScan, loaderVars, RefreshInv, ScanAgrees, TypeOK
  <2>3. QED
    BY <2>1, <2>2, PublishReflects
<1>2. QED
  BY InitRefresh, NextRefresh, <1>1, PTL DEF Spec, RefreshReflectsLoads

=============================================================================
