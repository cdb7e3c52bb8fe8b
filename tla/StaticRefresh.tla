--------------------------- MODULE StaticRefresh ----------------------------
(***************************************************************************)
(* modules::refresh on ELF and Windows (src/modules/mod.rs, elf.rs, pe.rs) *)
(* against a loader that loads and unloads images at any moment, and JIT   *)
(* registrations that share the registry.                                  *)
(*                                                                         *)
(* refresh holds the REGISTRY mutex throughout; the loader does not take   *)
(* it.  On ELF the loader's lock makes load_counts and the enumeration     *)
(* atomic each, so a load can fall between the two.  On Windows the list   *)
(* of modules is read first, and each is then pinned and examined alone.   *)
(***************************************************************************)
EXTENDS JitRegistry

CONSTANTS
  StaticKeys,     \* lowest load addresses of images
  Fingerprint,    \* [Images -> fingerprints]
  Unwindable,     \* the images with usable unwind info
  Counted,        \* the C library reports dlpi_adds and dlpi_subs
  Windows,        \* pe.rs enumerates, otherwise elf.rs
  MaxEvents       \* bound: loads and unloads

ASSUME RefreshAssumption ==
  /\ StaticKeys \subseteq Keys /\ Unwindable \subseteq Images
  /\ DOMAIN Fingerprint = Images /\ \A i \in Images : Fingerprint[i] # None
  /\ Counted \in BOOLEAN /\ Windows \in BOOLEAN /\ ~(Counted /\ Windows)
  /\ MaxEvents \in Nat /\ None \notin Nat \X Nat

VARIABLES
  loaded,         \* [Keys -> Images or None]: what the loader has mapped
  adds, subs,     \* dlpi_adds, dlpi_subs
  load_counts,    \* the registry's load_counts
  rpc,            \* refresh: "idle", or where it is while it holds REGISTRY
  counts,         \* refresh's local counts
  current,        \* refresh's local scan result: [Keys -> Images or None]
  handles,        \* Windows: the listed modules not yet examined
  stable          \* history: keys the loader left alone since refresh began,
                  \* and that the refresh could examine

loaderVars  == <<loaded, adds, subs, stable>>
refreshVars == <<load_counts, rpc, counts, current, handles>>
vars == <<registryVars, loaderVars, refreshVars>>

Init ==
  /\ RegistryInit
  /\ loaded = [k \in Keys |-> None]
  /\ adds = 0 /\ subs = 0
  /\ load_counts = None /\ rpc = "idle" /\ counts = None
  /\ handles = {} /\ stable = {}
  /\ current = [k \in Keys |-> None]

-----------------------------------------------------------------------------
(* The loader and the memory it shares with JIT code: an image is not mapped
   over registered JIT code, and JIT code is not placed over a mapped image. *)

dlopen(k, i) ==
  /\ loaded[k] = None /\ k \notin jit_keys /\ adds + subs < MaxEvents
  /\ \A q \in Keys : loaded[q] # i
  /\ loaded' = [loaded EXCEPT ![k] = i]
  /\ adds' = adds + 1
  /\ stable' = stable \ {k}
  /\ UNCHANGED <<registryVars, subs, refreshVars>>

dlclose(k) ==
  /\ loaded[k] # None /\ adds + subs < MaxEvents
  /\ loaded' = [loaded EXCEPT ![k] = None]
  /\ subs' = subs + 1
  /\ stable' = stable \ {k}
  /\ UNCHANGED <<registryVars, adds, refreshVars>>

Jit ==
  /\ rpc = "idle"
  /\ \/ \E k \in JitKeys, e \in EhFrames : loaded[k] = None /\ RegisterJit(k, e)
     \/ \E k \in JitKeys : remove_jit_module(k)
     \/ \E e \in EhFrames : remove_jit_module_by_eh_frame(e)
  /\ UNCHANGED <<loaderVars, refreshVars>>

-----------------------------------------------------------------------------
(* refresh                                                                 *)

load_counts_now == IF Counted THEN <<adds, subs>> ELSE None

(* Take REGISTRY, read the counts, and return at once if they are those of
   the last scan. *)
BeginRefresh ==
  /\ rpc = "idle"
  /\ counts' = load_counts_now
  /\ stable' = Keys
  /\ rpc' = IF counts' # None /\ counts' = load_counts THEN "idle" ELSE "scan"
  /\ UNCHANGED <<registryVars, loaded, adds, subs, load_counts, current, handles>>

Enumerate_CountsAfter ==
  /\ ~Windows
  /\ \/ /\ rpc = "scan"
        /\ current' = loaded
        /\ rpc' = "pin"
        /\ UNCHANGED counts
     \/ /\ rpc = "pin"
        /\ counts' = load_counts_now
        /\ rpc' = "publish"
        /\ UNCHANGED current
  /\ UNCHANGED <<registryVars, loaderVars, load_counts, handles>>

(* elf.rs: dl_iterate_phdr holds the loader's lock. *)
Enumerate ==
  /\ rpc = "scan" /\ ~Windows
  /\ current' = loaded
  /\ rpc' = "publish"
  /\ UNCHANGED <<registryVars, loaderVars, load_counts, counts, handles>>

(* pe.rs: EnumProcessModules. *)
ListModules ==
  /\ rpc = "scan" /\ Windows
  /\ handles' = {k \in Keys : loaded[k] # None}
  /\ current' = [k \in Keys |-> None]
  /\ rpc' = "pin"
  /\ UNCHANGED <<registryVars, loaderVars, load_counts, counts>>

(* It fails, or the list keeps growing: the snapshot and the registry stay. *)
ListFails ==
  /\ rpc = "scan" /\ Windows
  /\ rpc' = "idle" /\ stable' = {}
  /\ UNCHANGED <<registryVars, loaded, adds, subs, load_counts, counts, current, handles>>

(* One listed module: pinned and examined, or skipped because it is gone. *)
PinModule(k) ==
  /\ rpc = "pin" /\ k \in handles
  /\ handles' = handles \ {k}
  /\ current' = [current EXCEPT ![k] = loaded[k]]
  /\ UNCHANGED <<registryVars, loaderVars, load_counts, rpc, counts>>

(* GetModuleInformation fails: the module is skipped as if it were gone. *)
InfoFails(k) ==
  /\ rpc = "pin" /\ k \in handles
  /\ handles' = handles \ {k}
  /\ stable' = stable \ {k}
  /\ UNCHANGED <<registryVars, loaded, adds, subs, load_counts, rpc, counts, current>>

ListDone ==
  /\ rpc = "pin" /\ Windows /\ handles = {}
  /\ rpc' = "publish"
  /\ UNCHANGED <<registryVars, loaderVars, load_counts, counts, current, handles>>

fingerprint_of(i) == IF i = None THEN None ELSE Fingerprint[i]

(* new_modules: built for every unwindable image whose key and fingerprint are
   not in static_mods. *)
new_modules ==
  {k \in Keys : current[k] \in Unwindable /\ static_mods[k] # fingerprint_of(current[k])}
removed_keys == {k \in Keys : static_mods[k] # None /\ current[k] = None}
changed_keys ==
  {k \in Keys : /\ static_mods[k] # None /\ current[k] # None
                /\ fingerprint_of(current[k]) # static_mods[k]}

(* What the closure passed to with_writer does to the modules at k: drop a
   changed one, add a new one, drop a removed one unless the key is JIT's. *)
Rebuilt_KeepsChanged(k) ==
  LET added   == {IF k \in new_modules THEN add_module(b, current[k]) ELSE b : b \in {unw[k]}}
  IN  IF k \in removed_keys \ jit_keys THEN UNION {remove_module(b) : b \in added} ELSE added

Rebuilt_RemovesAny(k) ==
  LET dropped == IF k \in changed_keys THEN remove_module(unw[k]) ELSE {unw[k]}
      added   == {IF k \in new_modules THEN add_module(b, current[k]) ELSE b : b \in dropped}
  IN  IF current[k] = None THEN UNION {remove_module(b) : b \in added} ELSE added

Rebuilt(k) ==
  LET dropped == IF k \in changed_keys THEN remove_module(unw[k]) ELSE {unw[k]}
      added   == {IF k \in new_modules THEN add_module(b, current[k]) ELSE b : b \in dropped}
  IN  IF k \in removed_keys \ jit_keys THEN UNION {remove_module(b) : b \in added} ELSE added

(* The rest of refresh.  static_mods becomes current, except when nothing
   changed and nothing is published. *)
PublishScan ==
  /\ rpc = "publish"
  /\ load_counts' = counts
  /\ rpc' = "idle"
  /\ IF new_modules = {} /\ removed_keys = {} /\ changed_keys = {}
     THEN UNCHANGED <<unw, static_mods>>
     ELSE /\ unw' \in {u \in [Keys -> UNION {Rebuilt(k) : k \in Keys}] :
                         \A k \in Keys : u[k] \in Rebuilt(k)}
          /\ static_mods' = [k \in Keys |-> fingerprint_of(current[k])]
  /\ UNCHANGED <<jitVars, loaderVars, counts, current, handles>>

Refresh ==
  \/ BeginRefresh \/ Enumerate \/ ListModules \/ ListFails \/ ListDone \/ PublishScan
  \/ \E k \in StaticKeys : PinModule(k) \/ InfoFails(k)

Next ==
  \/ \E k \in StaticKeys, i \in Images : dlopen(k, i)
  \/ \E k \in StaticKeys : dlclose(k)
  \/ Jit
  \/ Refresh

Spec == Init /\ [][Next]_vars

-----------------------------------------------------------------------------
(* Properties.                                                             *)

TypeOK ==
  /\ RegistryTypeOK
  /\ static_mods \in [Keys -> {Fingerprint[i] : i \in Images} \cup {None}]
  /\ loaded \in [Keys -> Images \cup {None}] /\ current \in [Keys -> Images \cup {None}]
  /\ adds \in Nat /\ subs \in Nat
  /\ load_counts \in (Nat \X Nat) \cup {None} /\ counts \in (Nat \X Nat) \cup {None}
  /\ rpc \in {"idle", "scan", "pin", "publish"}
  /\ handles \subseteq StaticKeys /\ stable \subseteq Keys

(* The published static modules at k are those of the image loaded there. *)
ReflectsAt(k) ==
  \A i \in Images : unw[k][i] = IF loaded[k] = i /\ i \in Unwindable THEN 1 ELSE 0

(* "Equal counts mean no object was loaded or unloaded since the last scan":
   whenever the quick check of refresh would let it return, the published
   modules are exactly those of the loaded images, even if images came and went
   while the last scan ran. *)
QuickCheckIsSound ==
  rpc = "idle" /\ load_counts = <<adds, subs>> => \A k \in Keys : ReflectsAt(k)

(* When refresh returns without failing, its snapshot reflects "additions,
   removals, and changed images" at every address the loader left alone while
   it ran and that it could examine, whatever was loaded or unloaded elsewhere
   meanwhile. *)
RefreshReflectsLoads ==
  [][rpc # "idle" /\ rpc' = "idle" => \A k \in stable' : ReflectsAt(k)']_vars

(* What keeps the static modules in order: fingerprints tell images apart, and
   no image has the start address of JIT code. *)
FingerprintsDistinguish == \A i, j \in Images : Fingerprint[i] = Fingerprint[j] => i = j
KeysDisjoint == StaticKeys \cap JitKeys = {}

=============================================================================
