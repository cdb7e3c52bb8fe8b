---------------------------- MODULE JitRegistry -----------------------------
(***************************************************************************)
(* The writer-side registry of src/modules/mod.rs and its JIT half:        *)
(* add_jit_module, remove_jit_module and remove_jit_module_by_eh_frame.    *)
(* Each runs under the REGISTRY mutex and publishes once, so it is one     *)
(* action.                                                                 *)
(*                                                                         *)
(* The published module list is a multiset of modules per start address:   *)
(* add_module inserts next to an equal start, and remove_module's binary   *)
(* search removes any one module with that start.  A JIT module is named   *)
(* by the .eh_frame address it was built from, a static one by its image.  *)
(* A HashMap is a total function that is None where it has no entry.       *)
(***************************************************************************)
EXTENDS Naturals

CONSTANTS
  Keys,        \* start addresses of modules
  JitKeys,     \* those that JIT code is registered at
  EhFrames,    \* runtime addresses of JIT .eh_frame buffers
  Images,      \* images the loader maps
  None

Mods == Images \cup EhFrames

ASSUME RegistryAssumption ==
  JitKeys \subseteq Keys /\ Images \cap EhFrames = {} /\ None \notin Keys \cup Mods

VARIABLES
  unw,                  \* [Keys -> [Mods -> Nat]]: the published modules
  static_mods,          \* [Keys -> a fingerprint or None]
  jit_keys,
  jit_by_eh_frame,      \* [EhFrames -> Keys or None]
  jit_eh_frame_by_key   \* [Keys -> EhFrames or None]

jitVars == <<jit_keys, jit_by_eh_frame, jit_eh_frame_by_key>>
registryVars == <<unw, static_mods, jitVars>>

RegistryInit ==
  /\ unw = [k \in Keys |-> [m \in Mods |-> 0]]
  /\ static_mods = [k \in Keys |-> None]
  /\ jit_keys = {}
  /\ jit_by_eh_frame = [e \in EhFrames |-> None]
  /\ jit_eh_frame_by_key = [k \in Keys |-> None]

(* The module list, as the modules that share one start address. *)
add_module(b, m) == [b EXCEPT ![m] = @ + 1]
remove_module(b) ==
  LET present == {m \in Mods : b[m] > 0}
  IN  IF present = {} THEN {b} ELSE {[b EXCEPT ![m] = @ - 1] : m \in present}

-----------------------------------------------------------------------------
forget_Nothing(k) == jit_by_eh_frame

(* forget_jit_eh_frame: jit_by_eh_frame without k's entry, if it is still k's.
   The entry of jit_eh_frame_by_key is dropped by the callers. *)
forget_jit_eh_frame(k) ==
  LET e == jit_eh_frame_by_key[k]
  IN  IF e # None /\ jit_by_eh_frame[e] = k
      THEN [jit_by_eh_frame EXCEPT ![e] = None]
      ELSE jit_by_eh_frame

add_KeepsReverse(k, e) ==
  LET by_eh  == forget_jit_eh_frame(k)
  IN  /\ \E b \in (IF k \in jit_keys THEN remove_module(unw[k]) ELSE {unw[k]}) :
           unw' = [unw EXCEPT ![k] = add_module(b, e)]
      /\ jit_keys' = jit_keys \cup {k}
      /\ jit_by_eh_frame' = [by_eh EXCEPT ![e] = k]
      /\ jit_eh_frame_by_key' = [jit_eh_frame_by_key EXCEPT ![k] = e]

(* A re-registered key replaces its module; its old .eh_frame address is
   forgotten, and the new one is taken from whichever key had it. *)
add_jit_module(k, e) ==
  LET by_eh  == forget_jit_eh_frame(k)
      stolen == {q \in Keys : by_eh[e] = q}
  IN  /\ \E b \in (IF k \in jit_keys THEN remove_module(unw[k]) ELSE {unw[k]}) :
           unw' = [unw EXCEPT ![k] = add_module(b, e)]
      /\ jit_keys' = jit_keys \cup {k}
      /\ jit_by_eh_frame' = [by_eh EXCEPT ![e] = k]
      /\ jit_eh_frame_by_key' =
           [q \in Keys |-> IF q = k THEN e ELSE IF q \in stolen THEN None ELSE jit_eh_frame_by_key[q]]

remove_jit_locked(k) ==
  /\ k \in jit_keys
  /\ \E b \in remove_module(unw[k]) : unw' = [unw EXCEPT ![k] = b]
  /\ jit_keys' = jit_keys \ {k}
  /\ jit_by_eh_frame' = forget_jit_eh_frame(k)
  /\ jit_eh_frame_by_key' = [jit_eh_frame_by_key EXCEPT ![k] = None]

(* The three entry points.  A removal of an unknown key or address returns
   without publishing. *)
RegisterJit(k, e) == add_jit_module(k, e) /\ UNCHANGED static_mods
remove_jit_module(k) == remove_jit_locked(k) /\ UNCHANGED static_mods
remove_jit_module_by_eh_frame(e) ==
  /\ jit_by_eh_frame[e] # None
  /\ remove_jit_locked(jit_by_eh_frame[e])
  /\ UNCHANGED static_mods

JitNext ==
  \/ \E k \in JitKeys, e \in EhFrames : RegisterJit(k, e)
  \/ \E k \in Keys : remove_jit_module(k)
  \/ \E e \in EhFrames : remove_jit_module_by_eh_frame(e)

JitSpec == RegistryInit /\ [][JitNext]_registryVars

-----------------------------------------------------------------------------
(* Properties.                                                             *)

RegistryTypeOK ==
  /\ unw \in [Keys -> [Mods -> Nat]]
  /\ jit_keys \subseteq JitKeys
  /\ jit_by_eh_frame \in [EhFrames -> Keys \cup {None}]
  /\ jit_eh_frame_by_key \in [Keys -> EhFrames \cup {None}]

(* The two .eh_frame maps stay inverse to each other ("The reverse of
   jit_by_eh_frame"), and speak of registered modules only, whatever order of
   re-registrations, reused buffers and removals produced them. *)
EhFrameMapsInverse ==
  /\ \A k \in Keys, e \in EhFrames : jit_by_eh_frame[e] = k <=> jit_eh_frame_by_key[k] = e
  /\ \A k \in Keys : jit_eh_frame_by_key[k] # None => k \in jit_keys

(* The snapshot has exactly one JIT module at every registered key and none
   elsewhere, so fh_jit_module_count counts what walks can see. *)
JitPublished ==
  \A k \in Keys :
    LET here == {e \in EhFrames : unw[k][e] > 0}
    IN  IF k \in jit_keys THEN \E e \in EhFrames : here = {e} /\ unw[k][e] = 1 ELSE here = {}

(* Deregistering by .eh_frame address removes the module built from that very
   buffer: "a late deregister with a stale pointer cannot delete the module we
   are registering now". *)
HandleNamesItsModule ==
  \A e \in EhFrames : jit_by_eh_frame[e] # None => unw[jit_by_eh_frame[e]][e] = 1

=============================================================================
