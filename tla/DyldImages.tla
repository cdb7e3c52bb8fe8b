----------------------------- MODULE DyldImages -----------------------------
(***************************************************************************)
(* macOS: the static modules kept by dyld's image callbacks                *)
(* (src/modules/macho.rs init_callbacks, on_add_image, on_remove_image,    *)
(* and the macos_ functions of src/modules/mod.rs).                        *)
(*                                                                         *)
(* dyld holds its lock while it maps an image and runs the add callback,   *)
(* while it runs the remove callback and unmaps the image, and while it    *)
(* registers a callback; registering the add callback replays it for every *)
(* image already loaded.  init_callbacks runs once, in the step dpc of its *)
(* thread; other threads load, unload and register JIT code meanwhile.     *)
(***************************************************************************)
EXTENDS JitRegistry, FiniteSets

CONSTANTS
  ImageKeys,      \* __TEXT addresses of images
  Unwindable,     \* the images with usable unwind info
  MaxEvents       \* bound: images mapped

ASSUME DyldAssumption ==
  /\ ImageKeys \subseteq Keys /\ Unwindable \subseteq Images /\ MaxEvents \in Nat
  /\ IsFiniteSet(Keys)

VARIABLES
  batching,
  pending,        \* the images recorded while batching, in the order of at; those
                  \* with one at have different keys, so that their order is immaterial
  loaded,         \* [Keys -> Images or None]: what dyld has mapped
  dyld,           \* <<>>, or <<what dyld did under its lock, key>>
  dpc,            \* init_callbacks: "new" "begun" "add" "both" "done"
  maps,           \* images mapped so far
  missed          \* history: keys unloaded between the two registrations

dyldVars == <<loaded, dyld, maps>>
vars == <<registryVars, batching, pending, dyldVars, dpc, missed>>

(* fh_init may run when images are already loaded. *)
Init ==
  /\ RegistryInit
  /\ batching = FALSE /\ pending = {}
  /\ loaded \in {f \in [Keys -> Images \cup {None}] :
       /\ \A k \in Keys : f[k] # None => k \in ImageKeys
       /\ \A k, q \in Keys : f[k] = f[q] /\ f[k] # None => k = q}
  /\ dyld = <<>> /\ dpc = "new" /\ maps = 0 /\ missed = {}

-----------------------------------------------------------------------------
(* The registry's side of the callbacks.                                   *)

(* An image's entry.  One entry of a key comes after another only if an image
   was mapped in between. *)
Entry(k, i) == [key |-> k, image |-> i, at |-> maps]

(* The fingerprint recorded in static_mods is never compared here; the image
   stands for it. *)
macos_add_image(k, i) ==
  IF batching
  THEN pending' = pending \cup {Entry(k, i)} /\ UNCHANGED <<unw, static_mods>>
  ELSE /\ \E b \in (IF static_mods[k] # None THEN remove_module(unw[k]) ELSE {unw[k]}) :
            unw' = [unw EXCEPT ![k] = add_module(b, i)]
       /\ static_mods' = [static_mods EXCEPT ![k] = i]
       /\ UNCHANGED pending

remove_image_KeepsPending(k) ==
  /\ pending' = pending
  /\ IF static_mods[k] = None
     THEN UNCHANGED <<unw, static_mods>>
     ELSE /\ static_mods' = [static_mods EXCEPT ![k] = None]
          /\ \E b \in remove_module(unw[k]) : unw' = [unw EXCEPT ![k] = b]

remove_image_KeepsModule(k) ==
  /\ pending' = IF batching THEN {p \in pending : p.key # k} ELSE pending
  /\ static_mods' = [static_mods EXCEPT ![k] = None]
  /\ UNCHANGED unw

macos_remove_image(k) ==
  /\ pending' = IF batching THEN {p \in pending : p.key # k} ELSE pending
  /\ IF static_mods[k] = None
     THEN UNCHANGED <<unw, static_mods>>
     ELSE /\ static_mods' = [static_mods EXCEPT ![k] = None]
          /\ IF k \in jit_keys
             THEN UNCHANGED unw
             ELSE \E b \in remove_module(unw[k]) : unw' = [unw EXCEPT ![k] = b]

-----------------------------------------------------------------------------
(* init_callbacks                                                          *)

macos_begin_batch ==
  /\ dpc = "new"
  /\ batching' = TRUE /\ dpc' = "begun"
  /\ UNCHANGED <<registryVars, pending, dyldVars, missed>>

(* Images without unwind info are dropped by on_add_image. *)
RegisterAdd ==
  /\ dpc = "begun" /\ dyld = <<>>
  /\ pending' = pending \cup {Entry(k, loaded[k]) : k \in {q \in Keys : loaded[q] \in Unwindable}}
  /\ dpc' = "add"
  /\ UNCHANGED <<registryVars, batching, dyldVars, missed>>

RegisterRemove ==
  /\ dpc = "add" /\ dyld = <<>>
  /\ dpc' = "both"
  /\ UNCHANGED <<registryVars, batching, pending, dyldVars, missed>>

(* static_mods has the last entry of a key; every entry becomes a module. *)
PendingAt(k) == {p \in pending : p.key = k}
LastAt(k) == CHOOSE p \in PendingAt(k) : \A q \in PendingAt(k) : q.at <= p.at
macos_end_batch ==
  /\ dpc = "both"
  /\ batching' = FALSE /\ pending' = {} /\ dpc' = "done"
  /\ static_mods' = [k \in Keys |-> IF PendingAt(k) = {} THEN static_mods[k] ELSE LastAt(k).image]
  /\ unw' = [k \in Keys |-> [m \in Mods |->
                unw[k][m] + Cardinality({p \in PendingAt(k) : p.image = m})]]
  /\ UNCHANGED <<jitVars, dyldVars, missed>>

-----------------------------------------------------------------------------
(* dyld                                                                    *)

MapImage(k, i) ==
  /\ dyld = <<>> /\ loaded[k] = None /\ k \notin jit_keys /\ maps < MaxEvents
  /\ \A q \in Keys : loaded[q] # i
  /\ loaded' = [loaded EXCEPT ![k] = i]
  /\ dyld' = <<"added", k>> /\ maps' = maps + 1
  /\ UNCHANGED <<registryVars, batching, pending, dpc, missed>>

on_add_image(k) ==
  /\ dyld = <<"added", k>>
  /\ dyld' = <<>>
  /\ IF dpc \in {"add", "both", "done"} /\ loaded[k] \in Unwindable
     THEN macos_add_image(k, loaded[k])
     ELSE UNCHANGED <<unw, static_mods, pending>>
  /\ UNCHANGED <<jitVars, batching, loaded, maps, dpc, missed>>

(* "The callback runs while the image is still mapped." *)
on_remove_image(k) ==
  /\ dyld = <<>> /\ loaded[k] # None
  /\ dyld' = <<"removed", k>>
  /\ IF dpc \in {"both", "done"}
     THEN macos_remove_image(k)
     ELSE UNCHANGED <<unw, static_mods, pending>>
  /\ missed' = IF dpc = "add" THEN missed \cup {k} ELSE missed
  /\ UNCHANGED <<jitVars, batching, loaded, maps, dpc>>

UnmapImage(k) ==
  /\ dyld = <<"removed", k>>
  /\ dyld' = <<>>
  /\ loaded' = [loaded EXCEPT ![k] = None]
  /\ UNCHANGED <<registryVars, batching, pending, maps, dpc, missed>>

(* JIT code is not placed over a mapped image. *)
Jit ==
  /\ \/ \E k \in JitKeys, e \in EhFrames : loaded[k] = None /\ RegisterJit(k, e)
     \/ \E k \in JitKeys : remove_jit_module(k)
     \/ \E e \in EhFrames : remove_jit_module_by_eh_frame(e)
  /\ UNCHANGED <<batching, pending, dyldVars, dpc, missed>>

Next ==
  \/ macos_begin_batch \/ RegisterAdd \/ RegisterRemove \/ macos_end_batch
  \/ \E k \in ImageKeys, i \in Images : MapImage(k, i)
  \/ \E k \in ImageKeys : on_add_image(k) \/ on_remove_image(k) \/ UnmapImage(k)
  \/ Jit

Spec == Init /\ [][Next]_vars

-----------------------------------------------------------------------------
(* Properties.                                                             *)

TypeOK ==
  /\ RegistryTypeOK
  /\ static_mods \in [Keys -> Images \cup {None}]
  /\ loaded \in [Keys -> Images \cup {None}]
  /\ batching \in BOOLEAN /\ (batching <=> dpc \in {"begun", "add", "both"})
  /\ pending \subseteq [key : ImageKeys, image : Unwindable, at : 0 .. MaxEvents]
  /\ dyld \in {<<>>} \cup ({"added", "removed"} \X ImageKeys)
  /\ dpc \in {"new", "begun", "add", "both", "done"}
  /\ maps \in 0..MaxEvents /\ missed \subseteq ImageKeys

(* The published static modules at k are those of the image loaded there. *)
ReflectsAt(k) ==
  \A i \in Images : unw[k][i] = IF loaded[k] = i /\ i \in Unwindable THEN 1 ELSE 0

(* Once init_callbacks has returned and dyld is between two events, the
   published modules are those of the mapped images: none lost in the switch
   from batching to publishing, none added twice.  The keys excepted are those
   unloaded in the window between the two registrations. *)
MirrorsDyld ==
  dpc = "done" /\ dyld = <<>> => \A k \in Keys \ missed : ReflectsAt(k)

(* A published module's image is mapped: its sections are read in place, so a
   walk that takes the current snapshot finds them readable.  The remove
   callback publishes before dyld unmaps. *)
PublishedIsMapped ==
  \A k \in Keys \ missed, i \in Images : unw[k][i] > 0 => loaded[k] = i

=============================================================================
