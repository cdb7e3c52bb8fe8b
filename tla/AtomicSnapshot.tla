--------------------------- MODULE AtomicSnapshot ---------------------------
(***************************************************************************)
(* What src/state.rs promises the unwinder, without slots, hazards or      *)
(* memory: publishing is one atomic step, a walk takes the version that is *)
(* current at one instant of its cursor_init, and keeps reading exactly    *)
(* that version until its cursor_fini.                                     *)
(***************************************************************************)
EXTENDS Naturals

CONSTANTS Walkers, Nothing

VARIABLES
  current,   \* number of the current version, 0 before the first publish
  held       \* [Walkers -> version or Nothing]

Init == current = 0 /\ held = [w \in Walkers |-> Nothing]

Publish == current' = current + 1 /\ UNCHANGED held

Acquire(w) ==
  /\ held[w] = Nothing /\ current > 0
  /\ held' = [held EXCEPT ![w] = current]
  /\ UNCHANGED current

Release(w) ==
  /\ held[w] # Nothing
  /\ held' = [held EXCEPT ![w] = Nothing]
  /\ UNCHANGED current

Next == Publish \/ \E w \in Walkers : Acquire(w) \/ Release(w)

vars == <<current, held>>
Spec == Init /\ [][Next]_vars
=============================================================================
