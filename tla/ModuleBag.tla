----------------------------- MODULE ModuleBag ------------------------------
(***************************************************************************)
(* What the module list of framehop's unwinder promises: a bag of modules, *)
(* in which the copies of a module count, to which one is added, and from  *)
(* which one copy of one with a given start address is removed if there is *)
(* any.                                                                    *)
(***************************************************************************)
EXTENDS Naturals

CONSTANT Modules

VARIABLE copies    \* [Modules -> Nat]

Init == copies = [m \in Modules |-> 0]

Add(m) == copies[m] = 0 /\ copies' = [copies EXCEPT ![m] = @ + 1]

Remove(start) ==
  \E m \in Modules : m.start = start /\ copies[m] > 0 /\ copies' = [copies EXCEPT ![m] = @ - 1]

Next ==
  \/ \E m \in Modules : Add(m)
  \/ \E m \in Modules : Remove(m.start)

Spec == Init /\ [][Next]_copies

=============================================================================
