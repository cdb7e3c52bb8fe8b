--------------------------- MODULE MCModuleList -----------------------------
(* ModuleList with small addresses. *)
EXTENDS ModuleList

Mod(s, e, b, i) == [start |-> s, end |-> e, base |-> b, id |-> i]

(* Neighbours, a gap, three modules with one start, a base below the range by
   more and by less than U32_MAX, and a base above the start. *)
SomeModules == {Mod(1, 3, 1, 0), Mod(3, 4, 3, 0), Mod(3, 5, 0, 1), Mod(3, 4, 3, 2), Mod(5, 6, 0, 0),
                Mod(6, 8, 7, 0), Mod(6, 7, 6, 1), Mod(8, 9, 8, 0), Mod(9, 11, 5, 0)}

=============================================================================
