---------------------------- MODULE MCJitIndex ------------------------------
(* JitIndex with three-bit addresses and up to three FDEs. *)
EXTENDS JitIndex

Fde(s, l) == [start |-> s, len |-> l]
SomeFdes == {Fde(0, 2), Fde(1, 1), Fde(2, 1), Fde(2, 0), Fde(3, 2), Fde(4, 1), Fde(5, 1), Fde(7, 3)}

SomeSections ==
  {[fdes |-> s, parses |-> TRUE] : s \in {<<>>} \cup UNION {[1 .. n -> SomeFdes] : n \in 1 .. 3}}
    \cup {[fdes |-> <<f>>, parses |-> FALSE] : f \in SomeFdes}

=============================================================================
