--------------------------- MODULE MCRuleCaching ----------------------------
(* Instances of RuleCaching for TLC.  Addresses 0 and 2 share a cache index
   when there are two.  No two lists agree on address 0; address 1 is a signal
   frame in the lists that know it. *)
EXTENDS RuleCaching, TLC
CONSTANTS l0, l1, l2, fp, r1, r2
RulesOfLists ==
  l0 :> (0 :> fp @@ 1 :> fp @@ 2 :> fp) @@
  l1 :> (0 :> r1 @@ 1 :> Generic @@ 2 :> r2) @@
  l2 :> (0 :> r2 @@ 1 :> Generic @@ 2 :> r2)
=============================================================================
