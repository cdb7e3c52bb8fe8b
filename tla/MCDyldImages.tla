---------------------------- MODULE MCDyldImages ----------------------------
(* Instances of DyldImages for TLC. *)
EXTENDS DyldImages
=============================================================================
