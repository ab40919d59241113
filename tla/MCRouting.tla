------------------------------ MODULE MCRouting ------------------------------
(***************************************************************************)
(* Values of Routing's constants for TLC.  No room or name is special, so  *)
(* permuting them gives equivalent states.                                 *)
(***************************************************************************)
EXTENDS RoutingProperties, TLC

Symmetry == Permutations(Rooms) \cup Permutations(Names)
==============================================================================
