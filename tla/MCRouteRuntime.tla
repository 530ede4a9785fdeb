--------------------------- MODULE MCRouteRuntime ---------------------------
(***************************************************************************)
(* Instances of RouteRuntime for TLC.                                      *)
(***************************************************************************)
EXTENDS RouteRuntime, TLC

Symmetry == Permutations(Conns)
=============================================================================
