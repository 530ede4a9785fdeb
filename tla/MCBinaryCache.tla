---------------------------- MODULE MCBinaryCache ----------------------------
(***************************************************************************)
(* Instances of BinaryCache for TLC.                                       *)
(***************************************************************************)
EXTENDS BinaryCache, TLC

Symmetry == Permutations(Procs)
=============================================================================
