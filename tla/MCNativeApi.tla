----------------------------- MODULE MCNativeApi -----------------------------
(***************************************************************************)
(* Instances of NativeApi for TLC.                                         *)
(***************************************************************************)
EXTENDS NativeApi, TLC

Symmetry == Permutations(Conns) \cup Permutations(Values)
=============================================================================
