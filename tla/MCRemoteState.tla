---------------------------- MODULE MCRemoteState ----------------------------
(***************************************************************************)
(* Instances of RemoteState for TLC: a switch, on or off.                  *)
(***************************************************************************)
EXTENDS RemoteState, TLC

ValueSymmetry == Permutations(Values)
=============================================================================
