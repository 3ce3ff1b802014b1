-------------------------- MODULE MCDeviceSession --------------------------
(***************************************************************************)
(* Instances of DeviceSession for TLC.                                     *)
(***************************************************************************)
EXTENDS DeviceSession, TLC

\* Connections are interchangeable; sound for the invariant runs only.
ConnSymmetry == Permutations(Conns)
=============================================================================
