-------------------------- MODULE SessionLifecycle --------------------------
(***************************************************************************)
(* What a device session promises the DeviceLinkManager: the order in      *)
(* which it goes through its stages.  DeviceSession implements it;         *)
(* DeviceLinkManager relies on it.                                         *)
(***************************************************************************)
EXTENDS SessionStages

VARIABLE stage

LifecycleInit == stage = "Discovered"
LifecycleNext == stage' \in Follows[stage]
LifecycleSpec == LifecycleInit /\ [][LifecycleNext]_stage
=============================================================================
