-------------------------- MODULE MCDeviceTracking --------------------------
(***************************************************************************)
(* Instances of DeviceTracking for TLC: an Android and an iOS device.       *)
(***************************************************************************)
EXTENDS DeviceTracking, TLC

CONSTANTS a1, i1, t1, t2, t3

AnyTask == Permutations(Tasks)

=============================================================================
