------------------------- MODULE MCDeviceAllocation -------------------------
(***************************************************************************)
(* Instances of DeviceAllocation for TLC.  r1 and r2 ask for the same        *)
(* platform and version and share a lock; r3 has a lock of its own and       *)
(* competes with both.  r1 is the picky one, so that a request can be behind *)
(* another one in the queue and yet have a device to take.                   *)
(***************************************************************************)
EXTENDS DeviceAllocation, TLC

CONSTANTS r1, r2, r3, d1, d2, d3, l1, l2

MCLockOf == [r \in Requests |-> IF r = r3 THEN l2 ELSE l1]

MCWanted ==
    [r \in Requests |-> Devices \cap (IF r = r1 THEN {d1, d3} ELSE {d1, d2, d3})]

=============================================================================
