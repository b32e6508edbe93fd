--------------------------- MODULE MCNodeRegistry ---------------------------
(***************************************************************************)
(* Instances of NodeRegistry for TLC.  The second device belongs to the     *)
(* second node if there is one.  The first request names no device, the     *)
(* other names them all.                                                    *)
(***************************************************************************)
EXTENDS NodeRegistry

CONSTANTS n1, n2, d1, d2, q1, q2

MCHostOf == [d \in Devices |-> IF d = d2 /\ n2 \in Nodes THEN n2 ELSE n1]
MCNamed == [q \in Requests |-> IF q = q1 THEN {} ELSE Devices]

=============================================================================
