---------------------------- MODULE DeviceLease ----------------------------
(***************************************************************************)
(* What the hub promises those who ask it for a device, whatever becomes of *)
(* locks, filters, flags and timers: a device is lent to one client at a    *)
(* time, a client is lent one device once, and never more than Limit        *)
(* devices are lent.  Lending ends without the client having to agree.      *)
(***************************************************************************)
EXTENDS Naturals, FiniteSets

CONSTANTS Devices, Clients, Nobody, Limit

VARIABLES
    lease,    \* who has each device
    served    \* the clients that were lent a device

leaseVars == <<lease, served>>

Lent == {d \in Devices : lease[d] # Nobody}

Init ==
    /\ lease = [d \in Devices |-> Nobody]
    /\ served = {}

Lend(c, d) ==
    /\ c \notin served
    /\ lease[d] = Nobody
    /\ Cardinality(Lent) < Limit
    /\ lease' = [lease EXCEPT ![d] = c]
    /\ served' = served \cup {c}

TakeBack(d) ==
    /\ lease[d] # Nobody
    /\ lease' = [lease EXCEPT ![d] = Nobody]
    /\ UNCHANGED served

Next == \E d \in Devices : TakeBack(d) \/ \E c \in Clients : Lend(c, d)

Spec == Init /\ [][Next]_leaseVars

=============================================================================
