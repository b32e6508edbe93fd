----------------------------- MODULE NodeLease -----------------------------
(***************************************************************************)
(* What nodes promise a hub, whatever the documents of the two say: a       *)
(* request is sent to the node of one device, once; while it waits the node *)
(* may lend it that device or, if it names several, another of its own that *)
(* it names, if nobody has it, or refuse; a device goes back alone, or with *)
(* all the devices of a node that stops.                                    *)
(***************************************************************************)
CONSTANTS Nodes, Devices, HostOf, Requests, Named, None

VARIABLES
    asked,     \* the device a request was sent to
    waiting,   \* the requests a node has yet to answer
    lease      \* who has each device

leaseVars == <<asked, waiting, lease>>

Init ==
    /\ asked = [q \in Requests |-> None]
    /\ waiting = {}
    /\ lease = [d \in Devices |-> None]

Ask(q, d) ==
    /\ asked[q] = None
    /\ asked' = [asked EXCEPT ![q] = d]
    /\ waiting' = waiting \cup {q}
    /\ UNCHANGED lease

Suits(q, d) ==
    /\ HostOf[d] = HostOf[asked[q]]
    /\ d = asked[q] \/ d \in Named[q]

Lend(q, d) ==
    /\ q \in waiting
    /\ Suits(q, d)
    /\ lease[d] = None
    /\ lease' = [lease EXCEPT ![d] = q]
    /\ waiting' = waiting \ {q}
    /\ UNCHANGED asked

Refuse(q) ==
    /\ q \in waiting
    /\ waiting' = waiting \ {q}
    /\ UNCHANGED <<asked, lease>>

TakeBack(d) ==
    /\ lease[d] # None
    /\ lease' = [lease EXCEPT ![d] = None]
    /\ UNCHANGED <<asked, waiting>>

Stop(n) ==
    /\ lease' = [d \in Devices |-> IF HostOf[d] = n THEN None ELSE lease[d]]
    /\ waiting' = {q \in waiting : HostOf[asked[q]] # n}
    /\ UNCHANGED asked

Next ==
    \/ \E q \in Requests : Refuse(q) \/ \E d \in Devices : Ask(q, d) \/ Lend(q, d)
    \/ \E d \in Devices : TakeBack(d)
    \/ \E n \in Nodes : Stop(n)

Spec == Init /\ [][Next]_leaseVars

=============================================================================
