------------------------- MODULE MCIosConnections -------------------------
(***************************************************************************)
(* Instances of IosConnections for TLC: sessions s1 to s3 on devices i1 and *)
(* i2.                                                                      *)
(***************************************************************************)
EXTENDS IosConnections

CONSTANTS s1, s2, s3, i1, i2, p1, p2, p3

=============================================================================
