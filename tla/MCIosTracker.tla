---------------------------- MODULE MCIosTracker ----------------------------
(***************************************************************************)
(* Instances of IosTracker for TLC: devices u1 and u2.                      *)
(***************************************************************************)
EXTENDS IosTracker

CONSTANTS u1, u2

=============================================================================
