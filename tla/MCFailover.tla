---------------------------- MODULE MCFailover -----------------------------
(* Instances of Failover for TLC.                                          *)
EXTENDS Failover

CONSTANTS p1, p2, p3
=============================================================================
