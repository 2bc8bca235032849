---------------------------- MODULE MCCausalDelay ----------------------------
(* Instances of CausalDelay for TLC.                                           *)
EXTENDS CausalDelay

CONSTANTS t1, t2, t3

=============================================================================
