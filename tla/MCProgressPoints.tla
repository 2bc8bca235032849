-------------------------- MODULE MCProgressPoints --------------------------
(* Instances of ProgressPoints for TLC.                                        *)
EXTENDS ProgressPoints

CONSTANTS t1, t2   \* threads
=============================================================================
