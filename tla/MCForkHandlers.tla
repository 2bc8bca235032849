--------------------------- MODULE MCForkHandlers ---------------------------
(* Instances of ForkHandlers for TLC.                                          *)
EXTENDS ForkHandlers

NoWindow == {[delay |-> 0, duration |-> 0, periods |-> << >>]}
Delay == {[delay |-> 2, duration |-> 0, periods |-> << >>]}
=============================================================================
