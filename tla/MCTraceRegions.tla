--------------------------- MODULE MCTraceRegions ---------------------------
(* Instances of TraceRegions for TLC.                                          *)
EXTENDS TraceRegions

CONSTANTS t1, t2   \* threads

Setting(delay, duration, periods) ==
    [delay |-> delay, duration |-> duration, periods |-> periods]

GoesOff == {Setting(0, 1, << >>)}
OnOrGoesOff == {Setting(0, 0, << >>)} \cup GoesOff
DelayThenDuration == {Setting(1, 1, << >>)}
=============================================================================
