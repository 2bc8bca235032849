--------------------------- MODULE MCTraceWindow ---------------------------
(* Instances of TraceWindow for TLC.                                           *)
EXTENDS TraceWindow

CONSTANT realtime   \* the name of a clock, as a field of a period

Setting(delay, duration, periods) ==
    [delay |-> delay, duration |-> duration, periods |-> periods]

OneWindow == {Setting(1, 1, << >>)}
DelayOnly == {Setting(2, 0, << >>)}

(* Nothing; a duration; a delay and a duration, also followed by 0:1:2; 10     *)
(* and 10:1:2, where the first takes its duration from the settings; 5:1:0,    *)
(* without end, between two others.  A delay of 1 is negligible if Negligible  *)
(* is 1.                                                                       *)
Schedules ==
    OneWindow \cup
    {Setting(0, 0, << >>), Setting(0, 1, << >>), Setting(2, 1, <<<<0, 1, 2>>>>),
     Setting(0, 0, <<<<10>>, <<10, 1, 2>>>>),
     Setting(0, 2, <<<<10, 1, 2>>, <<5, 1, 0>>, <<1, 1>>>>)}

(* realtime:10:1:5, the example of the development guide                        *)
Documented == {Setting(0, 0, <<<<realtime, 10, 1, 5>>>>)}

(* docs/reference/development-guide.rst:395 and :404: a period has the format  *)
(* clock_identifier:delay:capture_duration:cycles, so that this one collects   *)
(* for one second after a delay of ten, five times.                            *)
PeriodsAsDocumented ==
    at \in {"init", "wait", "start", "collect"} =>
        Current = [delay |-> 10, duration |-> 1, repeat |-> 5]
=============================================================================
