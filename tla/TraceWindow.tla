---------------------------- MODULE TraceWindow ----------------------------
(* The trace time windows: a detached thread that executes the specs of        *)
(* OMNITRACE_TRACE_DELAY / _DURATION / _PERIODS one after the other, enabling  *)
(* and disabling the data categories, while the main thread activates the      *)
(* profiler and, at the end, finalizes it.  All enabled categories are         *)
(* switched together: `enabled` stands for one of them.                        *)
(*                                                                             *)
(* A wait is over when its clock says so, which is up to the environment, or   *)
(* when the profiler is finalized, which it polls.                             *)
EXTENDS Integers, SequencesExt

CONSTANTS
    Settings,        \* the settings a run of the program may have: its
                     \* OMNITRACE_TRACE_DELAY and _DURATION, and the lines of
                     \* _PERIODS, each the sequence of its fields
    Negligible       \* a millisecond (1.0e-3) in the unit of the settings

ASSUME WindowAssumption ==
    /\ Negligible \in Nat
    /\ \A s \in Settings :
          /\ s.delay \in Nat /\ s.duration \in Nat
          /\ Len(s.periods) \in Nat /\ DOMAIN s.periods = 1 .. Len(s.periods)
          /\ \A i \in DOMAIN s.periods : Len(s.periods[i]) \in 1 .. 4

VARIABLES
    settings,        \* the settings, read once
    state,           \* get_state()
    enabled,         \* trait::runtime_enabled<Category>
    main,            \* where the main thread is
    at,              \* stage of the window thread
    spec,            \* index of the spec it executes
    cycle            \* repetitions of this spec completed

windowVars == <<settings, state, enabled, main, at, spec, cycle>>

-----------------------------------------------------------------------------
(* utility::convert<T>: a stream extraction, which gives 0 for a word.         *)
Convert(field) == IF field \in Nat THEN field ELSE 0

(* spec::spec(line): what is missing is taken from the other settings.  The    *)
(* clock (field 4) only says how fast the time passes.                         *)
Period(line) ==
    [delay    |-> Convert(line[1]),
     duration |-> IF Len(line) > 1 THEN Convert(line[2]) ELSE settings.duration,
     repeat   |-> IF Len(line) > 2 THEN Convert(line[3]) ELSE 1]

(* get_trace_specs()                                                           *)
Specs ==
    (IF settings.delay > 0 \/ settings.duration > 0
     THEN <<[delay |-> settings.delay, duration |-> settings.duration, repeat |-> 1]>>
     ELSE << >>)
    \o [i \in DOMAIN settings.periods |-> Period(settings.periods[i])]

Current == Specs[spec]

(* Only for a delay of more than a millisecond data is switched off.           *)
Delayed(s) == s.delay > Negligible

WindowInit ==
    /\ settings \in Settings
    /\ state = "Init"
    /\ enabled = TRUE
    /\ main = "setup"
    /\ at = IF Specs = << >> THEN "done" ELSE "setup"
    /\ spec = 1
    /\ cycle = 0

-----------------------------------------------------------------------------
(* The window thread: spec::operator() with the stages of categories::setup()  *)

Stage(from, to) == at = from /\ at' = to

(* The first thing the thread does.                                            *)
FirstDisable ==
    /\ Stage("setup", "next")
    /\ enabled' = (enabled /\ ~Delayed(Specs[1]))
    /\ UNCHANGED <<settings, state, main, spec, cycle>>

(* Mutant: waits for the active state itself, which may have passed.            *)
NextSpecIfActive ==
    /\ at = "next"
    /\ IF spec > Len(Specs) THEN at' = "done"
       ELSE state = "Active" /\ at' = "init"
    /\ UNCHANGED <<settings, state, enabled, main, spec, cycle>>

(* Mutant: the index goes past the end of the list.                            *)
NextSpecCounted ==
    /\ at = "next"
    /\ IF spec > Len(Specs) THEN at' = "done" /\ spec' = spec + 1
       ELSE state \in {"Active", "Finalized"} /\ at' = "init" /\ UNCHANGED spec
    /\ UNCHANGED <<settings, state, enabled, main, cycle>>

(* The next spec waits until the profiler is active.                           *)
NextSpec ==
    /\ at = "next"
    /\ IF spec > Len(Specs) THEN at' = "done"
       ELSE state \in {"Active", "Finalized"} /\ at' = "init"
    /\ UNCHANGED <<settings, state, enabled, main, spec, cycle>>

(* A stage returned false: on to the next spec.                                *)
Break == at' = "next" /\ spec' = spec + 1 /\ cycle' = 0

GoOnTo(to) == at' = to /\ UNCHANGED <<spec, cycle>>

Begin ==
    /\ at = "init"
    /\ enabled' = (enabled /\ ~Delayed(Current))
    /\ IF state # "Finalized" THEN GoOnTo("wait") ELSE Break
    /\ UNCHANGED <<settings, state, main>>

(* _wait(_stages.wait, delay): its time has passed, or it sees the end.        *)
Wait ==
    /\ at = "wait"
    /\ \/ GoOnTo("start")
       \/ Current.delay > 0 /\ state = "Finalized" /\ Break
    /\ UNCHANGED <<settings, state, enabled, main>>

Start ==
    /\ at = "start"
    /\ enabled' = TRUE
    /\ IF state # "Finalized" THEN GoOnTo("collect") ELSE Break
    /\ UNCHANGED <<settings, state, main>>

Collect ==
    /\ at = "collect"
    /\ \/ GoOnTo("stop")
       \/ Current.duration > 0 /\ state = "Finalized" /\ Break
    /\ UNCHANGED <<settings, state, enabled, main>>

(* The stop stage checks the state ...                                         *)
StopCheck ==
    /\ at = "stop"
    /\ IF state # "Finalized" THEN GoOnTo("disable") ELSE Break
    /\ UNCHANGED <<settings, state, enabled, main>>

(* The next repetition, if there is one.  A repeat of 0 means without end.     *)
Repeat ==
    IF Current.repeat = 0 THEN GoOnTo("init")
    ELSE IF cycle + 1 < Current.repeat
         THEN at' = "init" /\ cycle' = cycle + 1 /\ UNCHANGED spec
         ELSE Break

(* Mutant: only the repetitions before the last are stopped.                    *)
StopAllButLast ==
    /\ at = "disable"
    /\ enabled' = (cycle + 1 >= Current.repeat)
    /\ IF state = "Finalized" THEN Break ELSE Repeat
    /\ UNCHANGED <<settings, state, main>>

(* ... and then disables the categories.                                       *)
StopDisable ==
    /\ at = "disable"
    /\ enabled' = FALSE
    /\ IF state = "Finalized" THEN Break ELSE Repeat
    /\ UNCHANGED <<settings, state, main>>

Window ==
    \/ FirstDisable \/ NextSpec \/ Begin \/ Wait \/ Start \/ Collect
    \/ StopCheck \/ StopDisable

-----------------------------------------------------------------------------
(* The main thread                                                             *)

(* The end of omnitrace_init_tooling(), after categories::setup(), which waits *)
(* a second, and no longer, for the first step of the window thread.           *)
Activate ==
    /\ main = "setup" /\ main' = "run"
    /\ state' = "Active"
    /\ UNCHANGED <<settings, enabled, at, spec, cycle>>

(* omnitrace_finalize(): set_state(State::Finalized) ...  That main's region is *)
(* popped just before is the return of main in TraceRegions.                   *)
Finalize ==
    /\ main = "run" /\ main' = "finalizing"
    /\ state' = "Finalized"
    /\ UNCHANGED <<settings, enabled, at, spec, cycle>>

(* ... then the categories are enabled, for the output of their data ...       *)
EnableCategories ==
    /\ main = "finalizing" /\ main' = "output"
    /\ enabled' = TRUE
    /\ UNCHANGED <<settings, state, at, spec, cycle>>

(* ... and disabled by categories::shutdown().                                 *)
DisableCategories ==
    /\ main = "output" /\ main' = "done"
    /\ enabled' = FALSE
    /\ UNCHANGED <<settings, state, at, spec, cycle>>

Main == Activate \/ Finalize \/ EnableCategories \/ DisableCategories

WindowNext == Window \/ Main

WindowSpec == WindowInit /\ [][WindowNext]_windowVars

(* The window thread is scheduled; its clocks advance.                         *)
WindowFairSpec == WindowSpec /\ WF_windowVars(Window) /\ WF_windowVars(Activate)

-----------------------------------------------------------------------------
WindowTypeOK ==
    /\ settings \in Settings
    /\ state \in {"Init", "Active", "Finalized"}
    /\ enabled \in BOOLEAN
    /\ main \in {"setup", "run", "finalizing", "output", "done"}
    /\ at \in {"setup", "next", "init", "wait", "start", "collect", "stop",
               "disable", "done"}
    /\ spec \in 1 .. Len(Specs) + 1
    /\ cycle \in Nat

(* While the profiler is active no data is collected during a delay of more    *)
(* than a millisecond, data is collected during a duration, and none between   *)
(* two windows and after the last one.                                         *)
CollectsInWindows ==
    state = "Active" =>
        /\ at = "wait" /\ Delayed(Current) => ~enabled
        /\ at = "collect" => enabled
        /\ at \in {"next", "init"} /\ (spec > 1 \/ cycle > 0) => ~enabled
        /\ at = "done" /\ Specs # << >> => ~enabled

(* The thread does not outlive the finalization by more than one poll of its   *)
(* clock, however many repetitions are left.                                   *)
WindowEnds == state = "Finalized" ~> at = "done"

(* While the data is written, the categories are enabled: if they were not, it *)
(* would suppress the output (library.cpp:732, categories.cpp:118).            *)
OutputEnabled == main = "output" => enabled

(* A delay without a duration enables the data collection once it has passed,  *)
(* and a duration of 0 does not limit it (config.cpp:373, config.cpp:379).     *)
DelayOnlyCollects ==
    settings.delay > 0 /\ settings.duration = 0 => <>[](enabled \/ state = "Finalized")
=============================================================================
