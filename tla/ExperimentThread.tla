-------------------------- MODULE ExperimentThread --------------------------
(* The thread that performs the causal experiments: it selects an address from *)
(* the latest samples, makes an experiment active for its time, records it and *)
(* goes on to the next one, until the duration has passed or the profiler is   *)
(* finalized.  With it the sampling handlers that fill the slots it selects    *)
(* from, and the main thread that starts and finishes the experimenting.       *)
(*                                                                             *)
(* What an experiment measures is in CausalDelay and ProgressPoints.           *)
EXTENDS Integers, Sequences

CONSTANTS
    Address,        \* eligible addresses that are sampled
    Slots,          \* number of slots, one per frame of a call stack
    EndToEnd,       \* OMNITRACE_CAUSAL_END_TO_END: one experiment for all of the run
    Launched,       \* omnitrace-causal is the launcher
    HasDuration,    \* OMNITRACE_CAUSAL_DURATION is set
    MaxExperiments  \* bound: experiments that the thread tries

ASSUME ExperimentAssumption ==
    /\ Slots \in Nat \ {0} /\ MaxExperiments \in Nat
    /\ {EndToEnd, Launched, HasDuration} \subseteq BOOLEAN

None == 0           \* no address in a slot, no experiment
ASSUME AddressAssumption == None \notin Address

VARIABLES
    state,          \* get_state()
    points,         \* num_progress_points > 0
    sampling,       \* samplers are running
    sampler,        \* where a sampling handler is
    claimed,        \* the slot it has claimed
    idx,            \* eligible_pc_idx
    slots,          \* latest_eligible_pc
    thread,         \* where the experiment thread is
    number,         \* _impl_count: experiments tried
    current,        \* the experiment that current_experiment points to
    timeUp,         \* the time of the experiment has passed
    selection,      \* its address
    history,        \* experiment_history
    completed,      \* perform_experiment_impl_completed
    main,           \* where the main thread is
    cutOff,         \* history: a limit of the main thread's waits has been exceeded
    saved           \* experiments that have been saved

sampleVars == <<sampling, sampler, claimed, idx, slots>>
expVars == <<number, current, timeUp, selection, history>>
mainVars == <<state, main, cutOff, saved>>
vars == <<points, sampleVars, thread, expVars, completed, mainVars>>

Init ==
    /\ state = "Init" /\ points = FALSE
    /\ sampling = FALSE /\ sampler = "idle" /\ claimed = 1
    /\ idx = 0 /\ slots = [s \in 1 .. Slots |-> None]
    /\ thread = "none" /\ number = 0 /\ current = None /\ timeUp = FALSE
    /\ selection = None /\ history = << >> /\ completed = "none"
    /\ main = "start" /\ cutOff = FALSE /\ saved = 0

Alive == thread # "terminated"   \* std::terminate() has not ended the process

-----------------------------------------------------------------------------
(* A sampling handler on one of the program's threads                          *)

(* Mutant: samples of an experiment are selected from.                         *)
SampleWhileActive ==
    /\ Alive /\ sampling /\ sampler = "idle" /\ current # None
    /\ sampler' = "claim"
    /\ UNCHANGED <<points, sampling, claimed, idx, slots, thread, expVars, completed,
                   mainVars>>

(* backtrace::sample(): while no experiment is active ...                      *)
Sample ==
    /\ Alive /\ sampling /\ sampler = "idle" /\ current = None
    /\ sampler' = "claim"
    /\ UNCHANGED <<points, sampling, claimed, idx, slots, thread, expVars, completed,
                   mainVars>>

(* The index, of which only being 0 and the value modulo the slots matter.      *)
Increment(i) == IF i = 2 * Slots THEN Slots + 1 ELSE i + 1

(* Mutant: the index is not taken modulo the number of slots.                  *)
ClaimUnwrapped ==
    /\ Alive /\ sampler = "claim"
    /\ claimed' = idx + 1
    /\ idx' = Increment(idx)
    /\ sampler' = "store"
    /\ UNCHANGED <<points, sampling, slots, thread, expVars, completed, mainVars>>

(* ... set_current_selection() increments the index ...                        *)
Claim ==
    /\ Alive /\ sampler = "claim"
    /\ claimed' = (idx % Slots) + 1
    /\ idx' = Increment(idx)
    /\ sampler' = "store"
    /\ UNCHANGED <<points, sampling, slots, thread, expVars, completed, mainVars>>

(* ... and then stores the address.                                            *)
Store ==
    /\ Alive /\ sampler = "store"
    /\ \E a \in Address : slots' = [slots EXCEPT ![claimed] = a]
    /\ sampler' = "idle"
    /\ UNCHANGED <<points, sampling, claimed, idx, thread, expVars, completed, mainVars>>

(* The program passes its first progress point.                                *)
FirstPoint ==
    /\ Alive /\ main # "start" /\ ~points /\ points' = TRUE
    /\ UNCHANGED <<sampleVars, thread, expVars, completed, mainVars>>

-----------------------------------------------------------------------------
(* perform_experiment_impl()                                                   *)
GoTo(from, to) == thread = from /\ thread' = to

(* Mutant: the promise has its value while the thread still runs.              *)
SpawnCompleted ==
    /\ GoTo("spawned", IF EndToEnd THEN "next" ELSE "await")
    /\ completed' = "set"
    /\ UNCHANGED <<points, sampleVars, expVars, mainVars>>

(* The promise will have its value when the thread exits.                      *)
Begin ==
    /\ GoTo("spawned", IF EndToEnd THEN "next" ELSE "await")
    /\ completed' = "pending"
    /\ UNCHANGED <<points, sampleVars, expVars, mainVars>>

(* The wait for a progress point does not look at the state.                   *)
AwaitPoint ==
    /\ GoTo("await", "next") /\ points
    /\ UNCHANGED <<points, sampleVars, expVars, completed, mainVars>>

NextExperiment ==
    /\ \/ GoTo("next", "ended") /\ state = "Finalized" /\ UNCHANGED number
       \/ GoTo("next", "select") /\ state # "Finalized"
          /\ number < MaxExperiments /\ number' = number + 1
    /\ UNCHANGED <<points, sampleVars, current, timeUp, selection, history, completed,
                   mainVars>>

(* Mutant: the selection waits for a sample only.                              *)
AwaitSampleOnly ==
    /\ GoTo("select", "pick") /\ idx # 0
    /\ UNCHANGED <<points, sampleVars, expVars, completed, mainVars>>

(* sample_selection(): waits for a sample ...                                  *)
AwaitSample ==
    /\ \/ GoTo("select", "pick") /\ idx # 0
       \/ GoTo("select", "failed") /\ idx = 0 /\ state = "Finalized"
    /\ UNCHANGED <<points, sampleVars, expVars, completed, mainVars>>

Filled == {s \in 1 .. Slots : slots[s] # None}

(* ... and takes an address from any slot that has one, if there is any.       *)
Pick ==
    /\ \/ Filled = {} /\ GoTo("pick", "failed") /\ UNCHANGED selection
       \/ GoTo("pick", "start") /\ \E s \in Filled : selection' = slots[s]
    /\ UNCHANGED <<points, sampleVars, number, current, timeUp, history, completed, mainVars>>

(* experiment::start(): the delays are synchronized and the progress points    *)
(* collected; the state is checked ...                                         *)
CheckState ==
    /\ GoTo("start", IF state # "Finalized" THEN "publish" ELSE "failed")
    /\ UNCHANGED <<points, sampleVars, expVars, completed, mainVars>>

(* ... before the experiment is made active.                                   *)
Publish ==
    /\ GoTo("publish", "reset")
    /\ current' = number /\ timeUp' = FALSE
    /\ UNCHANGED <<points, sampleVars, number, selection, history, completed, mainVars>>

(* An experiment could not be started: that ends the thread if the profiler is *)
(* finalized, by an exception that nobody catches if it was the first one,     *)
(* except in an end-to-end run of omnitrace-causal.                            *)
Retry ==
    /\ GoTo("failed", IF state # "Finalized" THEN "select"
                      ELSE IF number > 1 \/ (EndToEnd /\ Launched) THEN "ended"
                      ELSE "terminated")
    /\ UNCHANGED <<points, sampleVars, expVars, completed, mainVars>>

(* reset_sample_selection(): the index, then the slots.                        *)
ResetIndex ==
    /\ GoTo("reset", "clear")
    /\ idx' = 0
    /\ UNCHANGED <<points, sampling, sampler, claimed, slots, expVars, completed, mainVars>>

ClearSlots ==
    /\ GoTo("clear", "run")
    /\ slots' = [s \in 1 .. Slots |-> None]
    /\ UNCHANGED <<points, sampling, sampler, claimed, idx, expVars, completed, mainVars>>

(* The experiment's time passes, end-to-end or not.                            *)
TimePasses ==
    /\ Alive /\ thread \in {"run", "stop"} /\ ~timeUp /\ timeUp' = TRUE
    /\ UNCHANGED <<points, sampleVars, thread, number, current, selection, history,
                   completed, mainVars>>

(* Mutant: the duration ends the thread in the middle of an experiment.        *)
RunUntilDuration ==
    /\ thread = "run"
    /\ thread' \in (IF state = "Finalized" \/ timeUp THEN {"stop"} ELSE {})
                   \cup (IF HasDuration THEN {"processing"} ELSE {})
    /\ UNCHANGED <<points, sampleVars, expVars, completed, mainVars>>

(* experiment::wait() ends with the time of the experiment or the profiler; an *)
(* end-to-end experiment, which is a progress point itself, with the profiler, *)
(* or at once when the duration has passed.                                    *)
Run ==
    /\ thread = "run"
    /\ \/ thread' = "stop" /\ (state = "Finalized" \/ (timeUp /\ ~EndToEnd))
       \/ thread' = "processing" /\ EndToEnd /\ HasDuration
    /\ points' = (points \/ EndToEnd)
    /\ UNCHANGED <<sampleVars, expVars, completed, mainVars>>

(* experiment::stop(), retried until the time has passed or at the end, ...    *)
Stop ==
    /\ \/ GoTo("stop", "record") /\ timeUp /\ current' = None
       \/ GoTo("stop", "ended") /\ ~timeUp /\ state = "Finalized" /\ UNCHANGED current
    /\ UNCHANGED <<points, sampleVars, number, timeUp, selection, history, completed,
                   mainVars>>

(* ... and the experiment is recorded if it has counted a progress point; then *)
(* the duration may have passed.                                               *)
Record ==
    /\ \/ GoTo("record", "next")
       \/ GoTo("record", "processing") /\ HasDuration
    /\ history' \in {history, Append(history, number)}
    /\ UNCHANGED <<points, sampleVars, number, current, timeUp, selection, completed,
                   mainVars>>

(* sampling::post_process(), by the experiment thread: samplers are stopped.   *)
ProcessSamples ==
    /\ GoTo("processing", "ended")
    /\ sampling' = FALSE
    /\ UNCHANGED <<points, sampler, claimed, idx, slots, expVars, completed, mainVars>>

Exit ==
    /\ GoTo("ended", "exited")
    /\ completed' = IF completed = "pending" THEN "set" ELSE completed
    /\ UNCHANGED <<points, sampleVars, expVars, mainVars>>

Experiments ==
    \/ Begin \/ AwaitPoint \/ NextExperiment \/ AwaitSample \/ Pick \/ CheckState
    \/ Publish \/ Retry \/ ResetIndex \/ ClearSlots \/ Run \/ Stop \/ Record
    \/ ProcessSamples \/ Exit

-----------------------------------------------------------------------------
(* The main thread                                                             *)
MainGo(from, to) == Alive /\ main = from /\ main' = to

(* start_experimenting(): the thread is detached ...                           *)
StartExperimenting ==
    /\ MainGo("start", "started")
    /\ thread' = "spawned"
    /\ UNCHANGED <<points, sampleVars, expVars, completed, state, cutOff, saved>>

(* ... and waited for, for two seconds; later the samplers are set up and the  *)
(* profiler is active.                                                         *)
Activate ==
    /\ MainGo("started", "run")
    /\ state' = "Active" /\ sampling' = TRUE
    /\ UNCHANGED <<points, sampler, claimed, idx, slots, thread, expVars, completed, cutOff,
                   saved>>

Finalize ==
    /\ MainGo("run", "samplers")
    /\ state' = "Finalized"
    /\ UNCHANGED <<points, sampleVars, thread, expVars, completed, cutOff, saved>>

ShutdownSamplers ==
    /\ MainGo("samplers", "finish")
    /\ sampling' = FALSE
    /\ UNCHANGED <<points, sampler, claimed, idx, slots, thread, expVars, completed, state,
                   cutOff, saved>>

(* finish_experimenting(): waits for the thread, if it has begun, but not      *)
(* longer than five seconds ...                                                *)
AwaitThread ==
    /\ MainGo("finish", "save")
    /\ cutOff' = (completed = "pending")
    /\ UNCHANGED <<points, sampleVars, thread, expVars, completed, state, saved>>

(* ... and saves the history.                                                  *)
Save ==
    /\ MainGo("save", "done")
    /\ saved' = Len(history)
    /\ UNCHANGED <<points, sampleVars, thread, expVars, completed, state, cutOff>>

MainThread ==
    \/ StartExperimenting \/ Activate \/ Finalize \/ ShutdownSamplers \/ AwaitThread
    \/ Save

Handler == Sample \/ Claim \/ Store

Next == Handler \/ FirstPoint \/ TimePasses \/ Experiments \/ MainThread

Spec == Init /\ [][Next]_vars

(* The threads are scheduled and time passes; samples are taken while the      *)
(* samplers run.  The program need not pass a progress point, nor end.         *)
FairSpec ==
    /\ Spec /\ WF_vars(Experiments) /\ WF_vars(TimePasses) /\ WF_vars(Handler)
    /\ WF_vars(MainThread /\ ~Finalize)

-----------------------------------------------------------------------------
(* The types; an experiment that is recorded has been tried, and one that is   *)
(* active has an address.                                                      *)
TypeOK ==
    /\ state \in {"Init", "Active", "Finalized"}
    /\ {points, sampling, timeUp, cutOff} \subseteq BOOLEAN
    /\ sampler \in {"idle", "claim", "store"} /\ claimed \in 1 .. Slots
    /\ idx \in 0 .. 2 * Slots /\ slots \in [1 .. Slots -> Address \cup {None}]
    /\ thread \in {"none", "spawned", "await", "next", "select", "pick", "start", "publish",
                   "failed", "reset", "clear", "run", "stop", "record", "processing",
                   "ended", "exited", "terminated"}
    /\ number \in 0 .. MaxExperiments /\ current \in {None, number}
    /\ selection \in Address \cup {None} /\ (current # None => selection # None)
    /\ history \in Seq(1 .. number)
    /\ completed \in {"none", "pending", "set"}
    /\ main \in {"start", "started", "run", "samplers", "finish", "save", "done"}
    /\ saved \in 0 .. Len(history)

(* Except at the end of the program an experiment is active only while its     *)
(* thread is performing it: once the duration has passed, "the application     *)
(* will continue without any overhead from causal profiling" (config.cpp:765), *)
(* and nobody is made to pause for an experiment that will not be measured.    *)
ActiveIsPerformed ==
    current # None /\ state # "Finalized" =>
        thread \in {"reset", "clear", "run", "stop"}

(* Unless the wait for the thread is cut off, the history that is saved is the  *)
(* final one, and the experiment thread no longer processes samples when the   *)
(* main thread does.                                                           *)
SavesAll ==
    main \in {"save", "done"} /\ ~cutOff =>
        /\ thread # "processing"
        /\ main = "done" => saved = Len(history)

(* The thread ends with the profiler, wherever it is, if the program has       *)
(* passed a progress point.                                                    *)
ThreadEnds ==
    (state = "Finalized" /\ (points \/ EndToEnd)) ~> thread \in {"exited", "terminated"}

(* As long as samples are taken, a thread that looks for an address to         *)
(* experiment with finds one, although the slots are reset while handlers are  *)
(* filling them.                                                               *)
FindsSelection ==
    thread = "select" ~> (current # None \/ state = "Finalized")
=============================================================================
