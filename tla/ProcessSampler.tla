--------------------------- MODULE ProcessSampler ---------------------------
(* The background process sampler: a thread that polls the system metrics at   *)
(* an interval, from the set up of the profiler to its finalization, when the  *)
(* main thread shuts it down, waits for it and processes what it has sampled.  *)
(*                                                                             *)
(* Of the components that are sampled, the model has rocm-smi, whose library   *)
(* is shut down with the sampler.                                              *)
EXTENDS Integers

CONSTANTS
    HasDuration,   \* sampling ends when a duration has passed
    MaxSamples     \* bound: samples that the thread takes

ASSUME SamplerAssumption == HasDuration \in BOOLEAN /\ MaxSamples \in Nat

VARIABLES
    state,         \* get_state(), of the profiler
    samplerState,  \* get_sampler_state()
    smiState,      \* rocm_smi::get_state()
    smiOpen,       \* the rocm-smi library is initialized
    rocmLoaded,    \* the HSA runtime has loaded the tool
    isSampling,    \* get_sampler_is_sampling()
    finished,      \* polling_finished has its value
    poll,          \* where the polling thread is
    main,          \* where the main thread is
    taken,       \* samples in the data of the components
    processed      \* samples that have been processed

smi == <<smiState, smiOpen, rocmLoaded>>
processVars == <<state, samplerState, smi, isSampling, finished, poll, main, taken, processed>>

SamplerInit ==
    /\ state = "Init" /\ samplerState = "PreInit"
    /\ smiState = "PreInit" /\ smiOpen = FALSE /\ rocmLoaded = FALSE
    /\ isSampling = FALSE /\ finished = FALSE
    /\ poll = "none" /\ main = "setup"
    /\ taken = 0 /\ processed = 0

-----------------------------------------------------------------------------
(* sampler::poll()                                                             *)
GoTo(from, to) == poll = from /\ poll' = to

(* Before it polls, the components take an initial sample, which rocm-smi reads *)
(* from the device if it is active.                                            *)
Configure ==
    /\ GoTo("config", IF smiState = "Active" THEN "readInitial" ELSE "loop")
    /\ UNCHANGED <<state, samplerState, smi, isSampling, finished, main,
                   taken, processed>>

Continues == samplerState # "Finalized" /\ state # "Finalized"

(* Mutant: the end is left to the checks in the loop.                          *)
LoopForever ==
    /\ GoTo("loop", "asleep")
    /\ UNCHANGED <<state, samplerState, smi, isSampling, finished, main,
                   taken, processed>>

Loop ==
    /\ GoTo("loop", IF Continues THEN "asleep" ELSE "ending")
    /\ UNCHANGED <<state, samplerState, smi, isSampling, finished, main,
                   taken, processed>>

(* It wakes up and returns to the head of the loop unless both are active; at   *)
(* the bound it keeps polling and takes no sample.                             *)
Wake ==
    /\ GoTo("asleep", IF samplerState # "Active" THEN "loop"
                      ELSE IF state = "Finalized" THEN "ending"
                      ELSE IF state # "Active" \/ taken = MaxSamples THEN "loop"
                      ELSE "sample")
    /\ UNCHANGED <<state, samplerState, smi, isSampling, finished, main,
                   taken, processed>>

Sample ==
    /\ GoTo("sample", "device")
    /\ isSampling' = TRUE
    /\ UNCHANGED <<state, samplerState, smi, finished, main, taken,
                   processed>>

(* rocm_smi::data::sample() checks its state ...                               *)
CheckDevice ==
    /\ GoTo("device", IF smiState = "Active" THEN "read" ELSE "sampled")
    /\ UNCHANGED <<state, samplerState, smi, isSampling, finished, main,
                   taken, processed>>

(* ... and reads the device, which fails once the library is shut down.        *)
ReadDevice ==
    /\ GoTo("read", "sampled") \/ GoTo("readInitial", "loop")
    /\ smiState' = IF smiOpen THEN smiState ELSE "Disabled"
    /\ UNCHANGED <<state, samplerState, smiOpen, rocmLoaded, isSampling, finished, main, taken,
                   processed>>

(* Mutant: the flag is reset when polling ends only.                           *)
SampledBusy ==
    /\ poll = "sampled"
    /\ poll' \in {"loop"} \cup (IF HasDuration THEN {"ending"} ELSE {})
    /\ taken' = taken + 1
    /\ UNCHANGED <<state, samplerState, smi, isSampling, finished, main, processed>>

(* The last component, cpu_freq; then the duration may have passed.            *)
Sampled ==
    /\ poll = "sampled"
    /\ poll' \in {"loop"} \cup (IF HasDuration THEN {"ending"} ELSE {})
    /\ isSampling' = FALSE
    /\ taken' = taken + 1
    /\ UNCHANGED <<state, samplerState, smi, finished, main, processed>>

Ending ==
    /\ GoTo("ending", "done")
    /\ isSampling' = FALSE
    /\ finished' = TRUE
    /\ UNCHANGED <<state, samplerState, smi, main, taken, processed>>

Poll ==
    \/ Configure \/ Loop \/ Wake \/ Sample \/ CheckDevice \/ ReadDevice \/ Sampled
    \/ Ending

-----------------------------------------------------------------------------
(* The main thread                                                             *)
MainStep(from, to) == main = from /\ main' = to

(* sampler::setup(): the thread is started before the sampler is active.       *)
SetupSampler ==
    /\ MainStep("setup", "activate")
    /\ smiState' = "PreInit" /\ smiOpen' = TRUE
    /\ poll' = "config"
    /\ UNCHANGED <<state, samplerState, rocmLoaded, isSampling, finished, taken,
                   processed>>

ActivateSampler ==
    /\ MainStep("activate", "init")
    /\ samplerState' = "Active"
    /\ UNCHANGED <<state, smi, isSampling, finished, poll, taken,
                   processed>>

(* The profiler is active ...                                                  *)
ActivateProfiler ==
    /\ MainStep("init", "run")
    /\ state' = "Active"
    /\ UNCHANGED <<samplerState, smi, isSampling, finished, poll, taken, processed>>

(* ... until omnitrace_finalize().                                             *)
FinalizeProfiler ==
    /\ MainStep("run", "shutdown")
    /\ state' = "Finalized"
    /\ UNCHANGED <<samplerState, smi, isSampling, finished, poll, taken,
                   processed>>

(* sampler::shutdown(): its state, the components ...                          *)
ShutdownSampler ==
    /\ MainStep("shutdown", "components")
    /\ samplerState' = "Finalized"
    /\ UNCHANGED <<state, smi, isSampling, finished, poll, taken,
                   processed>>

ShutdownComponents ==
    /\ MainStep("components", "wait")
    /\ smiState' = "Finalized" /\ smiOpen' = FALSE
    /\ UNCHANGED <<state, samplerState, rocmLoaded, isSampling, finished, poll, taken,
                   processed>>

(* ... the wait until it is not sampling or a hundred tries have failed, and   *)
(* that for the promise, which has a timeout ...                               *)
WaitNotSampling ==
    /\ MainStep("wait", "join")
    /\ UNCHANGED <<state, samplerState, smi, isSampling, finished, poll,
                   taken, processed>>

(* Mutant: the thread is given up.                                             *)
JoinDetached ==
    /\ MainStep("join", "process")
    /\ UNCHANGED <<state, samplerState, smi, isSampling, finished, poll,
                   taken, processed>>

(* ... and the join.                                                           *)
JoinSampler ==
    /\ MainStep("join", "process") /\ poll = "done"
    /\ UNCHANGED <<state, samplerState, smi, isSampling, finished, poll,
                   taken, processed>>

(* sampler::post_process()                                                     *)
PostProcess ==
    /\ MainStep("process", "done")
    /\ processed' = taken
    /\ UNCHANGED <<state, samplerState, smi, isSampling, finished, poll,
                   taken>>

SamplerMain ==
    \/ SetupSampler \/ ActivateSampler \/ ActivateProfiler \/ FinalizeProfiler \/ ShutdownSampler
    \/ ShutdownComponents \/ WaitNotSampling \/ JoinSampler \/ PostProcess

(* OnLoad(): the HSA runtime loads the tool, once, on a thread of the program. *)
LoadRocm ==
    /\ ~rocmLoaded /\ rocmLoaded' = TRUE
    /\ smiState' = "Active"
    /\ UNCHANGED <<state, samplerState, smiOpen, isSampling, finished, poll, main,
                   taken, processed>>

SamplerNext == Poll \/ SamplerMain \/ LoadRocm

SamplerSpec == SamplerInit /\ [][SamplerNext]_processVars

(* Both threads are scheduled by the operating system.                         *)
SamplerFairSpec == SamplerSpec /\ WF_processVars(Poll) /\ WF_processVars(SamplerMain)

-----------------------------------------------------------------------------
(* The types; and the thread shows that it is sampling exactly while it is.    *)
SamplerTypeOK ==
    /\ {state, samplerState} \subseteq {"PreInit", "Init", "Active", "Finalized"}
    /\ smiState \in {"PreInit", "Active", "Finalized", "Disabled"}
    /\ smiOpen \in BOOLEAN /\ rocmLoaded \in BOOLEAN
    /\ isSampling \in BOOLEAN /\ finished \in BOOLEAN
    /\ poll \in {"none", "config", "readInitial", "loop", "asleep", "sample", "device",
                 "read", "sampled", "ending", "done"}
    /\ main \in {"setup", "activate", "init", "run", "shutdown", "components", "wait",
                 "join", "process", "done"}
    /\ taken \in 0 .. MaxSamples /\ processed \in 0 .. MaxSamples
    /\ isSampling <=> poll \in {"device", "read", "sampled"}

(* The samples are processed when no more are taken, and none is missed: the   *)
(* data of a component is a plain container that the thread appends to.        *)
ProcessesAll ==
    main \in {"process", "done"} =>
        /\ poll = "done"
        /\ main = "done" => processed = taken

(* The shutdown returns: the join is not for ever, although the thread only    *)
(* looks at the states between two samples.                                    *)
ShutdownReturns == main = "shutdown" ~> main = "done"

(* The devices are read only while their library is initialized: the sampler   *)
(* is shut down "until the sampler is no longer sampling"                      *)
(* (process_sampler.cpp:196).                                                  *)
ReadsOpenDevices == poll \in {"read", "readInitial"} => smiOpen
=============================================================================
