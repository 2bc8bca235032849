----------------------------- MODULE CausalDelay -----------------------------
(* The virtual-time delays of causal profiling.  While an experiment runs, a   *)
(* sample that hits the selected code raises the delay of its own thread;      *)
(* the thread publishes that into the global delay and every other thread      *)
(* sleeps until it has caught up.  Delays that pass while a thread waits in a   *)
(* blocking call are credited to it.  The experiment thread sets every thread  *)
(* to the global delay (sync) when an experiment starts and when it stops.     *)
(*                                                                             *)
(* Application threads, the sampling signal handler that interrupts them, and  *)
(* the experiment thread interleave at the accesses to the shared delays.      *)
(* get_global() is atomic, but its users read it more than once; a local delay *)
(* is a plain integer: += loads it in one step and stores it in another.       *)
EXTENDS Integers

CONSTANTS
    Thread,          \* application threads
    Initial,         \* those that run when profiling starts; the others are created
    NoThread,        \* owner of a free mutex
    SampleDelay,     \* values experiment::sample_delay may take (0: a 0% speed-up)
    Overhead,        \* by how much a sleep may last longer than requested
    MaxOverruns,     \* bound: sleeps that last longer
    Calls,           \* the wrapped calls the application makes
    MaxCalls,        \* bound: wrapped calls
    MaxHits,         \* bound: samples of a thread that hit the selected code
    MaxExperiments,  \* bound: experiments
    MaxDelay         \* bound: the largest delay (in absolute value) a run explores

ASSUME DelayAssumption ==
    /\ Initial \subseteq Thread
    /\ NoThread \notin Thread
    /\ SampleDelay \subseteq Nat
    /\ Overhead \subseteq Nat \ {0}
    /\ MaxOverruns \in Nat
    /\ Calls \subseteq {"lock", "trylock", "barrier", "unlock", "create"}
    /\ MaxCalls \in Nat
    /\ MaxHits \in Nat
    /\ MaxExperiments \in Nat
    /\ MaxDelay \in Nat

VARIABLES
    globalDelay,     \* delay::get_global()
    localDelay,      \* delay::get_local(t)
    active,          \* current_experiment # nullptr
    sampleDelay,     \* current_experiment_value.sample_delay
    credited,        \* history: samples that have raised the delay of a thread
    overruns,        \* history: sleeps that have lasted longer than requested
    calls,           \* history: wrapped calls
    quiet,           \* history: no sample has raised a delay since a thread left
                     \* process() when all had caught up
    expAt,           \* where the experiment thread is in start() / stop()
    experiments,     \* experiments started
    baseline,        \* experiment::total_delay as start() leaves it
    totalDelay,      \* experiment::total_delay as the last stop() leaves it
    syncValue,       \* _v of delay::sync()
    toFill,          \* threads fill() has still to write
    at,              \* at[t][c]: next step of thread t in context c
    held,            \* held[t][c]: the local variable of that step
    call,            \* the wrapped call thread t is in
    parent,          \* the thread that created t
    owner            \* holder of the application's mutex

delays == <<globalDelay, localDelay>>
expVars == <<active, sampleDelay, expAt, experiments, baseline, totalDelay,
             syncValue, toFill>>
threadVars == <<at, held, call, parent, owner>>
history == <<credited, overruns, calls, quiet>>
vars == <<delays, expVars, history, threadVars>>

(* The code of a thread, and the signal handler that interrupts it.            *)
Context == {"main", "handler"}

(* Positions inside delay::process(); the rest are positions of the callers.   *)
Processing == {"process", "copy", "write", "compare", "behind", "difference", "raise",
               "pause", "asleep", "awake"}
MainAt == Processing \cup {"unborn", "inherit", "user", "load", "pre", "call",
                           "post", "credit", "real"}
HandlerAt == Processing \cup {"none", "hit", "add"}
Positions(c) == IF c = "main" THEN MainAt ELSE HandlerAt

(* pause() and block_backtrace_samples() mask the sampling signals.            *)
Masked == {"asleep", "awake", "call"}

Runs(t, c) == c = "main" => at[t]["handler"] = "none"

Goto(t, c, where) == at' = [at EXCEPT ![t][c] = where]
Hold(t, c, value) == held' = [held EXCEPT ![t][c] = value]

SetDelay(t, value) == localDelay' = [localDelay EXCEPT ![t] = value]

(* All threads have caught up: each has the global delay, none is in the code  *)
(* below except to wait, and no sync is under way.                             *)
Waiting(t) == at[t]["main"] \in {"pre", "call", "post"}
Born(t) == at[t]["main"] \notin {"unborn", "inherit"}
AtRest ==
    /\ toFill = {}
    /\ \A t \in Thread :
          /\ at[t]["handler"] = "none"
          /\ at[t]["main"] \in {"unborn", "user", "real", "load"} \/ Waiting(t)
          /\ Waiting(t) => held[t]["main"] = globalDelay
          /\ Born(t) => localDelay[t] = globalDelay

Positive(n) == IF n > 0 THEN n ELSE 0
Within(n) == n \in -MaxDelay .. MaxDelay

Init ==
    /\ globalDelay = 0
    /\ localDelay = [t \in Thread |-> 0]
    /\ active = FALSE
    /\ sampleDelay = 0
    /\ credited = [t \in Thread |-> 0]
    /\ overruns = 0
    /\ calls = 0
    /\ quiet = TRUE
    /\ expAt = "idle"
    /\ experiments = 0
    /\ baseline = 0
    /\ totalDelay = 0
    /\ syncValue = 0
    /\ toFill = {}
    /\ at = [t \in Thread |->
                [c \in Context |-> IF c = "handler" THEN "none"
                                   ELSE IF t \in Initial THEN "user" ELSE "unborn"]]
    /\ held = [t \in Thread |-> [c \in Context |-> 0]]
    /\ call = [t \in Thread |-> "none"]
    /\ parent = [t \in Thread |-> NoThread]
    /\ owner = NoThread

-----------------------------------------------------------------------------
(* delay::process(), in the context c of thread t.                             *)

ProcessedReturns(t, c) == "none"   \* mutant: the caller is forgotten

(* Where a thread continues after process(): the handler returns, the wrappers *)
(* go on to the real call, pthread_barrier_wait first reads the global delay.  *)
Processed(t, c) ==
    IF c = "handler" THEN "none"
    ELSE IF call[t] = "barrier" THEN "load" ELSE "real"

(* The end of process(), with what the caller has written.                     *)
Return(t, c) == Goto(t, c, Processed(t, c)) /\ Hold(t, c, 0)
Settle == quiet' = (quiet \/ AtRest')

ProcessActive(t, c) ==
    /\ at[t][c] = "process" /\ Runs(t, c)
    /\ active
    /\ Goto(t, c, "compare")
    /\ UNCHANGED <<delays, expVars, history, held, call, parent, owner>>

(* get_local() = get_global() reads the one ...                                *)
ProcessInactive(t, c) ==
    /\ at[t][c] = "process" /\ Runs(t, c)
    /\ ~active
    /\ Goto(t, c, "copy")
    /\ UNCHANGED <<delays, expVars, history, held, call, parent, owner>>

Copy(t, c) ==
    /\ at[t][c] = "copy" /\ Runs(t, c)
    /\ Hold(t, c, globalDelay)
    /\ Goto(t, c, "write")
    /\ UNCHANGED <<delays, expVars, history, call, parent, owner>>

(* ... and writes the other.                                                   *)
Write(t, c) ==
    /\ at[t][c] = "write" /\ Runs(t, c)
    /\ SetDelay(t, held[t][c])
    /\ Return(t, c)
    /\ UNCHANGED <<globalDelay, expVars, credited, overruns, calls, call, parent, owner>>
    /\ Settle

(* Is the thread ahead?  If not, the delays are read again: is it behind?      *)
CompareAhead(t, c) ==
    /\ at[t][c] = "compare" /\ Runs(t, c)
    /\ Goto(t, c, IF globalDelay < localDelay[t] THEN "difference" ELSE "behind")
    /\ UNCHANGED <<delays, expVars, history, held, call, parent, owner>>

CompareBehind(t, c) ==
    /\ at[t][c] = "behind" /\ Runs(t, c)
    /\ UNCHANGED <<delays, expVars, credited, overruns, calls, call, parent, owner>>
    /\ IF globalDelay > localDelay[t]
       THEN Goto(t, c, "pause") /\ UNCHANGED <<held, quiet>>
       ELSE Return(t, c) /\ Settle

(* get_global() += (get_local() - get_global()) reads the global delay again   *)
(* and adds the difference in a second, separate atomic operation.             *)
Difference(t, c) ==
    /\ at[t][c] = "difference" /\ Runs(t, c)
    /\ Hold(t, c, localDelay[t] - globalDelay)
    /\ Goto(t, c, "raise")
    /\ UNCHANGED <<delays, expVars, history, call, parent, owner>>

Raise(t, c) ==
    /\ at[t][c] = "raise" /\ Runs(t, c)
    /\ Within(globalDelay + held[t][c])
    /\ globalDelay' = globalDelay + held[t][c]
    /\ Return(t, c)
    /\ UNCHANGED <<localDelay, expVars, credited, overruns, calls, call, parent, owner>>
    /\ Settle

(* With the signals masked, the thread sleeps for the lag it reads now ...     *)
Sleep(t, c) ==
    /\ at[t][c] = "pause" /\ Runs(t, c)
    /\ Hold(t, c, Positive(globalDelay - localDelay[t]))
    /\ Goto(t, c, "asleep")
    /\ UNCHANGED <<delays, expVars, history, call, parent, owner>>

(* ... and adds the time it has really slept: load ...                         *)
Wake(t, c) ==
    /\ at[t][c] = "asleep" /\ Runs(t, c)
    /\ \E late \in {0} \cup Overhead :
          /\ overruns' = IF late = 0 THEN overruns ELSE overruns + 1
          /\ overruns' <= MaxOverruns
          /\ Within(localDelay[t] + held[t][c] + late)
          /\ Hold(t, c, localDelay[t] + held[t][c] + late)
    /\ Goto(t, c, "awake")
    /\ UNCHANGED <<delays, expVars, credited, calls, quiet, call, parent, owner>>

(* Mutant: the time slept is not counted.                                      *)
ResumeUncounted(t, c) ==
    /\ at[t][c] = "awake" /\ Runs(t, c)
    /\ Return(t, c)
    /\ UNCHANGED <<delays, expVars, credited, overruns, calls, call, parent, owner>>
    /\ Settle

(* ... and store.                                                              *)
Resume(t, c) ==
    /\ at[t][c] = "awake" /\ Runs(t, c)
    /\ SetDelay(t, held[t][c])
    /\ Return(t, c)
    /\ UNCHANGED <<globalDelay, expVars, credited, overruns, calls, call, parent, owner>>
    /\ Settle

Process(t, c) ==
    \/ ProcessActive(t, c) \/ ProcessInactive(t, c) \/ Copy(t, c) \/ Write(t, c)
    \/ CompareAhead(t, c) \/ Difference(t, c) \/ Raise(t, c)
    \/ CompareBehind(t, c) \/ Sleep(t, c) \/ Wake(t, c) \/ Resume(t, c)

-----------------------------------------------------------------------------
(* blocking_gotcha and unblocking_gotcha: the wrapped calls of the application *)

Enter(t, name) ==
    /\ name \in Calls
    /\ at[t]["main"] = "user" /\ Runs(t, "main")
    /\ calls < MaxCalls /\ calls' = calls + 1
    /\ call' = [call EXCEPT ![t] = name]

Leave(t) == call' = [call EXCEPT ![t] = "none"]

BeginWait(t) == Goto(t, "main", "pre") /\ Hold(t, "main", globalDelay)

(* A blocking call first remembers the global delay ...                        *)
BeginBlocking(t) ==
    /\ \E name \in {"lock", "trylock"} : Enter(t, name) /\ owner # t
    /\ BeginWait(t)
    /\ UNCHANGED <<delays, expVars, credited, overruns, quiet, parent, owner>>

(* ... as pthread_barrier_wait does after its process().                       *)
BarrierLoad(t) ==
    /\ at[t]["main"] = "load" /\ Runs(t, "main")
    /\ BeginWait(t)
    /\ UNCHANGED <<delays, expVars, history, call, parent, owner>>

(* ... then masks the signals and makes the real call.                         *)
BlockSamples(t) ==
    /\ at[t]["main"] = "pre" /\ Runs(t, "main")
    /\ Goto(t, "main", "call")
    /\ UNCHANGED <<delays, expVars, history, held, call, parent, owner>>

(* The real call returns: the lock is taken, the barrier opens (when it does   *)
(* is up to the application), or a trylock fails and is not credited.          *)
RealBlockingReturns(t) ==
    /\ at[t]["main"] = "call"
    /\ \/ /\ call[t] \in {"lock", "trylock"} /\ owner = NoThread
          /\ owner' = t
          /\ Goto(t, "main", "post")
          /\ UNCHANGED <<held, call>>
       \/ /\ call[t] = "barrier"
          /\ Goto(t, "main", "post")
          /\ UNCHANGED <<held, call, owner>>
       \/ /\ call[t] = "trylock" /\ owner # NoThread
          /\ Goto(t, "main", "user")
          /\ Leave(t) /\ Hold(t, "main", 0)
          /\ UNCHANGED owner
    /\ UNCHANGED <<delays, expVars, history, parent>>

(* delay::postblock(): the delay that passed meanwhile needs no pause; it is   *)
(* added to the local delay as it is now ...                                   *)
Postblock(t) ==
    /\ at[t]["main"] = "post" /\ Runs(t, "main")
    /\ LET value == localDelay[t] + (globalDelay - held[t]["main"])
       IN  Within(value) /\ Hold(t, "main", value)
    /\ Goto(t, "main", "credit")
    /\ UNCHANGED <<delays, expVars, history, call, parent, owner>>

(* ... and stored, whatever a handler or a sync has written in between.        *)
Credit(t) ==
    /\ at[t]["main"] = "credit" /\ Runs(t, "main")
    /\ SetDelay(t, held[t]["main"])
    /\ Leave(t) /\ Goto(t, "main", "user") /\ Hold(t, "main", 0)
    /\ UNCHANGED <<globalDelay, expVars, history, parent, owner>>

(* A call that may wake another thread, or create one, first processes the     *)
(* delays of its caller.                                                       *)
BeginUnblocking(t) ==
    /\ \/ Enter(t, "unlock") /\ owner = t
       \/ Enter(t, "barrier")
       \/ Enter(t, "create") /\ \E u \in Thread : at[u]["main"] = "unborn"
    /\ Goto(t, "main", "process")
    /\ UNCHANGED <<delays, expVars, credited, overruns, quiet, held, parent, owner>>

RealUnlock(t) ==
    /\ at[t]["main"] = "real" /\ Runs(t, "main") /\ call[t] = "unlock"
    /\ owner' = NoThread
    /\ Leave(t) /\ Goto(t, "main", "user")
    /\ UNCHANGED <<delays, expVars, history, held, parent>>

(* The parent waits for the child at most 500 ms, so it may be ahead of it.    *)
RealCreate(t) ==
    /\ at[t]["main"] = "real" /\ Runs(t, "main") /\ call[t] = "create"
    /\ IF \E u \in Thread : at[u]["main"] = "unborn"
       THEN \E u \in Thread :
              /\ at[u]["main"] = "unborn"
              /\ parent' = [parent EXCEPT ![u] = t]
              /\ at' = [at EXCEPT ![t]["main"] = "user", ![u]["main"] = "inherit"]
       ELSE Goto(t, "main", "user") /\ UNCHANGED parent
    /\ Leave(t)
    /\ UNCHANGED <<delays, expVars, history, held, owner>>

(* Mutant: the child keeps the delay that the last sync has left in its slot.  *)
InheritNothing(t) ==
    /\ at[t]["main"] = "inherit"
    /\ Goto(t, "main", "user")
    /\ UNCHANGED <<delays, expVars, history, held, call, parent, owner>>

(* The child takes its parent's delay before its sampler starts; without a     *)
(* known parent it keeps the global delay that its own is constructed with.    *)
Inherit(t) ==
    /\ at[t]["main"] = "inherit"
    /\ SetDelay(t, IF parent[t] \in Thread THEN localDelay[parent[t]] ELSE globalDelay)
    /\ Goto(t, "main", "user")
    /\ UNCHANGED <<globalDelay, expVars, history, held, call, parent, owner>>

-----------------------------------------------------------------------------
(* backtrace::sample(), the handler of the two sampling signals.               *)

Interruptible(t) ==
    /\ at[t]["handler"] = "none"
    /\ at[t]["main"] \notin Masked \cup {"unborn", "inherit"}

(* CPU-clock signal: process the delays while an experiment is active.         *)
CpuTimeSignal(t) ==
    /\ Interruptible(t) /\ active
    /\ Goto(t, "handler", "process")
    /\ UNCHANGED <<delays, expVars, history, held, call, parent, owner>>

(* Real-time signal: the call-stack is in the selected code.                   *)
RealTimeSignal(t) ==
    /\ Interruptible(t) /\ active
    /\ credited[t] < MaxHits
    /\ Goto(t, "handler", "hit")
    /\ UNCHANGED <<delays, expVars, history, held, call, parent, owner>>

(* get_local() += get_delay(), which is 0 once the experiment has ended: load  *)
Hit(t) ==
    /\ at[t]["handler"] = "hit"
    /\ LET delay == IF active THEN sampleDelay ELSE 0
       IN  /\ Within(localDelay[t] + delay)
           /\ Hold(t, "handler", localDelay[t] + delay)
           /\ credited' = [credited EXCEPT ![t] = IF delay = 0 THEN @ ELSE @ + 1]
           /\ quiet' = (quiet /\ delay = 0)
    /\ Goto(t, "handler", "add")
    /\ UNCHANGED <<delays, expVars, overruns, calls, call, parent, owner>>

(* and store.                                                                  *)
HitAdds(t) ==
    /\ at[t]["handler"] = "add"
    /\ SetDelay(t, held[t]["handler"])
    /\ Hold(t, "handler", 0)
    /\ Goto(t, "handler", "none")
    /\ UNCHANGED <<globalDelay, expVars, history, call, parent, owner>>

-----------------------------------------------------------------------------
(* The experiment thread: experiment::start() and stop(), as far as they touch *)
(* the delays.                                                                 *)

SyncRead == syncValue' = globalDelay /\ toFill' = Thread

(* total_delay = delay::sync(): read the global delay ...                      *)
StartSync ==
    /\ expAt = "idle" /\ experiments < MaxExperiments
    /\ experiments' = experiments + 1
    /\ SyncRead /\ baseline' = globalDelay
    /\ expAt' = "startFill"
    /\ UNCHANGED <<delays, active, sampleDelay, totalDelay, history, threadVars>>

(* Mutant: the stop writes what the start has read.                            *)
FillBaseline(t) ==
    /\ t \in toFill
    /\ SetDelay(t, baseline)
    /\ toFill' = toFill \ {t}
    /\ UNCHANGED <<globalDelay, active, sampleDelay, expAt, experiments, baseline,
                   totalDelay, syncValue, history, threadVars>>

(* ... and write it to every thread, one at a time.                            *)
Fill(t) ==
    /\ t \in toFill
    /\ SetDelay(t, syncValue)
    /\ toFill' = toFill \ {t}
    /\ UNCHANGED <<globalDelay, active, sampleDelay, expAt, experiments, baseline,
                   totalDelay, syncValue, history, threadVars>>

(* current_experiment.store(this)                                              *)
Publish ==
    /\ expAt = "startFill" /\ toFill = {}
    /\ sampleDelay' \in SampleDelay
    /\ active' = TRUE
    /\ expAt' = "running"
    /\ UNCHANGED <<delays, experiments, baseline, totalDelay, syncValue, toFill, history, threadVars>>

(* current_experiment.store(nullptr): the experiment's time has passed.        *)
Retract ==
    /\ expAt = "running"
    /\ active' = FALSE
    /\ expAt' = "stopTotal"
    /\ UNCHANGED <<delays, sampleDelay, experiments, baseline, totalDelay, syncValue,
                   toFill, history, threadVars>>

StopTotal ==
    /\ expAt = "stopTotal"
    /\ totalDelay' = globalDelay - baseline
    /\ expAt' = "stopSync"
    /\ UNCHANGED <<delays, active, sampleDelay, experiments, baseline, syncValue,
                   toFill, history, threadVars>>

StopSync ==
    /\ expAt = "stopSync"
    /\ SyncRead
    /\ expAt' = "stopFill"
    /\ UNCHANGED <<delays, active, sampleDelay, experiments, baseline, totalDelay,
                   history, threadVars>>

Stopped ==
    /\ expAt = "stopFill" /\ toFill = {}
    /\ expAt' = "idle"
    /\ UNCHANGED <<delays, active, sampleDelay, experiments, baseline, totalDelay,
                   syncValue, toFill, history, threadVars>>

Experiment ==
    \/ StartSync \/ Publish \/ Retract \/ StopTotal \/ StopSync \/ Stopped
    \/ \E t \in Thread : Fill(t)

Signal(t) == CpuTimeSignal(t) \/ RealTimeSignal(t)
Sample(t) == Hit(t) \/ HitAdds(t)

Main(t) ==
    \/ BarrierLoad(t) \/ BlockSamples(t) \/ RealBlockingReturns(t) \/ Postblock(t)
    \/ Credit(t) \/ RealUnlock(t) \/ RealCreate(t) \/ Inherit(t)

Next ==
    \/ Experiment
    \/ \E t \in Thread :
          \/ \E c \in Context : Process(t, c)
          \/ BeginBlocking(t) \/ BeginUnblocking(t)
          \/ Main(t) \/ Signal(t) \/ Sample(t)

Spec == Init /\ [][Next]_vars

-----------------------------------------------------------------------------
TypeOK ==
    /\ globalDelay \in Int
    /\ localDelay \in [Thread -> Int]
    /\ active \in BOOLEAN /\ quiet \in BOOLEAN
    /\ sampleDelay \in Nat
    /\ credited \in [Thread -> Nat]
    /\ overruns \in 0 .. MaxOverruns /\ calls \in 0 .. MaxCalls
    /\ expAt \in {"idle", "startFill", "running", "stopTotal", "stopSync", "stopFill"}
    /\ experiments \in 0 .. MaxExperiments
    /\ baseline \in Int /\ totalDelay \in Int /\ syncValue \in Int
    /\ toFill \subseteq Thread
    /\ at \in [Thread -> [Context -> MainAt \cup HandlerAt]]
    /\ \A t \in Thread, c \in Context : at[t][c] \in Positions(c)
    /\ held \in [Thread -> [Context -> Int]]
    /\ call \in [Thread -> Calls \cup {"none"}]
    /\ parent \in [Thread -> Thread \cup {NoThread}]
    /\ owner \in Thread \cup {NoThread}

Pausing(t, c) == at[t][c] = "asleep" /\ held[t][c] > 0

(* No pause without a hit: once all threads have caught up with the global     *)
(* delay, in an experiment or between two, nobody sleeps in delay::process()   *)
(* before a sample has raised the delay of a thread again, although syncs,     *)
(* waits, creations, the copies of an inactive process() and hits without a    *)
(* delay go on changing the delays.  In particular a program whose selected    *)
(* code does not run, and a 0% speed-up, are not slowed down.                  *)
QuietWithoutHit == quiet => \A t \in Thread, c \in Context : ~Pausing(t, c)

(* The pauses slow down all other code: a thread is made to sleep only when    *)
(* another one has run the selected code.  The code does not keep to that:     *)
(* a sync that meets a thread between two steps of process() puts it ahead in  *)
(* the next experiment, and so does a sleep that overruns.                     *)
PausesOnlyOthers ==
    \A t \in Thread, c \in Context :
        Pausing(t, c) => \E u \in Thread \ {t} : credited[u] > 0

(* A wait never puts ahead of the global delay a thread that has not run the   *)
(* selected code: else its next process() makes every other thread pause for   *)
(* a delay that nobody has earned.  The code does not keep to that: a sync     *)
(* during the wait credits it a first time.                                    *)
WaitNeverPutsAhead ==
    [][\A t \in Thread :
          /\ at[t]["main"] = "credit" /\ at'[t]["main"] = "user"
          /\ credited[t] = 0
          => localDelay'[t] <= globalDelay']_vars

(* What the threads, the sampling timers and the experiment thread do by       *)
(* themselves; an experiment may last forever.                                 *)
Fairness ==
    /\ WF_vars(Experiment /\ ~Retract)
    /\ \A t \in Thread :
          /\ \A c \in Context : WF_vars(Process(t, c))
          /\ WF_vars(Main(t))
          /\ WF_vars(Sample(t))
          /\ SF_vars(CpuTimeSignal(t))

FairSpec == Spec /\ Fairness

(* Delays reach every thread: if an experiment lasts, and so there are no more *)
(* hits and no sleeps that overrun, all threads end up at the global delay and *)
(* stay there, whatever the experiments before it and the stores that were     *)
(* lost have left behind.                                                      *)
DelaysConverge ==
    <>[]active =>
        <>[](\A t \in Thread : at[t]["main"] \notin {"call", "unborn"}
                                => localDelay[t] = globalDelay)
=============================================================================
