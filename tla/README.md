# Omnitrace: verification project

Omnitrace instruments a program (by rewriting its binary, by preloading a library, or from Python), records regions,
samples and counters while it runs, and writes a trace and a profile when it ends. Its causal profiler runs *virtual
speed-up* experiments: instead of making some code faster it makes everything else pause.

Almost all of omnitrace runs inside the program it observes: in the program's threads, in signal handlers that interrupt
them at any instruction, and in a few threads of its own. There is little locking; state is thread-local where possible and
atomic where not. The interesting questions are therefore about orders: of the application's calls, of handlers and the code
they interrupt, of background threads and finalization. This project models those parts in TLA+, checks small instances with
TLC and proves theorems about the core with TLAPS.

Paths are relative to the repository; `lib/` stands for `src/source/lib/`, `libom/` for `src/source/lib/omnitrace/library/`,
`core/` for `src/source/lib/core/`.

## 1. Inventory

### 1.1 Components, state and operations

| Component | State | Operations | What makes it correct | Module |
|---|---|---|---|---|
| Virtual delays (`libom/causal/delay.cpp`, `components/blocking_gotcha.cpp`, `unblocking_gotcha.cpp`, `components/backtrace.cpp` of causal) | one atomic global delay, a local delay per thread, the current experiment, the signal mask of a thread | `process`, `credit`, `sync`, `preblock`/`postblock`, the wrapped calls, the two sampling signals | a thread pauses only for selected code that has run; delays reach all threads | `CausalDelay` |
| Progress points (`libom/causal/data.cpp`, `components/progress_point.cpp`, `libom/thread_data.hpp`) | stack of bundles per thread, a node of counts per thread and label | `push`/`pop`/`mark_progress_point`, `get_progress_points` (collect and reset) | what is completed is collected once, and in the experiment it belongs to | `ProgressPoints` |
| Experiment thread (`libom/causal/data.cpp` 462-689 and 1051-1093, `experiment.cpp`) | `current_experiment`, selected address, history of experiments, futures | start with retries, selection, wait, stop, end at finalization | ends with the profiler; never leaves an experiment active; finds an address while samples are taken; the history that is saved is complete | `ExperimentThread` |
| Causal samplers (`libom/causal/sampling.cpp`) | sampler per thread, blocked-signal set | `configure`, `pause`/`resume`, `block_backtrace_samples` | pauses nest; no sample is lost or taken in a pause | not modelled; `CausalDelay` uses the masks, `ExperimentThread` that samplers run |
| Trace windows (`core/constraint.cpp`, `core/categories.cpp`) | list of specs, `runtime_enabled` of the categories | the window thread, `categories::setup`/`shutdown`, enable/disable | data is collected in the durations and never in the delays; the thread ends; output is not suppressed | `TraceWindow` |
| Instrumented regions (`libom/tracing.hpp`, `components/category_region.hpp`, `lib/omnitrace/regions.cpp`) | bundles and counts of pushes per thread, the open events of perfetto | start, stop, mark; the C entry points | a region ends when, and only when, its own call returns | `TraceRegions`, `RegionTrace` |
| Trace control (`lib/omnitrace-dl/dl.cpp`, `lib/omnitrace-user/user.cpp`) | inited/finied/active, the global and the thread-local status, the count of ignored calls | init, finalize, push/pop, user start/stop of tracing | stopped threads stay stopped; what was forwarded at entry is forwarded at exit | `TraceControl` |
| Process sampler (`libom/process_sampler.cpp`, `libom/rocm_smi.cpp`, `libom/cpu_freq.cpp`) | state of the sampler and of rocm-smi, `is_sampling`, the sampling thread, a promise | setup, poll, shutdown, post-process | the shutdown returns; no device is read after the library is shut down; all samples are processed | `ProcessSampler` |
| Lifecycle (`lib/omnitrace/library.cpp`, `libom/timeout.cpp`) | `State`, settings, managers of threads and bundles | init_library, init_tooling, finalize | each happens once; components end before what they use | no module of its own: each module has the part of the activation and the finalization that its component takes part in |
| States (`core/state.cpp`) | process state (atomic), per thread a state and its history | set, push, pop, scoped states | a pop restores what its push replaced; omnitrace's own work is never taken for the program's | `ThreadState` |
| Thread creation (`libom/components/pthread_create_gotcha.cpp`) | bundles and native handles by thread id, `is_shutdown` | wrapper and its body, `shutdown()`, `shutdown(tid)` | threads that end leave nothing behind; remaining bundles are stopped; the shutdown ends | `ThreadCreation`; the inheritance of delays is in `CausalDelay`, the states in `ThreadState` |
| Thread identities (`libom/thread_info.cpp`) | index, internal flag, offsets, life times | init, recycle, lookup | one index per live thread | not modelled |
| Fork wrapper (`libom/components/fork_gotcha.cpp`) | three lock flags, categories and samplers | pre-fork, post-fork of parent and child | what pre-fork turned off is turned on again, and only that | `ForkHandlers` |
| Call-stack sampling (`libom/sampling.cpp`) | sampler per thread, its running flag, the duration thread with its mutex and condition variable; allocator, buffers, off-load file | setup, configure, shutdown by a thread, by the duration and by finalization; offload, post-process | all samplers are stopped before their data is processed, by one thread at a time; the join ends | `SamplingDuration`, without the off-loading |
| perf events (`libom/perf.cpp`) | the kernel's ring buffer | open, start, stop, iterate | the protocol is the kernel's | not modelled |
| Configuration (`core/config.cpp`, `core/argparse.cpp`) | settings | parse and query | no state of several actors | not modelled |
| Other wrappers (MPI, NUMA, exit, mutex: `libom/components/*_gotcha.cpp`) | one region around a call | audit | as regions | not modelled |
| ROCm tracing, OMPT, Kokkos, RCCL, PTL, code coverage | correlation maps, tables | callbacks of external tool interfaces | adapters to regions | not modelled |
| Backends (perfetto, timemory) | - | - | external; seen in `TraceRegions` from how they are called | external |
| Binary analysis, instrumentation tool, launchers, `avail`, Dyninst run time | - | single-threaded tools | pure computation over an executable, or an `exec` | not modelled |
| Python profiler (`src/source/python`) | - | a category region per frame | as category regions of `TraceControl` | partly |

`PROJECT.json` has the same list with the source files and the status of each.

### 1.2 How they interact

* **Calls.** The program calls instrumented functions; `libomnitrace-dl` decides whether to forward; `libomnitrace` starts
  and stops regions in the two backends. Wrapped (gotcha) functions call into omnitrace before and after the real call.
* **Shared state.** The process state is polled by all background threads; the category flags are written by the window
  thread, the fork wrapper and finalization and read by each start and stop of a region; the delays are shared by the
  application threads and the experiment thread.
* **Signals.** A real-time and a CPU-time sampling signal interrupt application threads; their handlers change the same
  thread's local delay and states. A real-time signal asks the threads that are left at the shutdown to end their bundles.
* **Background threads.** The window thread (detached), the process sampler's thread (joined), the experiment thread
  (detached, with a future that is waited for with a time limit), the thread of the sampling duration (joined), the off-load thread.

### 1.3 What is hard

Interleavings of non-atomic read-modify-writes (delays, nodes of progress points); handlers inside the code they interrupt;
state that is checked and used later (rocm-smi, stop stage of a window, the set up of a thread or a sampler that races with the
shutdown of all); limited waits after which the waiter goes on regardless; locks held while others are told to end; handlers of
fork that run twice and in several threads; switches of a category between a start and its
stop; legal call sequences nobody tests (stop tracing twice, nested latency points); ends that must come although several
threads only poll. `PROJECT.json` lists each hazard at its line with the properties that cover it, or says why
none does.

## 2. Modules

`EXTENDS` is written ->; INSTANCE =>.

    MCCausalDelay, CausalDelay_proofs -> CausalDelay
    MCTraceWindow -> TraceWindow
    MCTraceRegions, TraceRegions_proofs -> TraceRegions -> TraceWindow        TraceRegions => RegionTrace
    MCTraceControl, TraceControl_proofs -> TraceControl
    MCProgressPoints, ProgressPoints_proofs -> ProgressPoints
    MCForkHandlers -> ForkHandlers -> TraceWindow                             TraceRegions_proofs => ForkHandlers
    ExperimentThread_proofs -> ExperimentThread
    ThreadCreation_proofs -> ThreadCreation
    SamplingDuration_proofs -> SamplingDuration, ProcessSampler
    ThreadState_proofs -> ThreadState

An MC module declares the model values of its instances, sequences that a cfg cannot write and, in
`MCTraceWindow`, the properties that belong to an instance. Definitions named as a bug ("Mutant:" in the comment) are never part
of a specification. They are plausible mistakes in the operation below them; replacing that operation by one makes TLC find
the property that `PROJECT.json` pairs it with violated, which shows that the property depends on the code.

### 2.1 CausalDelay

| TLA+ | Code |
|---|---|
| `globalDelay`, `localDelay` | `delay::get_global()`, `delay::get_local(tid)` |
| `active`, `sampleDelay` | `current_experiment`, `current_experiment_value.sample_delay` |
| `at[t]["main"]`, `at[t]["handler"]` | where the thread is, and where the signal handler is that interrupts it |
| `held[t][c]` | the local variable of a step: a difference read, a time to sleep, the global delay before a wait |
| `Process` and its eleven actions | `delay::process()` |
| `BeginBlocking`, `BlockSamples`, `RealBlockingReturns`, `Postblock`, `Credit` | the wrapped blocking calls |
| `BeginUnblocking`, `RealUnlock`, `BarrierLoad` | the wrapped unblocking calls; a barrier is both |
| `RealCreate`, `Inherit` | `pthread_create` and the inheritance of the parent's delay |
| `CpuTimeSignal`, `RealTimeSignal`, `Hit`, `HitAdds` | `backtrace::sample()` |
| `StartSync`, `Fill`, `Publish`, `Retract`, `StopTotal`, `StopSync`, `Stopped` | `experiment::start()` and `stop()` with `delay::sync()` |

The granularity: every store to a delay is a step of its own, and so is what is read for it. `get_global()` is atomic, but
`get_global() += get_local() - get_global()` reads it in one step (`Difference`) and adds in another (`Raise`). A local delay is a plain integer: where
the code says `+=` or `=`, a first step loads (`Copy`, `Wake`, `Postblock`, `Hit`) and a second one stores (`Write`, `Resume`, `Credit`, `HitAdds`), so that what a `sync`, or a
handler of the same thread, writes in between is lost. The two comparisons of `process()` are two steps (`CompareAhead`, `CompareBehind`), each with its
own reads, and the check of the experiment is a third. Coarser than the code is only that the global and the local delay in one expression are read in the same step.
A `sync` writes one thread at a time. Handlers run on top of the main code of their thread (`Runs`) and only where the signals are not masked (`Masked`).

One unit is one delay of a sample. `credited` (samples that have raised a delay of a thread), `overruns`, `calls` and `quiet` are histories. `quiet`
holds at first, is ended by a hit that raises a delay, and holds again once a thread leaves `process()` and all have caught up (`AtRest`).

Abstracted: time (a sleep lasts as long as requested, or longer by a member of `Overhead`), the comparison of call stacks (a
real-time sample may hit at any time), the four `sigwait` calls and `sigsuspend` (they credit a wait like a mutex that
somebody unlocks), condition variables and joins (as barriers). `delay::credit()` and `preblock()` have no caller.

### 2.2 TraceWindow

`Settings` are the settings to explore: one is chosen at the start and never changes. `Specs` is `get_trace_specs()`: the spec of the delay and duration settings followed by the periods, with `Convert` doing what a
stream extraction does with a field. The window thread's positions `at` are the stages of `spec::operator()` with the callbacks
that `categories::setup()` gives it; each stage reads the state once and either goes on or returns (`Break`). The main
thread's four steps are the activation, which waits up to a second for the first step of the window thread, and the three of
the finalization that touch the state and the categories. Categories are switched together, so `enabled` is one flag; clocks
are left out: a wait may end at any time. `Negligible` is the millisecond up to which a delay does not switch data off (`Delayed`). Before `Finalize` the code pops the region of
main while it is still Active; that is the return of main's call in TraceRegions. A program that exits from a call below main is not distinguished.

### 2.3 RegionTrace and TraceRegions

`RegionTrace` says what tracing promises: a call may be recorded or not, but a recorded region ends exactly when its own call returns,
as long as the category is on and profiling lasts; what is open after that ends in any order or never. `TraceRegions` is the code: `category_region::start()` and `stop()` as sequences of steps that
read the category flag separately, with both backends and the counters that decide whether a pop belongs to a push, on top of
TraceWindow, whose steps interleave with them. timemory ends the last bundle of a name (`PopTimemory`); perfetto the innermost
event (`PopPerfetto`). Left out: `mark()`, the variants with tracks and time stamps, the annotations, and what the backends record.
`early` is a history of the threads that called a function before the profiler was active. The refinement mapping (`TracedCalls`, `TracedOpen`, `Profiling`) counts a call from the end of its start to its `TRACE_EVENT_END`; profiling is over for RegionTrace
once the category is off.

### 2.4 TraceControl

Tracing may be stopped and started inside of instrumented functions and outside of all of them (`SetStatus` at depth 0). The three flags, the global and thread-local status (a copy made at first use, hence "unset"), `get_thread_count()`, and of the
library behind it only `lead`, the forwarded pushes minus the forwarded pops of a thread. A call is a frame of kind `trace` (`omnitrace_push_trace`,
and `omnitrace_push_region`, which does the same) or `category` (`omnitrace_push_category_region`, used for Python frames); the two
kinds count differently when they return. `born`, `stoppedIn` and `stops` are histories. `Disciplined` restricts the
program, not omnitrace: the functions of these threads start the tracing that they have stopped before they return.

### 2.5 ProgressPoints

A thread pushes bundles (latency points) and marks throughput points; each adds to its node by a load and a store. The experiment
thread collects the nodes of all threads by a load and a reset, at the start (`initProgress`) and at the end (`finiProgress`) of an
experiment. `completed` and `during` are histories of what the program did, `collected` of what has been taken from each node;
nothing keeps the additions and the collections apart. `races` is the history of the additions to a node that overlapped a collection of it, `nested`
that of the threads that were in two latency points at once. `PointsConserved` compares `completed` with `collected` for each thread and label: equal, with what is in the node,
as long as nothing overlapped, and after that short of at most one point for each overlap. For threads in `nested` it speaks of marks only, since the wrong bundle may
be destroyed (`points_nested`).

### 2.6 ProcessSampler

The polling thread (`poll`), the main thread from `setup()` to `post_process()` (`main`) and the HSA runtime, which calls
`OnLoad()` once at some time. rocm-smi has its state (`smiState`) and, apart from it, whether its library is open (`smiOpen`). The
initial sample in `config()` and every sample check the state and read the device in separate steps.

### 2.7 ExperimentThread

| TLA+ | Code |
|---|---|
| `Sample`, `Claim`, `Store` | `backtrace::sample()` of causal and `set_current_selection()`: the index is incremented, then the address stored |
| `Begin` to `Exit`, on `thread` | `perform_experiment_impl()`: wait for a progress point, select, start, reset the slots, run, stop, record, process |
| `AwaitSample`, `Pick`, `ResetIndex`, `ClearSlots` | `sample_selection()` and `reset_sample_selection()` |
| `CheckState`, `Publish`, `Stop` | `experiment::start()` and `stop()` |
| `StartExperimenting`, `AwaitThread`, `Save`, on `main` | `start_experimenting()`, `finish_experimenting()` with its limits |

`EndToEnd`, `Launched` and `HasDuration` are settings. The index of the slots only matters modulo their number and as "zero or not", so
`Increment` wraps it. `cutOff` is a history of a wait whose limit was exceeded. `"terminated"` is the exception in the thread that nobody
catches when not even one experiment could be started. Left out: the choice of the speed-up and of the length of an experiment, line information, and
what an experiment measures, which is in CausalDelay and ProgressPoints.

### 2.8 ThreadCreation

A thread goes through `wrap()`, `operator()()`, its routine and the destructors (`at`), taking the two locks where the code does; `Return` and
`Abort` are the two ends of a routine. The main thread's `shutdown()` locks the handles, sends the signals, waits with the lock (`WaitForHandlers` may always give up,
which stands for the twentieth attempt), restores the former handler, and then stops and clears the bundles under the other lock. A handler interrupts its thread
anywhere (`GoTo` stops the thread while its handler runs) and counts by a load and a store (`LoadCount`, `StoreCount`). A signal delivered after the former handler is back
ends the process (`DeliverLate`), and one that is pending when its thread exits is lost. Left out: the parent's wait for its child, the masks of the sampling
signals, what a bundle measures. `late` and `aborted` are histories.

### 2.9 ThreadState

`value` and `history` are the two thread-local variables of `core/state.cpp`, `frames` the scopes that are open (in C++: the destructors to come), so that a
pop belongs to the scope that ends. A push consists of the exchange with the write behind the last entry (`Push`) and the count of
that entry (`Insert`); a handler in between (`Handler`) overwrites what was written. `debug::lock` has its two process-wide flags and its mutex, and both wrappers
set the state without a push; that a thread sets its flag and that it pushes are two steps (`Protect`, `PushLine`). `disturbed` is the history of the threads that lost an entry. `OffsetCreates` says whether
omnitrace's own threads create threads. The bodies of the scopes are left out.

### 2.10 SamplingDuration

A thread of the program sets its sampler up, runs and stops it; the main thread does so too and then finalizes. `configure(false, 0)` is
called by the duration thread (`TimerStop`) and by the main thread (`MainStop`): both go through all threads in two loops (`next`, `StopNext`), the
first stops, the second resets the pointers. Each reads the flag of the main thread's sampler first and clears it in a later step (`TimerOff`, `TimerClear`; `Shutdown`, `ClearRunning`), so both may find it
set. The main thread joins the duration thread twice (`Join`): at the end of its `configure(false, 0)`, and, also when that had nothing to do, in `shutdown()`. `mutex`, `notified` and `expired` are the condition variable's: a notification only reaches a thread that waits. The
mutex stays with the duration thread from its wake-up to its return. `slipped` is the history of the threads that were in their set up when the
loops came by. Samples, buffers and the off-loading are left out.

### 2.11 ForkHandlers

`prefork_setup()` and `postfork_parent()` step by step, each run twice per fork: by the wrapper of `fork()` and by the handlers that
`pthread_atfork()` registered (`at_fork` has the step and the call). `prefork_lock` and `postfork_parent_lock` are read at the beginning and written at the end, as in the
code. The C library runs the handlers of one fork at a time (`ForksAlone`), the wrapper's calls run concurrently. The module extends TraceWindow, whose
window thread and finalization switch the same categories; the finalization also blocks the samples (`FinalizeBlocked`). The child process is left out.

## 3. Runs

Passing runs:

| Run | Instance | Shows |
|---|---|---|
| `delay_samples` | 2 threads, 1 hit each, 2 experiments, a sleep that overruns, with fairness | `DelaysConverge`: in an experiment that lasts, all threads get to the global delay and stay there, whatever a lost store or a difference measured in the experiment before it has left behind. `QuietWithoutHit`: once they have, nobody pauses before the next hit |
| `delay_calls` | 2 threads, one created by the other, 3 wrapped calls of all kinds, 1 experiment, speed-up 0 or 1 | `TypeOK`; `QuietWithoutHit` with waits, creations, and the copies of `process()` outside of an experiment, all of which write values that were read earlier |
| `window_schedule` | six settings: none, a duration, delays of which one is negligible, repeated periods, one without end; with fairness | `CollectsInWindows`: on in the durations, off in the delays and in between; `WindowEnds` |
| `regions_traced` | a thread, 2 names, depth 3, categories that stay on or go off at the end of a duration, calls before the activation | `RegionsTraced` (refinement of RegionTrace), `EndsOnlyItsOwnWhileOn` (the same of both backends), `WindowEndsRegions` (what was recorded before the window ended is ended after it) |
| `control_stopped` | a thread that stops its tracing once anywhere, outside of all instrumented functions too, and a disciplined one that stops it twice, depth 2 | `StoppedStaysStopped`, `MeasurementsEnded` |
| `points_counted` | a thread, 2 labels, 2 points that may nest, 2 experiments | `PointsConserved`: exact without an overlap of an addition and a collection of its node, and otherwise at most the one point of each overlap is lost |
| `sampler_shutdown` | both threads, up to 4 samples, with fairness | `ProcessesAll`, `ShutdownReturns` |
| `experiments_performed` | two slots, a duration, up to 2 experiments, not end to end, with fairness | `ActiveIsPerformed`: nobody pauses for an experiment that its thread has left; `SavesAll`; `FindsSelection`: the reset of the slots cannot starve the selection; `ThreadEnds` |
| `threads_shutdown` | 2 threads, of the program or of omnitrace, with fairness | `EndedThreadsAreForgotten`, `MeasurementsStopped`, `ShutdownReturns`: the handlers never wait for the locks that the shutdown holds |
| `states_scoped` | 2 threads, scopes two deep, 3 lines of the log | `InternalWorkHidden`, whatever happens to a history; `ScopesRestore` names the two ways in which a state is lost |
| `sampling_duration` | 2 threads, the main and the duration thread, with fairness | `ProcessesAlone`, `StopsAll`, `ShutdownEnds`: the mutex is held while the samplers are shut down, which must not lock it again |

One run ends in a counterexample. It checks a statement that a comment makes and the code does not keep;
`PROJECT.json` has the source line, the quotation and the explanation under `findings`.

| Run | Statement | What happens |
|---|---|---|
| `forks_overlap` | `RestoredAfterForks`: the handlers run twice, "hence the locks" (`fork_gotcha.cpp:145`) | two threads fork; one has read `postfork_parent_lock` and restores, the other's pre-fork handler disables again, and its post-fork handler finds the flag set: collection stays off |

### 3.1 Further counterexamples

The directory holds configurations of further questions, whose answer is no. They are not among the regular runs: each is one
more consequence of a mechanism that a run shows, a disagreement that an earlier version of this project reported, or one with a document that needs
no model to be seen. To reproduce one: `tlc -config <name>.cfg <module>`. Where a configuration names two properties, TLC stops at the first that fails: leave one out
to see the other.

| Configuration, module | Property | What happens |
|---|---|---|
| `delay_overhead`, MCCausalDelay | `PausesOnlyOthers` | `delay.cpp:120` adds the time really slept: the overrun becomes a delay that the others, and at last the thread itself, pause for ("insert pauses to slow down all *other* concurrently running code", docs/how-to/performing-causal-profiling.rst:17) |
| `delay_experiments`, MCCausalDelay | `PausesOnlyOthers` | the thread with the hit measures its difference in the first experiment; two `sync`s later it adds it (`delay.cpp:112`), and pauses for its own code in the second |
| `delay_wait_sync`, MCCausalDelay | `WaitNeverPutsAhead` | a `sync` during a wait, then `postblock()` (`delay.cpp:153`), credits the wait twice and puts the thread ahead |
| `window_delay`, MCTraceWindow | `DelayOnlyCollects` | a delay without a duration collects nothing: the duration of 0 ends at once (config.cpp:379 says it limits only if above 0) |
| `window_format`, MCTraceWindow | `PeriodsAsDocumented` | a period in the documented order `clock:delay:duration:cycles` (development-guide.rst:395) is read as another one |
| `regions_outlive`, MCTraceRegions | `NoRegionOutlivesItsCall` | a call that began in a delay and returns in a duration is popped; its missing push hides a later one, which is never popped (`tracing.hpp:473`) |
| `regions_annotated`, MCTraceRegions | `NoRegionOutlivesItsCall` | a category region that was open when its category went off is never popped (`regions.cpp:90`) |
| `control_restart`, MCTraceControl | `FinalizesEnded` | functions that stop the tracing and return are never popped, which finalization reports as an error (`dl.cpp:698`, `library.cpp:976`) |
| `control_threads`, MCTraceControl | `OnlySubsequentThreads` | stopping affects existing threads that have not called an instrumented function yet (`dl.cpp:533`; user.h:51) |
| `points_nested`, MCProgressPoints | `ReportsExperiment` | points completed before an experiment are subtracted from those completed in it, although the nodes were reset in between (`experiment.cpp:306`, `progress_point.cpp:81`) |
| `window_output`, MCTraceWindow | `OutputEnabled` | the init stage of a window, and a stop stage that has checked the state earlier, disable the categories while output is written (`categories.cpp:113`) |
| `regions_steal`, MCTraceRegions | `EndsOnlyItsOwn` | the count of pushes is not per region: a pop without a push is not skipped but ends the region of the enclosing call (`tracing.hpp:270`) |
| `control_restart`, MCTraceControl | `StoppedStaysStopped` | the count stays at -1 after a restart by returning, and the next stop ends early (`dl.cpp:698`) |
| `points_nested`, MCProgressPoints | `BundlesMatch` | popping a latency point destroys another bundle when several are open (`thread_data.hpp:656`) |
| `sampler_devices`, ProcessSampler | `ReadsOpenDevices` | a device may be read after `rsmi_shut_down()` (`process_sampler.cpp:187`) |
| `experiments_overhead`, ExperimentThread | `ActiveIsPerformed` | when an end-to-end experiment reaches the duration the thread returns with the experiment active: the delays go on, although "the application will continue without any overhead" (`data.cpp:674`, `config.cpp:763-767`) |
| `threads_signals`, ThreadCreation | `AllDelivered` | two handlers increment the count at once and one increment is lost: the shutdown waits for its full second and the check at `pthread_create_gotcha.cpp:432` fails |
| `threads_late`, ThreadCreation | `SignalsHandled` | a thread takes its signal after the former handler was restored (`pthread_create_gotcha.cpp:440`); the default ends the process |
| `states_logged`, ThreadState | `EnabledAfterSetup` | a thread that ends its line of the log while another releases the lock does not restore its state (`debug.cpp:105`), and then runs the program as Internal |
| `states_offset`, ThreadState | `ScopesRestore` | if one of omnitrace's own, Disabled threads creates a thread, it ends up Internal (`pthread_create_gotcha.cpp:572-578`) |
| `sampling_late`, SamplingDuration | `StartsItsSampler` | a thread in its set up starts a sampler that the finalization has destroyed (`sampling.cpp:719`) |
| `sampling_late`, SamplingDuration | `JoinsPromptly` | a notification that comes before the duration thread waits is lost; the join then takes the rest of the duration (`sampling.cpp:352`) |
| `forks_window`, MCForkHandlers | `CollectsInWindows` | the post-fork handler enables the categories in the delay of a trace window (`fork_gotcha.cpp:100`) |

### 3.2 Bounds

* **Two threads.** Interference in `process()` and in trace control is between two threads; what more threads add to the safety of delays is in the
  theorems, which hold for any number. The states of three threads over two experiments are too many for liveness to be checked. Regions of different threads share nothing but the category, and their nodes of progress points nothing at all: one
  thread with deeper nesting says more than two.
* **One hit per thread, two experiments, one overrun** (`MaxHits`, `MaxExperiments`, `MaxOverruns`) in `delay_samples`. One hit makes a thread ahead, two threads ahead at once make
  the global delay overshoot. The second experiment is the one that a difference, a sleep or a store of the first may leak into; an overrun may fall
  into either. `MaxDelay` 8 is above what can be reached. `delay_calls` has one experiment, in which threads may be anywhere before, during and after it, and cuts delays off at 1,
  enough for a thread ahead, one behind and values held from before. An overrun is left to `delay_samples`.
* **What `DelaysConverge` is about**: finitely many hits, calls and overruns, and few contexts. It does not hold for calls without end: two threads with a handler each that
  add and subtract in step can move the global delay up and down forever. That is a schedule nobody meets, but it is why calls are not part of that run.
* **Windows** have finitely many states for given settings; nothing is cut off. `Negligible` is 1 in `window_schedule`, so that delays lie at and above the limit, and 0 elsewhere.
* **Depth 3 and four regions** (`MaxDepth`, `MaxRegions`): an enclosing region, the one that returns and one between, with same and
  different names, and room for another after these.
* **Trace control**: depth 2 has a caller, the function that stops, and its callees one after the other. `MaxStops` and
  `MaxLooseStops` bound how often threads stop, `MaxCount` the count above the depth.
* **Progress points**: two points give one before and one during a collection, or one inside the other (`MaxOpen`, `MaxPoints`); the second experiment collects what the first has lost or left
  (`MaxExperiments`). Two labels give a node that is collected while the other is added to.
* **Samples** (`MaxSamples`) only enter as a number; at the bound the thread goes on polling.
* **Experiments**: two slots distinguish a claimed, a filled and an empty one; one address is enough because the properties do not compare
  addresses. The second experiment (`MaxExperiments`) is the one that meets what the first left behind; at the bound the thread stays before its next
  experiment, where it still sees the finalization.
* **Created threads**: two, so that both lock orders, a lost increment, and a thread that ends while another one is signalled occur. Handles and
  bundles are not limited.
* **Thread states**: `MaxDepth` 2 has a scope in a scope, and a creation or a line in either; `MaxLines` 3 lets two lines end at once and a third one begin.
* **Samplers** (`Threads`): the loops of two callers have an order of two threads to disagree about. Nothing is cut off.
* **Forks** (`MaxForks`): two forks of two threads overlap once, which is enough for the counterexample.

### 3.3 Fairness

* `CausalDelay!Fairness`: the experiment thread, every started step of a thread and of a handler go on (weak fairness; the operating system
  schedules them). The end of an experiment (`Retract`) is not fair: `DelaysConverge` speaks of an experiment that lasts. The CPU-time
  signal is strongly fair: the timer is armed again and again while the thread runs, and fires whenever the signal is not masked, which
  it is only off and on. A handler that a signal has begun goes on (`Sample`). That there are samples that hit, and the application's calls, are not fair: the program may do without.
* `WindowFairSpec`: the window thread is scheduled and its clocks advance; the activation comes. Finalization is not fair.
* `SamplerFairSpec`: both threads are scheduled. The wait for `is_sampling` and that for the promise are bounded in the code; the join is
  not, and is only enabled once the polling thread is done.
* `ExperimentThread!FairSpec`: the experiment thread, the handlers and the main thread, apart from its decision to finalize, are scheduled, and
  time passes. Samples are taken while samplers run, since their timers are armed again and again. Progress points are not fair: `ThreadEnds` and the code's comment ask for one.
* `ThreadCreation!FairSpec`: the steps of a thread in the wrapper, its handler and the shutdown go on; signals that are pending are delivered while
  the thread exists. `Return`, `Abort`, `Create` and `Finalize` are the program's and not fair.
* `SamplingDuration!FairSpec`: the duration passes, both background threads are scheduled. Threads of the program are not fair; the finalization must not
  need them.
* ThreadState and ForkHandlers have safety properties only.

No run relies on fairness of the environment beyond this. Runs do not check for deadlock, because all these systems stop: after finalization,
after the last call, or when an experiment is over.

## 4. Proofs

`CausalDelay_proofs` proves, for every set of threads, calls and sleep overheads, any number of experiments and any bound, assuming only `DelayAssumption` (the types of the constants):

* `TypeCorrect == Spec => []TypeOK`. `TypeOK` is inductive by itself. `StepType` has one step per group of actions; the lemmas
  `GotoType`, `HoldType` and `SetDelayType` carry the function updates. The positions are typed per context (`PositionType`): a handler is never at a
  position of the main code, which is what a wrong return from `process()` would break.
* `NoPauseWithoutHit == Spec => []QuietWithoutHit`, without a hypothesis. That nobody sleeps *now* is not inductive. What is kept until the next hit is
  `Calm`: every thread that runs has the global delay (`CaughtUp`), a `sync` under way writes it (`Synchronizing`), every value that was loaded and is still to be stored, or remembered
  during a wait, equals it (`Remembered`), and nobody is past the comparisons of `process()` (`NobodyMoves`). `Lineage` adds that a child takes its delay from a
  parent that has its own. `StepCalm` goes through all actions: only a hit with a positive delay leads out of `Calm`, and it ends `quiet`; `RestCalm` shows that
  `AtRest`, the only way back, implies it. It is a claim about the code and not about its histories: a `sync` that
  writes the delay of the experiment's start (`FillBaseline`), or a child that starts with its slot as it was (`InheritNothing`), break it.
* That a thread pauses for the code of *others* only (`PausesOnlyOthers`) and that a wait never puts a thread ahead (`WaitNeverPutsAhead`) are not theorems: the code keeps to neither
  (`delay_experiments`, `delay_overhead`, `delay_wait_sync`). A handler that pauses between a wrapper's read of the global delay and its mask of the signals (`blocking_gotcha.cpp:150-152`) also puts its thread ahead.

The other seven proof modules have the same layout: an inductive invariant in named parts, a lemma per part with one step per action, and the properties as
consequences.

* `SamplingDuration_proofs`, for any number of threads: `TypeCorrect`, `ShutdownAlone == Spec => []ProcessesAlone` and
  `AllStopped == Spec => []StopsAll`. `OrderInv` ties the two shutting threads together (the duration thread begins to stop samplers only before the
  finalization, a new one is started only when no other exists); without it not even the owner of the mutex can be typed. `StopInv` says that a caller leaves no started sampler behind it and that
  between the main thread's check of its own sampler and the processing one of the two callers has passed all threads. That is the argument why the main thread may skip its
  loops when the duration thread has taken them over: it joins that thread first, in `shutdown()` if not in `configure()`.
  The module also holds the proofs about ProcessSampler, for any number of samples: `SamplerTypeCorrect` and `AllProcessed == SamplerSpec => []ProcessesAll`. `PollInv`
  says where the polling thread can be when the main thread is where it is.
* `ThreadCreation_proofs`, for any set of threads, infinite ones included: `TypeCorrect` (with the owners of both locks),
  `Forgotten == Spec => []EndedThreadsAreForgotten` and `Stopped == Spec => []MeasurementsStopped`. `SetupInv` relates the position of a thread to its bundle;
  that a handler changes nothing follows from `OrderInv`, because signals are sent after `is_shutdown` was set. Handles are finitely many in every state, so the expected signals can be counted.
* `ExperimentThread_proofs`, for any addresses, slots and number of experiments: `TypeCorrect`,
  `HistoryComplete == Spec => []SavesAll` and `NotLeftActive`, `ActiveIsPerformed` under the assumption `~EndToEnd`, without which it is false (`experiments_overhead`). `SaveInv` is the
  case distinction of `finish_experimenting()`: the thread has exited, or has not begun and finds the profiler finalized.
* `ProgressPoints_proofs`, for any threads, labels and bounds. `TypeCorrect` holds for any nesting and with the race: what a wrong `Destroy` leaves is still a list of bundles
  (`DestroyOf`), and the experiment thread resets only a node that it has still to collect. `CountedOnce == Spec => []PointsConserved` needs no hypothesis about the schedule, the nesting or the bounds.
  The bound on what is lost is not inductive; `Balance` says where the missing points are: what is owed (completed and not collected) exceeds the node, or the sum that an addition is about to store, by
  no more than the overlaps; while the node is loaded and not yet reset the node does not count; and while an addition is under way the node lacks one point more. The lemmas `CountAdd`, `CountStore`, `CountLoad` and
  `CountReset` are the four steps of the race, each of which may come between any two of the others. What a pop adds is a whole point only if it finds the bundle of that point
  as it was pushed: that is `OneBundle`, for a thread that has never been in two points at once. For the others `PopLatency` gives what `PointsConserved` says of them, that a
  latency point never counts as a mark.
* `TraceControl_proofs`, for any threads, depths and bounds: `TypeCorrect`, `AllEnded == Spec => []MeasurementsEnded`, `FirstStopHolds` and `StopsHold`.
  Both properties rest on the count of ignored calls. `Counted` says when it can be relied upon (`Counting`): for a thread that starts where it has stopped, and for any
  other until it has left the function it first stopped in (a stop outside of all functions lasts until the thread starts again). Then the count is at least the number of calls above that function, so none of their returns is taken for
  its own (`StopHolds`). `Balanced` adds that nothing is forwarded above it, which is why the library is never ahead by more than the forwarded calls on the
  stack; these are counted as the cardinality of `Open`. `FirstStopHolds` needs no hypothesis. `StopsHold == Spec => []StoppedStaysStopped` needs `MaxLooseStops <= 1`: after a restart by
  returning the count may stay at -1 and a second stop ends early (`control_restart`).
* `ThreadState_proofs`, for any threads, nesting and lines of the log: `TypeCorrect`, and under `~OffsetCreates` `WorkHidden == Spec => []InternalWorkHidden` and
  `Restored == Spec => []ScopesRestore`. A handler may overwrite the history of its thread, so it cannot be said to hold the states of the scopes. What is inductive is `Hides`: the history has at least
  an entry per scope, and counted from its end an entry is Enabled only where the scope below stands for Enabled. `Records`, the exact correspondence, holds for the threads that are not
  `disturbed`. `Shape` says which scopes a position is in. If omnitrace's own threads create threads, `InternalWorkHidden` and `ScopesRestore` are false (`states_offset`).
* `TraceRegions_proofs`, for any settings, threads, names and depths, about TraceWindow and TraceRegions:
  * `WindowTypeCorrect`, `WindowsKept == WindowSpec => []CollectsInWindows`. `WindowPlaces` says where the window thread can be in its specs, `Scheduled` in which
    of its stages the categories are on and in which they are off; the settings and their number of periods are not limited.
  * `TypeCorrect`: before the activation nothing is recorded, and a thread has no more bundles than counted pushes and no more counted pushes than events (`Promised`), so that a
    pop that the counters let through finds something to end. `OwnRegionsEnd == Spec => EndsOnlyItsOwnWhileOn`. The calls that began before the activation have no region; those above them do. `EventsOn` and `BundlesOn` say
    that while the category is on the events and bundles of a thread are those of its innermost calls up to `Top`, in order: each list is an interval of depths that ends at
    the call that is being started or ended. A bundle is found by its name, from the end of the list; the interval makes that the returning call's own
    (`LastBundle`). That the greatest index exists at all is `MaxOf`, from the well-foundedness of the naturals.
  * `RegionsImplementTrace`: `Spec => RegionsTraced` for settings without a delay and without periods, annotated regions and calls before the activation included.
    `StepStutters`, `StepEnters`, `StepLeaves` and the end of the profiling sort the steps of the code into those of RegionTrace; from then on events may be closed in any order, but never be opened, which `OffAtEnd` gives.
  * `NoneLeftOpen == Spec => []WindowEndsRegions` if no region is annotated. `Counted` relates the two counters to the
    lengths of the lists, which is what makes a pop go on while something is open. From the time the category went off, events and bundles are no longer all of the innermost calls;
    what is still inductive is that an event is at least as far from the top as there are events above it (`EventsOff`), and that the depths of the bundles increase and
    belong to calls of their names (`BundlesOff`). With annotated regions the property is false (`regions_annotated`).
  * `ApartRestored == Forks!Spec /\ []ForksApart => []Forks!RestoredAfterForks` and `ApartQuiet`, about ForkHandlers, for any number of threads and forks, the finalization included: if
    forks do not overlap (`ForksApart`), samples and categories are on again after each of them, and off while the process is copied. `ForkInv` says that the thread whose fork is under way has
    the two flags to itself: they then stand for how far it is (`FlagsOf`), which makes the second call of each handler return at once. The argument breaks where two forks overlap:
    the flags of one are taken for those of the other (`forks_overlap`). `ApartQuiet` is stated for programs without windows, since the window thread switches the same categories.

All theorems assume the named assumptions of the modules and the hypotheses given above, each with the configuration or the trace that shows it is needed. Every invariant and action property
of the runs that pass is stated by a theorem for all values of the constants, under those hypotheses; `RestoredAfterForks`, which its run violates, is proved for forks
that do not overlap. Only model-checked:
liveness (`DelaysConverge`, `WindowEnds`, `ShutdownReturns`, `ThreadEnds`, `FindsSelection`, `ShutdownEnds`), since fairness and ENABLED are beyond the prover. Nothing that is proved about needs a RECURSIVE operator.

## 5. Plan

Done, in this order: CausalDelay with its proofs (the core of the causal profiler), TraceWindow, RegionTrace and TraceRegions (composed with
it), TraceControl, ProgressPoints, ProcessSampler, ExperimentThread, ThreadCreation, ThreadState, SamplingDuration, ForkHandlers (composed with TraceWindow).

Next, most important first:

1. **CausalPause**: pause and resume of the causal samplers, which nest and mask the signals; to be used by CausalDelay.
2. **SampleOffload**: a full buffer of samples that a thread hands to the allocator's thread, the off-load file and its reading back.
3. A composition of ExperimentThread with CausalDelay, whose `Experiment` actions are the part of that thread that touches delays.

## 6. Not modelled

* **Thread identities, configuration, backends' interfaces.** Tables that each thread writes once for itself, parsing, and calls of other
  libraries: there is no order of steps to check.
* **perf events.** The ring buffer's protocol is the kernel's; the code is a reader of it.
* **MPI, NUMA, exit and mutex wrappers; ROCm, OMPT, Kokkos, RCCL.** Adapters: a callback of an external interface becomes a region (`TraceRegions`).
  The order of their callbacks is defined by libraries whose source is not here.
* **PTL, code coverage.** A task pool of another project, and counters that the instrumented program increments.
* **Instrumentation tool, launchers, `avail`, binary analysis, Dyninst run time, examples.** Most of the repository's lines: sequential programs that rewrite or start an
  executable, print tables or are workloads to be profiled. A state machine of them would say nothing that their text does not.
