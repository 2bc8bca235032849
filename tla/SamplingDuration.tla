-------------------------- MODULE SamplingDuration --------------------------
(* The samplers of the call stacks: each thread of the program sets up its own *)
(* and shuts it down when it ends; a thread of omnitrace shuts all of them     *)
(* down when OMNITRACE_SAMPLING_DURATION has passed, and so does the main      *)
(* thread at the finalization, which then joins that thread, processes the     *)
(* samples and destroys the samplers.                                          *)
EXTENDS Integers

CONSTANT Threads    \* number of threads, besides the main one

ASSUME ThreadsAssumption == Threads \in Nat

Main == 0           \* the index of the main thread
Timer == -1         \* the duration thread
Thread == 1 .. Threads
Nobody == -2        \* the owner of a mutex that is free

VARIABLES
    finalized,      \* get_state() >= State::Finalized
    samples,        \* trait::runtime_enabled<sampler_t>
    disabled,       \* get_duration_disabled()
    sampler,        \* what has become of each thread's sampler
    running,        \* get_sampler_running()
    at,             \* where a thread of the program is, the main thread included
    timer,          \* where the duration thread is
    isSet,          \* get_duration_thread() is not null
    notified,       \* the condition variable has been notified
    expired,        \* the duration has passed
    mutex,          \* owner of get_duration_mutex()
    next,           \* the loops of configure(false, 0): next step of the caller
    slipped         \* history: threads that were in their set up then

timerVars == <<disabled, timer, isSet, notified, expired, mutex>>
samplerVars == <<samples, sampler, running>>
vars == <<finalized, samplerVars, at, timerVars, next, slipped>>

Init ==
    /\ finalized = FALSE /\ samples = TRUE /\ disabled = FALSE
    /\ sampler = [t \in {Main} \cup Thread |-> "none"]
    /\ running = [t \in {Main} \cup Thread |-> FALSE]
    /\ at = [t \in {Main} \cup Thread |-> "setup"]
    /\ timer = "none" /\ isSet = FALSE /\ notified = FALSE /\ expired = FALSE
    /\ mutex = Nobody /\ next = [c \in {Main, Timer} |-> 1] /\ slipped = {}

Go(t, from, to) == at[t] = from /\ at' = [at EXCEPT ![t] = to]

-----------------------------------------------------------------------------
(* configure(true)                                                             *)

(* A sampler is built unless the duration has passed ...                       *)
Setup(t) ==
    /\ t # Main => at[Main] # "setup" /\ ~finalized
    /\ Go(t, "setup", IF disabled THEN "run" ELSE "build")
    /\ UNCHANGED <<finalized, samplerVars, timerVars, next, slipped>>

Build(t) ==
    /\ Go(t, "build", "built")
    /\ sampler' = [sampler EXCEPT ![t] = "built"]
    /\ UNCHANGED <<finalized, samples, running, timerVars, next, slipped>>

SetRunning(t) ==
    /\ Go(t, "built", "duration")
    /\ running' = [running EXCEPT ![t] = TRUE]
    /\ UNCHANGED <<finalized, samples, sampler, timerVars, next, slipped>>

(* ... the first one starts the duration thread, ...                           *)
StartTimer(t) ==
    /\ Go(t, "duration", "start")
    /\ IF isSet THEN UNCHANGED <<isSet, timer, notified, expired>>
       ELSE isSet' = TRUE /\ timer' = "lock" /\ notified' = FALSE /\ expired' = FALSE
    /\ UNCHANGED <<finalized, samplerVars, disabled, mutex, next, slipped>>

(* ... and then the sampler is started.                                        *)
StartSampler(t) ==
    /\ Go(t, "start", "run")
    /\ sampler' = [sampler EXCEPT ![t] = IF @ = "none" THEN @ ELSE "started"]
    /\ UNCHANGED <<finalized, samples, running, timerVars, next, slipped>>

-----------------------------------------------------------------------------
(* configure(false) of a thread that ends                                      *)

(* A thread that ends after the finalization leaves its sampler alone.         *)
End(t) ==
    /\ Go(t, "run", IF running[t] /\ ~finalized THEN "clear" ELSE "exited")
    /\ UNCHANGED <<finalized, samplerVars, timerVars, next, slipped>>

(* The flag was read at the beginning; another caller may have done so too.    *)
ClearRunning(t) ==
    /\ Go(t, "clear", "notify")
    /\ running' = [running EXCEPT ![t] = FALSE]
    /\ UNCHANGED <<finalized, samples, sampler, timerVars, next, slipped>>

(* notify_duration_thread(), whatever the reason is that a sampler is stopped  *)
Notify == mutex = Nobody /\ notified' = (notified \/ timer = "waiting")

EndNotify(t) ==
    /\ Go(t, "notify", "stop")
    /\ IF isSet THEN Notify ELSE UNCHANGED notified
    /\ UNCHANGED <<finalized, samplerVars, disabled, timer, isSet, expired, mutex, next,
                   slipped>>

StopSampler(t) ==
    /\ Go(t, "stop", "exited")
    /\ sampler' = [sampler EXCEPT ![t] = IF @ = "none" THEN @ ELSE "stopped"]
    /\ UNCHANGED <<finalized, samples, running, timerVars, next, slipped>>

-----------------------------------------------------------------------------
(* configure(false, 0), called by the duration thread or by the main thread    *)

StopMain == sampler' = [sampler EXCEPT ![Main] = "stopped"] /\ samples' = FALSE

InSetup(t) == at[t] \in {"build", "built", "duration", "start"}

(* Mutant: only the first loop is run, and without the last thread.            *)
LeftButLast(c) == next[c] < Threads

(* The caller has not been through all other threads twice.                    *)
ThreadsLeft(c) == next[c] <= 2 * Threads

(* First the samplers of the other threads are stopped, one after the other;   *)
(* then they are reset, and their threads are told.                            *)
StopNext(c) ==
    LET t == IF next[c] <= Threads THEN next[c] ELSE next[c] - Threads
        first == next[c] <= Threads
    IN /\ ThreadsLeft(c) /\ next' = [next EXCEPT ![c] = @ + 1]
       /\ sampler' = [sampler EXCEPT ![t] = IF first /\ @ # "none" THEN "stopped" ELSE @]
       /\ running' = [running EXCEPT ![t] = @ /\ (first \/ sampler[t] = "none")]
       /\ slipped' = IF InSetup(t) THEN slipped \cup {t} ELSE slipped

-----------------------------------------------------------------------------
(* The duration thread                                                         *)

TimerGo(from, to) == timer = from /\ timer' = to

(* It waits for the end of the duration or for a notification; an earlier      *)
(* notification is lost.                                                       *)
TimerWait ==
    /\ TimerGo("lock", "waiting") /\ mutex = Nobody
    /\ notified' = FALSE
    /\ UNCHANGED <<finalized, samplerVars, at, disabled, isSet, expired, mutex, next,
                   slipped>>

Expire ==
    /\ timer # "none" /\ ~expired /\ expired' = TRUE
    /\ UNCHANGED <<finalized, samplerVars, at, disabled, timer, isSet, notified, mutex,
                   next, slipped>>

(* It locks the mutex and keeps it.                                            *)
TimerWake ==
    /\ TimerGo("waiting", "check") /\ (notified \/ expired)
    /\ mutex = Nobody /\ mutex' = Timer
    /\ UNCHANGED <<finalized, samplerVars, at, disabled, isSet, notified, expired, next,
                   slipped>>

(* Mutant: the mutex is released before the samplers are shut down.            *)
TimerCheckReleases ==
    /\ \/ ~expired /\ ~finalized /\ TimerGo("check", "lock") /\ UNCHANGED disabled
       \/ finalized /\ TimerGo("check", "ended") /\ UNCHANGED disabled
       \/ expired /\ ~finalized /\ TimerGo("check", "off") /\ disabled' = TRUE
    /\ mutex' = Nobody
    /\ UNCHANGED <<finalized, samplerVars, at, isSet, notified, expired, next, slipped>>

(* The duration may not have passed, or the main thread shuts the samplers     *)
(* down anyway.                                                                *)
TimerCheck ==
    /\ \/ ~expired /\ ~finalized /\ TimerGo("check", "lock") /\ UNCHANGED disabled
       \/ finalized /\ TimerGo("check", "ended") /\ UNCHANGED disabled
       \/ expired /\ ~finalized /\ TimerGo("check", "off") /\ disabled' = TRUE
    /\ mutex' = IF timer' = "off" THEN Timer ELSE Nobody
    /\ UNCHANGED <<finalized, samplerVars, at, isSet, notified, expired, next, slipped>>

(* configure(false, 0)                                                         *)
TimerOff ==
    /\ TimerGo("off", IF running[Main] THEN "clear" ELSE "return")
    /\ UNCHANGED <<finalized, samplerVars, at, disabled, isSet, notified, expired, mutex,
                   next, slipped>>

TimerClear ==
    /\ TimerGo("clear", "stop")
    /\ running' = [running EXCEPT ![Main] = FALSE]
    /\ UNCHANGED <<finalized, samples, sampler, at, disabled, isSet, notified, expired,
                   mutex, next, slipped>>

TimerStop ==
    /\ \/ TimerGo("stop", "stopping") /\ StopMain /\ UNCHANGED <<running, next, slipped>>
       \/ timer = "stopping" /\ StopNext(Timer) /\ UNCHANGED <<samples, timer>>
       \/ TimerGo("stopping", "return") /\ ~ThreadsLeft(Timer)
          /\ UNCHANGED <<samplerVars, next, slipped>>
    /\ UNCHANGED <<finalized, at, disabled, isSet, notified, expired, mutex>>

(* Mutant: stop_duration_thread() does not know the duration thread.            *)
TimerReturnJoins ==
    /\ TimerGo("return", "ended") /\ Notify
    /\ UNCHANGED <<finalized, samplerVars, at, disabled, isSet, expired, mutex, next,
                   slipped>>

TimerReturn ==
    /\ TimerGo("return", "ended") /\ mutex' = Nobody
    /\ UNCHANGED <<finalized, samplerVars, at, disabled, isSet, notified, expired, next,
                   slipped>>

DurationThread ==
    \/ TimerWait \/ TimerWake \/ TimerCheck \/ TimerOff \/ TimerClear \/ TimerStop
    \/ TimerReturn

-----------------------------------------------------------------------------
(* The main thread, in omnitrace_finalize()                                    *)

MainGo(from, to) == Go(Main, from, to)

BlockSamples ==
    /\ MainGo("run", "blocked") /\ samples' = FALSE
    /\ UNCHANGED <<finalized, sampler, running, timerVars, next, slipped>>

Finalize ==
    /\ MainGo("blocked", "shutdown") /\ finalized' = TRUE
    /\ UNCHANGED <<samplerVars, timerVars, next, slipped>>

(* sampling::shutdown(): configure(false, 0), ...                              *)
Shutdown ==
    /\ MainGo("shutdown", IF running[Main] THEN "clear" ELSE "join")
    /\ UNCHANGED <<finalized, samplerVars, timerVars, next, slipped>>

MainNotify ==
    /\ MainGo("notify", "stop") /\ IF isSet THEN Notify ELSE UNCHANGED notified
    /\ UNCHANGED <<finalized, samplerVars, disabled, timer, isSet, expired, mutex, next,
                   slipped>>

MainStop ==
    /\ \/ MainGo("stop", "stopping") /\ StopMain /\ UNCHANGED <<running, next, slipped>>
       \/ at[Main] = "stopping" /\ StopNext(Main) /\ UNCHANGED <<samples, at>>
       \/ MainGo("stopping", "stopped") /\ ~ThreadsLeft(Main)
          /\ UNCHANGED <<samplerVars, next, slipped>>
    /\ UNCHANGED <<finalized, timerVars>>

(* stop_duration_thread(): if there is a duration thread, it is notified and    *)
(* joined.                                                                     *)
JoinTimer(from, joining, to) ==
    /\ MainGo(from, IF isSet THEN joining ELSE to)
    /\ IF isSet THEN Notify ELSE UNCHANGED notified
    /\ UNCHANGED <<finalized, samplerVars, disabled, timer, isSet, expired, mutex, next,
                   slipped>>

(* Mutant: shutdown() leaves the join to configure(), which may have had       *)
(* nothing to stop.                                                            *)
JoinIfStopped ==
    \/ JoinTimer("stopped", "ending", "join")
    \/ MainGo("join", "post")
       /\ UNCHANGED <<finalized, samplerVars, timerVars, next, slipped>>

(* It is called at the end of configure(false, 0), and again by shutdown().     *)
Join == JoinTimer("stopped", "ending", "join") \/ JoinTimer("join", "joining", "post")

Joined ==
    /\ timer = "ended" /\ isSet' = FALSE
    /\ MainGo("ending", "join") \/ MainGo("joining", "post")
    /\ UNCHANGED <<finalized, samplerVars, disabled, timer, notified, expired, mutex, next,
                   slipped>>

(* post_process(): all samplers are destroyed after their data has been read.   *)
Destroy ==
    /\ MainGo("post", "done")
    /\ sampler' = [t \in DOMAIN sampler |-> "none"]
    /\ UNCHANGED <<finalized, samples, running, timerVars, next, slipped>>

MainThread ==
    \/ Shutdown \/ ClearRunning(Main) \/ MainNotify \/ MainStop \/ Join \/ Joined
    \/ Destroy

ThreadStep(t) ==
    \/ Setup(t) \/ Build(t) \/ SetRunning(t) \/ StartTimer(t) \/ StartSampler(t)
    \/ t # Main /\ (End(t) \/ ClearRunning(t) \/ EndNotify(t) \/ StopSampler(t))

Next ==
    \/ \E t \in {Main} \cup Thread : ThreadStep(t)
    \/ Expire \/ DurationThread \/ BlockSamples \/ Finalize \/ MainThread

Spec == Init /\ [][Next]_vars

(* The main thread and the duration thread are scheduled, and time passes.     *)
FairSpec ==
    Spec /\ WF_vars(Expire) /\ WF_vars(DurationThread) /\ WF_vars(MainThread)

-----------------------------------------------------------------------------
(* The types; the duration thread holds the mutex from the end of its wait to  *)
(* the end of the shutdown.                                                    *)
TypeOK ==
    /\ {finalized, samples, disabled, isSet, notified, expired} \subseteq BOOLEAN
    /\ sampler \in [{Main} \cup Thread -> {"none", "built", "started", "stopped"}]
    /\ running \in [{Main} \cup Thread -> BOOLEAN]
    /\ at \in [{Main} \cup Thread ->
               {"setup", "build", "built", "duration", "start", "run", "clear", "notify", "stop",
                "exited", "blocked", "shutdown", "stopping", "stopped", "ending", "join",
                "joining", "post", "done"}]
    /\ timer \in {"none", "lock", "waiting", "check", "off", "clear", "stop", "stopping",
                  "return", "ended"}
    /\ mutex = IF timer \in {"check", "off", "clear", "stop", "stopping", "return"}
               THEN Timer ELSE Nobody
    /\ next \in [{Main, Timer} -> 1 .. 2 * Threads + 1] /\ slipped \subseteq Thread

(* While the samples are processed and the samplers destroyed, the duration    *)
(* thread is not stopping them.                                                *)
ProcessesAlone ==
    at[Main] \in {"post", "done"} => timer \notin {"off", "clear", "stop", "stopping"}

(* When the samples are processed no sampler runs, whoever has stopped them,   *)
(* except of a thread that was in its set up when the samplers were stopped.   *)
StopsAll ==
    at[Main] = "post" =>
        \A t \in Thread \ slipped : InSetup(t) \/ sampler[t] # "started"

(* The finalization ends, although the duration thread may have missed its     *)
(* notification.                                                               *)
ShutdownEnds == finalized ~> at[Main] = "done"

(* A set up finds the sampler that it has built.                               *)
StartsItsSampler == \A t \in Thread : at[t] = "start" => sampler[t] # "none"

(* The main thread waits for the duration thread only as long as it takes that *)
(* to end, not for the rest of the duration.                                   *)
JoinsPromptly == at[Main] \in {"ending", "joining"} /\ timer = "waiting" => notified \/ expired
=============================================================================
