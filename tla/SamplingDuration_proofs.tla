------------------------ MODULE SamplingDuration_proofs ------------------------
(* Proofs about the two samplers.  Of SamplingDuration, for any number of      *)
(* threads: the types, that the samples are processed by one thread alone, and *)
(* that all samplers have been stopped by then.  Of ProcessSampler, for any    *)
(* number of samples: the types, and that all samples are processed.           *)
EXTENDS SamplingDuration, ProcessSampler, TLAPS

(* The order of the main and of the duration thread: what has begun when one   *)
(* of them is where it is.                                                     *)
OrderInv ==
    /\ at[Main] = "setup" => ~disabled /\ timer = "none" /\ \A t \in Thread : at[t] = "setup"
    /\ at[Main] \in {"shutdown", "clear", "notify", "stop", "stopping", "stopped", "ending",
                    "join", "joining", "post", "done"}
         => finalized
    /\ timer \in {"off", "clear", "stop", "stopping"} => disabled
    /\ next[Timer] > 1 => disabled
    /\ next[Main] > 1 => finalized
    /\ ~isSet => timer \in {"none", "ended"}
    /\ at[Main] \in {"post", "done"} => timer \notin {"off", "clear", "stop", "stopping"}

(* A caller of configure(false, 0) has been through both loops.                *)
Passed(c) == next[c] > 2 * Threads

(* A caller of configure(false, 0) stops the samplers that it passes.           *)
StopsPassed ==
    \A c \in {Main, Timer}, t \in Thread :
        next[c] > t /\ t \notin slipped => ~InSetup(t) /\ sampler[t] # "started"

(* A caller stops every sampler that it passes, and none is built afterwards;  *)
(* and when the samples are processed one of the two callers has passed all:   *)
(* the main thread leaves it to the duration thread only if that is at it.     *)
StopInv ==
    /\ StopsPassed
    /\ at[Main] \in {"duration", "start", "run", "blocked", "shutdown"} /\ ~running[Main] =>
         timer \in {"stop", "stopping"} \/ Passed(Timer)
    /\ at[Main] \in {"stopped", "ending"} => Passed(Main)
    /\ at[Main] \in {"join", "joining"} =>
         Passed(Main) \/ Passed(Timer) \/ timer \in {"stop", "stopping"}
    /\ at[Main] \in {"post", "done"} => Passed(Main) \/ Passed(Timer)

-----------------------------------------------------------------------------
(* The indices of the threads, of the main thread and of the duration thread   *)
(* are different.                                                              *)
LEMMA Indices ==
    /\ Threads \in Nat /\ Main \notin Thread /\ Timer \notin Thread
    /\ Main # Timer /\ Timer # Nobody
    /\ Thread = 1 .. Threads
  BY ThreadsAssumption DEF Main, Timer, Thread, Nobody

(* A step of configure(false, 0) stops or resets the sampler of a thread.      *)
LEMMA StopNextType ==
    ASSUME TypeOK, NEW c \in {Main, Timer}, StopNext(c)
    PROVE  /\ sampler' \in [{Main} \cup Thread -> {"none", "built", "started", "stopped"}]
           /\ running' \in [{Main} \cup Thread -> BOOLEAN]
           /\ next' \in [{Main, Timer} -> 1 .. 2 * Threads + 1]
           /\ slipped' \subseteq Thread
  <1> DEFINE t == IF next[c] <= Threads THEN next[c] ELSE next[c] - Threads
  <1> USE Indices DEF TypeOK
  <1>1. next[c] \in 1 .. 2 * Threads + 1 /\ next[c] <= 2 * Threads
    BY DEF StopNext, ThreadsLeft
  <1>2. t \in Thread
    BY <1>1
  <1>3. next' = [next EXCEPT ![c] = next[c] + 1] /\ next[c] + 1 \in 1 .. 2 * Threads + 1
    BY <1>1 DEF StopNext
  <1>4. next' \in [{Main, Timer} -> 1 .. 2 * Threads + 1]
    BY <1>3
  <1>5. slipped' \subseteq Thread
    BY <1>2 DEF StopNext
  <1>6. sampler' \in [{Main} \cup Thread -> {"none", "built", "started", "stopped"}]
    BY DEF StopNext
  <1>7. running' \in [{Main} \cup Thread -> BOOLEAN]
    BY DEF StopNext
  <1> QED  BY <1>4, <1>5, <1>6, <1>7

-----------------------------------------------------------------------------
(* Each action keeps the types.  That the mutex is free when a duration thread *)
(* is started needs OrderInv.                                                  *)
LEMMA StepType == TypeOK /\ OrderInv /\ [Next]_vars => TypeOK'
  <1> SUFFICES ASSUME TypeOK, OrderInv, [Next]_vars PROVE TypeOK'
    OBVIOUS
  <1> USE DEF TypeOK, timerVars, samplerVars
  <1>1. ASSUME NEW t \in {Main} \cup Thread, ThreadStep(t)
        PROVE  TypeOK'
    <2>1. CASE Setup(t)
      BY <2>1 DEF Setup, Go
    <2>2. CASE Build(t)
      BY <2>2 DEF Build, Go
    <2>3. CASE SetRunning(t)
      BY <2>3 DEF SetRunning, Go
    <2>4. CASE StartTimer(t)
      BY <2>4 DEF StartTimer, Go, OrderInv
    <2>5. CASE StartSampler(t)
      BY <2>5 DEF StartSampler, Go
    <2>6. CASE t # Main /\ End(t)
      BY <2>6 DEF End, Go
    <2>7. CASE ClearRunning(t)
      BY <2>7 DEF ClearRunning, Go
    <2>8. CASE t # Main /\ EndNotify(t)
      BY <2>8 DEF EndNotify, Go, Notify
    <2>9. CASE t # Main /\ StopSampler(t)
      BY <2>9 DEF StopSampler, Go
    <2> QED  BY <1>1, <2>1, <2>2, <2>3, <2>4, <2>5, <2>6, <2>7, <2>8, <2>9 DEF ThreadStep
  <1>2. CASE Expire
    BY <1>2 DEF Expire
  <1>3. CASE TimerWait
    BY <1>3 DEF TimerWait, TimerGo
  <1>4. CASE TimerWake
    BY <1>4 DEF TimerWake, TimerGo
  <1>5. CASE TimerCheck
    BY <1>5 DEF TimerCheck, TimerGo
  <1>6. CASE TimerOff
    BY <1>6 DEF TimerOff, TimerGo
  <1>7. CASE TimerStop
    <2>1. CASE TimerGo("stop", "stopping")
      BY <1>7, <2>1 DEF TimerStop, TimerGo, StopMain
    <2>2. CASE timer = "stopping" /\ StopNext(Timer)
      BY <1>7, <2>2, StopNextType DEF TimerStop, TimerGo, StopMain
    <2>3. CASE TimerGo("stopping", "return") /\ ~ThreadsLeft(Timer)
      BY <1>7, <2>3 DEF TimerStop, TimerGo, StopMain
    <2> QED  BY <1>7, <2>1, <2>2, <2>3 DEF TimerStop
  <1>8. CASE TimerReturn
    BY <1>8 DEF TimerReturn, TimerGo
  <1>9. CASE BlockSamples
    BY <1>9 DEF BlockSamples, MainGo, Go
  <1>10. CASE Finalize
    BY <1>10 DEF Finalize, MainGo, Go
  <1>11. CASE Shutdown
    BY <1>11 DEF Shutdown, MainGo, Go
  <1>12. CASE MainNotify
    BY <1>12 DEF MainNotify, MainGo, Go, Notify
  <1>13. CASE MainStop
    <2>1. CASE MainGo("stop", "stopping")
      BY <1>13, <2>1 DEF MainStop, MainGo, Go, StopMain
    <2>2. CASE at[Main] = "stopping" /\ StopNext(Main)
      BY <1>13, <2>2, StopNextType DEF MainStop, MainGo, Go, StopMain
    <2>3. CASE MainGo("stopping", "stopped") /\ ~ThreadsLeft(Main)
      BY <1>13, <2>3 DEF MainStop, MainGo, Go, StopMain
    <2> QED  BY <1>13, <2>1, <2>2, <2>3 DEF MainStop
  <1>14. CASE Join
    BY <1>14 DEF Join, JoinTimer, MainGo, Go, Notify
  <1>15. CASE Joined
    BY <1>15 DEF Joined, MainGo, Go
  <1>16. CASE Destroy
    BY <1>16 DEF Destroy, MainGo, Go
  <1>17. CASE TimerClear
    BY <1>17 DEF TimerClear, TimerGo
  <1>18. CASE ClearRunning(Main)
    BY <1>18 DEF ClearRunning, Go
  <1>19. CASE UNCHANGED vars
    BY <1>19 DEF vars, timerVars, samplerVars
  <1> QED  BY <1>1, <1>2, <1>3, <1>4, <1>5, <1>6, <1>7, <1>8, <1>9, <1>10, <1>11, <1>12,
             <1>13, <1>14, <1>15, <1>16, <1>17, <1>18, <1>19
          DEF Next, DurationThread, MainThread

-----------------------------------------------------------------------------
(* Each action keeps the order of the two threads.                             *)
LEMMA StepOrder == TypeOK /\ OrderInv /\ [Next]_vars => OrderInv'
  <1> SUFFICES ASSUME TypeOK, OrderInv, [Next]_vars PROVE OrderInv'
    OBVIOUS
  <1> USE Indices DEF TypeOK, OrderInv, timerVars, samplerVars
  <1>1. ASSUME NEW t \in {Main} \cup Thread, ThreadStep(t)
        PROVE  OrderInv'
    <2>1. CASE Setup(t)
      BY <2>1 DEF Setup, Go
    <2>2. CASE Build(t)
      BY <2>2 DEF Build, Go
    <2>3. CASE SetRunning(t)
      BY <2>3 DEF SetRunning, Go
    <2>4. CASE StartTimer(t)
      BY <2>4 DEF StartTimer, Go
    <2>5. CASE StartSampler(t)
      BY <2>5 DEF StartSampler, Go
    <2>6. CASE t # Main /\ End(t)
      BY <2>6 DEF End, Go
    <2>7. CASE ClearRunning(t)
      BY <2>7 DEF ClearRunning, Go
    <2>8. CASE t # Main /\ EndNotify(t)
      BY <2>8 DEF EndNotify, Go, Notify
    <2>9. CASE t # Main /\ StopSampler(t)
      BY <2>9 DEF StopSampler, Go
    <2> QED  BY <1>1, <2>1, <2>2, <2>3, <2>4, <2>5, <2>6, <2>7, <2>8, <2>9 DEF ThreadStep
  <1>2. CASE Expire
    BY <1>2 DEF Expire
  <1>3. CASE TimerWait
    BY <1>3 DEF TimerWait, TimerGo
  <1>4. CASE TimerWake
    BY <1>4 DEF TimerWake, TimerGo
  <1>5. CASE TimerCheck
    BY <1>5 DEF TimerCheck, TimerGo
  <1>6. CASE TimerOff
    BY <1>6 DEF TimerOff, TimerGo
  <1>7. CASE TimerStop
    <2>1. CASE TimerGo("stop", "stopping")
      BY <1>7, <2>1 DEF TimerStop, TimerGo, StopMain
    <2>2. CASE timer = "stopping" /\ StopNext(Timer)
      BY <1>7, <2>2, SMTT(30) DEF TimerStop, TimerGo, StopNext, ThreadsLeft
    <2>3. CASE TimerGo("stopping", "return") /\ ~ThreadsLeft(Timer)
      BY <1>7, <2>3 DEF TimerStop, TimerGo, ThreadsLeft
    <2> QED  BY <1>7, <2>1, <2>2, <2>3 DEF TimerStop
  <1>8. CASE TimerReturn
    BY <1>8 DEF TimerReturn, TimerGo
  <1>9. CASE BlockSamples
    BY <1>9 DEF BlockSamples, MainGo, Go
  <1>10. CASE Finalize
    BY <1>10 DEF Finalize, MainGo, Go
  <1>11. CASE Shutdown
    BY <1>11 DEF Shutdown, MainGo, Go
  <1>12. CASE MainNotify
    BY <1>12 DEF MainNotify, MainGo, Go, Notify
  <1>13. CASE MainStop
    <2>1. CASE MainGo("stop", "stopping")
      BY <1>13, <2>1 DEF MainStop, MainGo, Go, StopMain
    <2>2. CASE at[Main] = "stopping" /\ StopNext(Main)
      BY <1>13, <2>2, SMTT(30) DEF MainStop, MainGo, Go, StopNext, ThreadsLeft
    <2>3. CASE MainGo("stopping", "stopped") /\ ~ThreadsLeft(Main)
      BY <1>13, <2>3, SMTT(30) DEF MainStop, MainGo, Go, ThreadsLeft
    <2> QED  BY <1>13, <2>1, <2>2, <2>3 DEF MainStop
  <1>14. CASE Join
    BY <1>14 DEF Join, JoinTimer, MainGo, Go, Notify
  <1>15. CASE Joined
    BY <1>15 DEF Joined, MainGo, Go
  <1>16. CASE Destroy
    BY <1>16 DEF Destroy, MainGo, Go
  <1>17. CASE TimerClear
    BY <1>17 DEF TimerClear, TimerGo
  <1>18. CASE ClearRunning(Main)
    BY <1>18 DEF ClearRunning, Go
  <1>19. CASE UNCHANGED vars
    BY <1>19 DEF vars, timerVars, samplerVars
  <1> QED  BY <1>1, <1>2, <1>3, <1>4, <1>5, <1>6, <1>7, <1>8, <1>9, <1>10, <1>11, <1>12,
             <1>13, <1>14, <1>15, <1>16, <1>17, <1>18, <1>19
          DEF Next, DurationThread, MainThread

-----------------------------------------------------------------------------
(* The loop of a caller of configure(false, 0) stops the sampler it passes.    *)
LEMMA StopNextPassed ==
    ASSUME TypeOK, StopsPassed, NEW c \in {Main, Timer}, StopNext(c), UNCHANGED at
    PROVE  StopsPassed'
  <1> USE Indices DEF TypeOK
  <1> DEFINE s == IF next[c] <= Threads THEN next[c] ELSE next[c] - Threads
  <1>1. /\ next[c] \in 1 .. 2 * Threads /\ next'[c] = next[c] + 1
        /\ \A d \in {Main, Timer} \ {c} : next'[d] = next[d]
    BY DEF StopNext, ThreadsLeft
  <1>2. \A d \in {Main, Timer} : next[d] \in Int
    OBVIOUS
  <1>3. s \in Thread
    BY <1>1
  <1>4. /\ slipped' = IF InSetup(s) THEN slipped \cup {s} ELSE slipped
        /\ sampler'[s] = IF next[c] <= Threads /\ sampler[s] # "none" THEN "stopped"
                         ELSE sampler[s]
        /\ \A t \in Thread \ {s} : sampler'[t] = sampler[t]
    BY <1>3 DEF StopNext
  <1> SUFFICES ASSUME NEW d \in {Main, Timer}, NEW t \in Thread,
                      next'[d] > t, t \notin slipped'
               PROVE  ~InSetup(t) /\ sampler'[t] # "started"
    BY DEF StopsPassed, InSetup
  <1>5. CASE next[d] > t
    BY <1>4, <1>5 DEF StopsPassed
  <1>6. CASE ~(next[d] > t)
    <2>1. d = c /\ t = next[c] /\ next[c] <= Threads
      BY <1>1, <1>2, <1>6
    <2> QED  BY <1>4, <2>1
  <1> QED  BY <1>5, <1>6

(* Each action keeps what the callers have stopped.                            *)
LEMMA StepStop == TypeOK /\ OrderInv /\ StopInv /\ [Next]_vars => StopInv'
  <1> SUFFICES ASSUME TypeOK, OrderInv, StopInv, [Next]_vars PROVE StopInv'
    OBVIOUS
  <1> USE Indices DEF TypeOK, OrderInv, StopInv, StopsPassed, Passed, InSetup, timerVars, samplerVars
  <1>1. ASSUME NEW t \in {Main} \cup Thread, ThreadStep(t)
        PROVE  StopInv'
    <2>1. CASE Setup(t)
      BY <2>1 DEF Setup, Go
    <2>2. CASE Build(t)
      BY <2>2 DEF Build, Go
    <2>3. CASE SetRunning(t)
      BY <2>3 DEF SetRunning, Go
    <2>4. CASE StartTimer(t)
      BY <2>4 DEF StartTimer, Go
    <2>5. CASE StartSampler(t)
      BY <2>5 DEF StartSampler, Go
    <2>6. CASE t # Main /\ End(t)
      BY <2>6 DEF End, Go
    <2>7. CASE ClearRunning(t)
      BY <2>7 DEF ClearRunning, Go
    <2>8. CASE t # Main /\ EndNotify(t)
      BY <2>8 DEF EndNotify, Go, Notify
    <2>9. CASE t # Main /\ StopSampler(t)
      BY <2>9 DEF StopSampler, Go
    <2> QED  BY <1>1, <2>1, <2>2, <2>3, <2>4, <2>5, <2>6, <2>7, <2>8, <2>9 DEF ThreadStep
  <1>2. CASE Expire
    BY <1>2 DEF Expire
  <1>3. CASE TimerWait
    BY <1>3 DEF TimerWait, TimerGo
  <1>4. CASE TimerWake
    BY <1>4 DEF TimerWake, TimerGo
  <1>5. CASE TimerCheck
    BY <1>5 DEF TimerCheck, TimerGo
  <1>6. CASE TimerOff
    BY <1>6 DEF TimerOff, TimerGo
  <1>7. CASE TimerStop
    <2>1. CASE TimerGo("stop", "stopping")
      BY <1>7, <2>1 DEF TimerStop, TimerGo, StopMain
    <2>2. CASE timer = "stopping" /\ StopNext(Timer)
      <3>1. /\ UNCHANGED <<at, timer>> /\ next'[Main] = next[Main]
            /\ running'[Main] = running[Main]
        BY <1>7, <2>2 DEF TimerStop, TimerGo, StopNext, ThreadsLeft
      <3>2. StopsPassed'
        BY <1>7, <2>2, <3>1, StopNextPassed
      <3> QED  BY <2>2, <3>1, <3>2
    <2>3. CASE TimerGo("stopping", "return") /\ ~ThreadsLeft(Timer)
      BY <1>7, <2>3 DEF TimerStop, TimerGo, ThreadsLeft
    <2> QED  BY <1>7, <2>1, <2>2, <2>3 DEF TimerStop
  <1>8. CASE TimerReturn
    BY <1>8 DEF TimerReturn, TimerGo
  <1>9. CASE BlockSamples
    BY <1>9 DEF BlockSamples, MainGo, Go
  <1>10. CASE Finalize
    BY <1>10 DEF Finalize, MainGo, Go
  <1>11. CASE Shutdown
    BY <1>11 DEF Shutdown, MainGo, Go
  <1>12. CASE MainNotify
    BY <1>12 DEF MainNotify, MainGo, Go, Notify
  <1>13. CASE MainStop
    <2>1. CASE MainGo("stop", "stopping")
      <3>1. at' = [at EXCEPT ![Main] = "stopping"] /\ UNCHANGED <<next, slipped>>
        BY <1>13, <2>1 DEF MainStop, MainGo, Go
      <3>2. sampler' = [sampler EXCEPT ![Main] = "stopped"]
        BY <1>13, <2>1 DEF MainStop, MainGo, Go, StopMain
      <3>3. StopsPassed'
        BY <3>1, <3>2
      <3> QED  BY <3>1, <3>3
    <2>2. CASE at[Main] = "stopping" /\ StopNext(Main)
      <3>1. UNCHANGED <<at, timer>> /\ next'[Timer] = next[Timer]
        BY <1>13, <2>2 DEF MainStop, MainGo, Go, StopNext
      <3>2. StopsPassed'
        BY <1>13, <2>2, <3>1, StopNextPassed
      <3> QED  BY <2>2, <3>1, <3>2
    <2>3. CASE MainGo("stopping", "stopped") /\ ~ThreadsLeft(Main)
      <3>1. UNCHANGED <<samplerVars, timerVars, next, slipped>> /\ Passed(Main)
        BY <1>13, <2>3 DEF MainStop, MainGo, Go, ThreadsLeft
      <3>2. at' = [at EXCEPT ![Main] = "stopped"] /\ at[Main] = "stopping"
        BY <2>3 DEF MainGo, Go
      <3> QED  BY <3>1, <3>2
    <2> QED  BY <1>13, <2>1, <2>2, <2>3 DEF MainStop
  <1>14. CASE Join
    BY <1>14 DEF Join, JoinTimer, MainGo, Go, Notify
  <1>15. CASE Joined
    BY <1>15 DEF Joined, MainGo, Go
  <1>16. CASE Destroy
    BY <1>16 DEF Destroy, MainGo, Go
  <1>17. CASE TimerClear
    BY <1>17 DEF TimerClear, TimerGo
  <1>18. CASE ClearRunning(Main)
    BY <1>18 DEF ClearRunning, Go
  <1>19. CASE UNCHANGED vars
    BY <1>19 DEF vars, timerVars, samplerVars
  <1> QED  BY <1>1, <1>2, <1>3, <1>4, <1>5, <1>6, <1>7, <1>8, <1>9, <1>10, <1>11, <1>12,
             <1>13, <1>14, <1>15, <1>16, <1>17, <1>18, <1>19
          DEF Next, DurationThread, MainThread

-----------------------------------------------------------------------------
(* Nothing has been set up or stopped at the beginning.                        *)
LEMMA InitInv == Init => TypeOK /\ OrderInv /\ StopInv
  <1> SUFFICES ASSUME Init PROVE TypeOK /\ OrderInv /\ StopInv
    OBVIOUS
  <1>1. TypeOK
    <2>1. next \in [{Main, Timer} -> 1 .. 2 * Threads + 1] /\ slipped \subseteq Thread
      BY Indices DEF Init
    <2> QED  BY <2>1 DEF Init, TypeOK
  <1>2. OrderInv
    BY Indices DEF Init, OrderInv
  <1>3. StopInv
    BY Indices DEF Init, StopInv, StopsPassed, Passed
  <1> QED  BY <1>1, <1>2, <1>3

(* The three invariants hold together.                                         *)
LEMMA Invariants == Spec => [](TypeOK /\ OrderInv /\ StopInv)
  <1>1. TypeOK /\ OrderInv /\ StopInv /\ [Next]_vars => (TypeOK /\ OrderInv /\ StopInv)'
    BY StepType, StepOrder, StepStop
  <1> QED  BY InitInv, <1>1, PTL DEF Spec

(* The types are as they should be, and the duration thread holds the mutex    *)
(* exactly from the end of its wait to the end of its shutdown, for any number *)
(* of threads.                                                                 *)
THEOREM TypeCorrect == Spec => []TypeOK
  BY Invariants, PTL

(* The duration thread never stops samplers while the finalization processes   *)
(* their samples and destroys them: either it has been joined, or it sees that *)
(* the profiler is finalized and ends.                                         *)
THEOREM ShutdownAlone == Spec => []ProcessesAlone
  <1>1. OrderInv => ProcessesAlone
    BY DEF OrderInv, ProcessesAlone
  <1> QED  BY Invariants, <1>1, PTL

(* No sampler runs when the samples are processed, except of a thread that was *)
(* in its set up when one of the two callers of configure(false, 0) passed it. *)
THEOREM AllStopped == Spec => []StopsAll
  <1>1. TypeOK /\ StopInv => StopsAll
    <2> SUFFICES ASSUME TypeOK, StopInv, at[Main] = "post", NEW t \in Thread \ slipped
                 PROVE  sampler[t] # "started"
      BY DEF StopsAll
    <2>1. PICK c \in {Main, Timer} : next[c] > 2 * Threads
      BY DEF StopInv, Passed
    <2>2. next[c] \in Int /\ t \in 1 .. Threads
      BY Indices DEF TypeOK
    <2>3. next[c] > t
      BY <2>1, <2>2, Indices
    <2> QED  BY <2>3 DEF StopInv, StopsPassed
  <1> QED  BY Invariants, <1>1, PTL

-----------------------------------------------------------------------------
(* The process sampler                                                         *)

(* The polling thread exists from the set up on; a sample is begun below the   *)
(* bound; and once it has been joined nothing is sampled.                      *)
PollInv ==
    /\ main = "setup" => poll = "none"
    /\ poll \in {"sample", "device", "read", "sampled"} => taken < MaxSamples
    /\ main \in {"process", "done"} => poll = "done"
    /\ main = "done" => processed = taken

SamplerInv == SamplerTypeOK /\ PollInv

-----------------------------------------------------------------------------
(* Each action of the two threads and of the HSA runtime keeps the invariant.   *)
LEMMA StepPoll ==
    ASSUME SamplerInv, [SamplerNext]_processVars PROVE SamplerInv'
  <1> USE SamplerAssumption DEF SamplerInv, SamplerTypeOK, PollInv, smi
  <1>1. CASE Configure
    BY <1>1 DEF Configure, GoTo
  <1>2. CASE Loop
    BY <1>2 DEF Loop, GoTo, Continues
  <1>3. CASE Wake
    BY <1>3 DEF Wake, GoTo
  <1>4. CASE Sample
    BY <1>4 DEF Sample, GoTo
  <1>5. CASE CheckDevice
    BY <1>5 DEF CheckDevice, GoTo
  <1>6. CASE ReadDevice
    BY <1>6 DEF ReadDevice, GoTo
  <1>7. CASE Sampled
    <2>1. taken + 1 \in 0 .. MaxSamples
      BY <1>7 DEF Sampled
    <2> QED  BY <1>7, <2>1 DEF Sampled
  <1>8. CASE Ending
    BY <1>8 DEF Ending, GoTo
  <1>9. CASE SetupSampler
    BY <1>9 DEF SetupSampler, MainStep
  <1>10. CASE ActivateSampler
    BY <1>10 DEF ActivateSampler, MainStep
  <1>11. CASE ActivateProfiler
    BY <1>11 DEF ActivateProfiler, MainStep
  <1>12. CASE FinalizeProfiler
    BY <1>12 DEF FinalizeProfiler, MainStep
  <1>13. CASE ShutdownSampler
    BY <1>13 DEF ShutdownSampler, MainStep
  <1>14. CASE ShutdownComponents
    BY <1>14 DEF ShutdownComponents, MainStep
  <1>15. CASE WaitNotSampling
    BY <1>15 DEF WaitNotSampling, MainStep
  <1>16. CASE JoinSampler
    BY <1>16 DEF JoinSampler, MainStep
  <1>17. CASE PostProcess
    BY <1>17 DEF PostProcess, MainStep
  <1>18. CASE LoadRocm
    BY <1>18 DEF LoadRocm
  <1>19. CASE UNCHANGED processVars
    BY <1>19 DEF processVars
  <1> QED  BY <1>1, <1>2, <1>3, <1>4, <1>5, <1>6, <1>7, <1>8, <1>9, <1>10,
              <1>11, <1>12, <1>13, <1>14, <1>15, <1>16, <1>17, <1>18, <1>19
           DEF SamplerNext, Poll, SamplerMain

(* The invariant holds from the beginning.                                     *)
LEMMA PollInvariant == SamplerSpec => []SamplerInv
  <1>1. 0 \in 0 .. MaxSamples
    BY SamplerAssumption
  <1>2. SamplerInit => SamplerInv
    BY <1>1 DEF SamplerInit, SamplerInv, SamplerTypeOK, PollInv
  <1>3. SamplerInv /\ [SamplerNext]_processVars => SamplerInv'
    BY StepPoll
  <1> QED  BY <1>2, <1>3, PTL DEF SamplerSpec

(* The types, with the bound of the samples; is_sampling is set exactly while  *)
(* a sample is taken.                                                          *)
THEOREM SamplerTypeCorrect == SamplerSpec => []SamplerTypeOK
  <1>1. SamplerInv => SamplerTypeOK
    BY DEF SamplerInv
  <1> QED  BY PollInvariant, <1>1, PTL

(* The samples are processed after the last one has been taken, and none is    *)
(* missed, however many there are and wherever the shutdown finds the thread.  *)
THEOREM AllProcessed == SamplerSpec => []ProcessesAll
  <1>1. SamplerInv => ProcessesAll
    BY DEF SamplerInv, PollInv, ProcessesAll
  <1> QED  BY PollInvariant, <1>1, PTL
=============================================================================
