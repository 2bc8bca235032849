------------------------- MODULE CausalDelay_proofs -------------------------
(* What holds of the delays for any set of threads, any sequence of wrapped    *)
(* calls, samples and experiments, and any sleep overhead.                     *)
EXTENDS CausalDelay, TLAPS

PositionType ==
    /\ at \in [Thread -> [Context -> MainAt \cup HandlerAt]]
    /\ \A t \in Thread, c \in Context : at[t][c] \in Positions(c)

HeldType == held \in [Thread -> [Context -> Int]]

(* The initial state is type correct.                                         *)
LEMMA InitType == Init => TypeOK
<1> SUFFICES ASSUME Init PROVE TypeOK
  OBVIOUS
<1>1. PositionType
  BY DEF Init, PositionType, Context, Positions, MainAt, HandlerAt, Processing
<1>2. held \in [Thread -> [Context -> Int]]
  BY DEF Init
<1>3. credited \in [Thread -> Nat] /\ experiments \in 0 .. MaxExperiments
  BY DelayAssumption DEF Init
<1>4. call \in [Thread -> Calls \cup {"none"}]
  BY DEF Init
<1>5. parent \in [Thread -> Thread \cup {NoThread}] /\ owner \in Thread \cup {NoThread}
  BY DEF Init
<1>6. localDelay \in [Thread -> Int] /\ toFill \subseteq Thread
  BY DEF Init
<1>7. active \in BOOLEAN /\ quiet \in BOOLEAN
  BY DEF Init
<1>8. /\ globalDelay \in Int /\ sampleDelay \in Nat
      /\ baseline \in Int /\ totalDelay \in Int /\ syncValue \in Int
      /\ expAt = "idle"
  BY DEF Init
<1>9. overruns \in 0 .. MaxOverruns /\ calls \in 0 .. MaxCalls
  BY DelayAssumption DEF Init
<1> QED
  BY <1>1, <1>2, <1>3, <1>4, <1>5, <1>6, <1>7, <1>8, <1>9
  DEF TypeOK, PositionType

(* The positions a thread goes to are positions.                               *)
LEMMA GotoType ==
    ASSUME PositionType,
           NEW t \in Thread, NEW c \in Context, NEW where \in Positions(c),
           Goto(t, c, where)
    PROVE  PositionType'
  BY DEF Goto, Context, PositionType, Positions

(* What a thread keeps in a local variable stays an integer.                   *)
LEMMA HoldType ==
    ASSUME HeldType, NEW t \in Thread, NEW c \in Context, NEW value \in Int,
           Hold(t, c, value)
    PROVE  HeldType'
  BY DEF Hold, HeldType

(* A thread's own delay stays an integer.                                      *)
LEMMA SetDelayType ==
    ASSUME localDelay \in [Thread -> Int],
           NEW t \in Thread, NEW value \in Int, SetDelay(t, value)
    PROVE  localDelay' \in [Thread -> Int]
  BY DEF SetDelay

(* The end of process() leaves the types of positions and held values.         *)
LEMMA ReturnType ==
    ASSUME PositionType, HeldType, NEW t \in Thread, NEW c \in Context, Return(t, c)
    PROVE  PositionType' /\ HeldType'
<1>1. Processed(t, c) \in Positions(c)
  BY DEF Processed, Positions, MainAt, HandlerAt, Context
<1>2. PositionType'
  BY <1>1, GotoType DEF Return
<1>3. HeldType'
  BY HoldType DEF Return
<1> QED
  BY <1>2, <1>3

(* Every step, of a thread, a handler or the experiment thread, keeps the types. *)
LEMMA StepType == TypeOK /\ [Next]_vars => TypeOK'
<1> SUFFICES ASSUME TypeOK, [Next]_vars PROVE TypeOK'
  OBVIOUS
<1> USE DEF delays, expVars, history, threadVars
<1>p. PositionType /\ HeldType
  BY DEF TypeOK, PositionType, HeldType
<1>1. ASSUME NEW t \in Thread, NEW c \in Context, Process(t, c) PROVE TypeOK'
  <2>c. c = "main" \/ c = "handler"
    BY DEF Context
  <2>w. {"compare", "copy", "write", "behind", "difference", "raise", "pause",
         "asleep", "awake"} \subseteq Positions(c)
    BY <2>c DEF Positions, MainAt, HandlerAt, Processing
  <2>s. Settle => quiet' \in BOOLEAN
    BY DEF Settle
  <2>1. CASE ProcessActive(t, c) \/ ProcessInactive(t, c) \/ CompareAhead(t, c)
    <3>1. PositionType'
      BY <1>p, <2>w, <2>1, GotoType DEF ProcessActive, ProcessInactive, CompareAhead
    <3> QED
      BY <2>1, <3>1
      DEF TypeOK, PositionType, ProcessActive, ProcessInactive, CompareAhead
  <2>2. CASE Copy(t, c) \/ Difference(t, c) \/ Sleep(t, c)
    <3>1. PositionType'
      BY <1>p, <2>w, <2>2, GotoType DEF Copy, Difference, Sleep
    <3>2. HeldType'
      BY <1>p, <2>2, HoldType DEF Copy, Difference, Sleep, TypeOK, Positive
    <3> QED
      BY <2>2, <3>1, <3>2 DEF TypeOK, PositionType, HeldType, Copy, Difference, Sleep
  <2>3. CASE Write(t, c) \/ Resume(t, c)
    <3>1. PositionType' /\ HeldType'
      BY <1>p, <2>3, ReturnType DEF Write, Resume
    <3>2. localDelay' \in [Thread -> Int]
      BY <1>p, <2>3, SetDelayType DEF Write, Resume, TypeOK, HeldType
    <3> QED
      BY <2>3, <2>s, <3>1, <3>2 DEF TypeOK, PositionType, HeldType, Write, Resume
  <2>4. CASE Raise(t, c)
    <3>1. PositionType' /\ HeldType'
      BY <1>p, <2>4, ReturnType DEF Raise
    <3>2. globalDelay' \in Int
      BY <2>4 DEF TypeOK, Raise
    <3> QED
      BY <2>4, <2>s, <3>1, <3>2 DEF TypeOK, PositionType, HeldType, Raise
  <2>5. CASE CompareBehind(t, c)
    <3>1. CASE globalDelay > localDelay[t]
      <4>1. PositionType'
        BY <1>p, <2>w, <2>5, <3>1, GotoType DEF CompareBehind
      <4> QED
        BY <2>5, <3>1, <4>1 DEF TypeOK, PositionType, CompareBehind
    <3>2. CASE ~(globalDelay > localDelay[t])
      <4>1. PositionType' /\ HeldType'
        BY <1>p, <2>5, <3>2, ReturnType DEF CompareBehind
      <4> QED
        BY <2>5, <2>s, <3>2, <4>1 DEF TypeOK, PositionType, HeldType, CompareBehind
    <3> QED
      BY <3>1, <3>2
  <2>6. CASE Wake(t, c)
    <3>1. PositionType'
      BY <1>p, <2>w, <2>6, GotoType DEF Wake
    <3>2. PICK late \in {0} \cup Overhead :
             /\ overruns' = IF late = 0 THEN overruns ELSE overruns + 1
             /\ overruns' <= MaxOverruns
             /\ Hold(t, c, localDelay[t] + held[t][c] + late)
      BY <2>6 DEF Wake
    <3>3. localDelay[t] + held[t][c] + late \in Int
      BY <1>p, DelayAssumption DEF TypeOK, HeldType
    <3>4. HeldType'
      BY <1>p, <3>2, <3>3, HoldType
    <3>5. overruns' \in 0 .. MaxOverruns
      BY <3>2, DelayAssumption DEF TypeOK
    <3> QED
      BY <2>6, <3>1, <3>4, <3>5 DEF TypeOK, PositionType, HeldType, Wake
  <2> QED
    BY <1>1, <2>1, <2>2, <2>3, <2>4, <2>5, <2>6 DEF Process
<1>2. CASE Experiment
  <2>1. ASSUME NEW t \in Thread, Fill(t) PROVE TypeOK'
    <3>1. localDelay' \in [Thread -> Int]
      BY <2>1, SetDelayType DEF Fill, TypeOK
    <3> QED
      BY <2>1, <3>1 DEF TypeOK, Fill
  <2>2. CASE StartSync
    BY <2>2, DelayAssumption DEF TypeOK, StartSync, SyncRead
  <2>3. CASE Publish
    BY <2>3, DelayAssumption DEF TypeOK, Publish
  <2>4. CASE Retract
    BY <2>4 DEF TypeOK, Retract
  <2>5. CASE StopTotal
    BY <2>5 DEF TypeOK, StopTotal
  <2>6. CASE StopSync
    BY <2>6 DEF TypeOK, StopSync, SyncRead
  <2>7. CASE Stopped
    BY <2>7 DEF TypeOK, Stopped
  <2> QED
    BY <1>2, <2>1, <2>2, <2>3, <2>4, <2>5, <2>6, <2>7 DEF Experiment
<1>3. ASSUME NEW t \in Thread,
             BeginBlocking(t) \/ BeginUnblocking(t) \/ Main(t)
      PROVE  TypeOK'
  <2>m. /\ "main" \in Context
        /\ {"user", "load", "pre", "call", "post", "credit", "process"}
             \subseteq Positions("main")
    BY DEF Context, Positions, MainAt, Processing
  <2>e. \A name : Enter(t, name) => /\ call' \in [Thread -> Calls \cup {"none"}]
                                    /\ calls' \in 0 .. MaxCalls
    BY DelayAssumption DEF Enter, TypeOK
  <2>l. Leave(t) => call' \in [Thread -> Calls \cup {"none"}]
    BY DEF Leave, TypeOK
  <2>b. BeginWait(t) => PositionType' /\ HeldType'
    BY <1>p, <2>m, GotoType, HoldType DEF BeginWait, TypeOK
  <2>1. CASE BeginBlocking(t)
    <3>1. call' \in [Thread -> Calls \cup {"none"}] /\ calls' \in 0 .. MaxCalls
      BY <2>1, <2>e DEF BeginBlocking
    <3> QED
      BY <2>1, <2>b, <3>1 DEF TypeOK, PositionType, HeldType, BeginBlocking
  <2>2. CASE BeginUnblocking(t)
    <3>1. PositionType'
      BY <1>p, <2>m, <2>2, GotoType DEF BeginUnblocking
    <3>2. call' \in [Thread -> Calls \cup {"none"}] /\ calls' \in 0 .. MaxCalls
      BY <2>2, <2>e DEF BeginUnblocking
    <3> QED
      BY <2>2, <3>1, <3>2 DEF TypeOK, PositionType, BeginUnblocking
  <2>3. CASE BarrierLoad(t)
    BY <2>3, <2>b DEF TypeOK, PositionType, HeldType, BarrierLoad
  <2>4. CASE BlockSamples(t)
    <3>1. PositionType'
      BY <1>p, <2>m, <2>4, GotoType DEF BlockSamples
    <3> QED
      BY <2>4, <3>1 DEF TypeOK, PositionType, BlockSamples
  <2>5. CASE RealBlockingReturns(t)
    <3>1. PositionType'
      BY <1>p, <2>m, <2>5, GotoType DEF RealBlockingReturns
    <3>2. HeldType'
      BY <1>p, <2>m, <2>5, HoldType DEF RealBlockingReturns, HeldType
    <3>3. call' \in [Thread -> Calls \cup {"none"}] /\ owner' \in Thread \cup {NoThread}
      BY <2>5, <2>l DEF RealBlockingReturns, TypeOK
    <3> QED
      BY <2>5, <3>1, <3>2, <3>3 DEF TypeOK, PositionType, HeldType, RealBlockingReturns
  <2>6. CASE Postblock(t)
    <3>1. PositionType'
      BY <1>p, <2>m, <2>6, GotoType DEF Postblock
    <3>2. localDelay[t] + (globalDelay - held[t]["main"]) \in Int
      BY <1>p, <2>m DEF TypeOK, HeldType
    <3>3. HeldType'
      BY <1>p, <2>m, <2>6, <3>2, HoldType DEF Postblock
    <3> QED
      BY <2>6, <3>1, <3>3 DEF TypeOK, PositionType, HeldType, Postblock
  <2>0. CASE Credit(t)
    <3>1. PositionType'
      BY <1>p, <2>m, <2>0, GotoType DEF Credit
    <3>2. HeldType'
      BY <1>p, <2>m, <2>0, HoldType DEF Credit
    <3>3. localDelay' \in [Thread -> Int]
      BY <1>p, <2>m, <2>0, SetDelayType DEF Credit, TypeOK, HeldType
    <3> QED
      BY <2>0, <2>l, <3>1, <3>2, <3>3 DEF TypeOK, PositionType, HeldType, Credit
  <2>7. CASE RealUnlock(t)
    <3>1. PositionType'
      BY <1>p, <2>m, <2>7, GotoType DEF RealUnlock
    <3> QED
      BY <2>7, <2>l, <3>1 DEF TypeOK, PositionType, RealUnlock
  <2>8. CASE RealCreate(t)
    <3>1. ASSUME NEW u \in Thread,
                 at' = [at EXCEPT ![t]["main"] = "user", ![u]["main"] = "inherit"]
          PROVE  PositionType'
      BY <1>p, <3>1 DEF PositionType, Positions, Context, MainAt
    <3>2. PositionType'
      <4>1. CASE \E u \in Thread : at[u]["main"] = "unborn"
        BY <2>8, <3>1, <4>1 DEF RealCreate
      <4>2. CASE ~\E u \in Thread : at[u]["main"] = "unborn"
        <5>1. Goto(t, "main", "user")
          BY <2>8, <4>2 DEF RealCreate
        <5> QED
          BY <1>p, <2>m, <5>1, GotoType
      <4> QED
        BY <4>1, <4>2
    <3>3. UNCHANGED parent \/ \E u \in Thread : parent' = [parent EXCEPT ![u] = t]
      <4>1. CASE \E u \in Thread : at[u]["main"] = "unborn"
        BY <2>8, <4>1 DEF RealCreate
      <4>2. CASE ~\E u \in Thread : at[u]["main"] = "unborn"
        BY <2>8, <4>2 DEF RealCreate
      <4> QED
        BY <4>1, <4>2
    <3>4. parent' \in [Thread -> Thread \cup {NoThread}]
      BY <3>3 DEF TypeOK
    <3> QED
      BY <2>8, <2>l, <3>2, <3>4 DEF TypeOK, PositionType, RealCreate
  <2>9. CASE Inherit(t)
    <3>1. PositionType'
      BY <1>p, <2>m, <2>9, GotoType DEF Inherit
    <3>2. localDelay' \in [Thread -> Int]
      <4> DEFINE value == IF parent[t] \in Thread THEN localDelay[parent[t]] ELSE globalDelay
      <4>1. value \in Int
        BY DEF TypeOK
      <4> QED
        BY <2>9, <4>1, SetDelayType DEF Inherit, TypeOK
    <3> QED
      BY <2>9, <3>1, <3>2 DEF TypeOK, PositionType, Inherit
  <2> QED
    BY <1>3, <2>0, <2>1, <2>2, <2>3, <2>4, <2>5, <2>6, <2>7, <2>8, <2>9 DEF Main
<1>4. ASSUME NEW t \in Thread, Signal(t) \/ Sample(t) PROVE TypeOK'
  <2>h. /\ "handler" \in Context
        /\ {"process", "hit", "add", "none"} \subseteq Positions("handler")
    BY DEF Context, Positions, HandlerAt, Processing
  <2>1. PositionType'
    BY <1>4, <1>p, <2>h, GotoType
    DEF Signal, CpuTimeSignal, RealTimeSignal, Sample, Hit, HitAdds
  <2>2. CASE Signal(t)
    BY <2>1, <2>2 DEF TypeOK, PositionType, Signal, CpuTimeSignal, RealTimeSignal
  <2>3. CASE Hit(t)
    <3> DEFINE delay == IF active THEN sampleDelay ELSE 0
    <3>1. HeldType'
      BY <1>p, <2>h, <2>3, HoldType DEF TypeOK, Hit
    <3>2. credited' \in [Thread -> Nat] /\ quiet' \in BOOLEAN
      BY <2>3 DEF TypeOK, Hit
    <3> QED
      BY <2>1, <2>3, <3>1, <3>2 DEF TypeOK, PositionType, HeldType, Hit
  <2>4. CASE HitAdds(t)
    <3>1. HeldType'
      BY <1>p, <2>h, <2>4, HoldType DEF HitAdds
    <3>2. localDelay' \in [Thread -> Int]
      BY <1>p, <2>h, <2>4, SetDelayType DEF HitAdds, TypeOK, HeldType
    <3> QED
      BY <2>1, <2>4, <3>1, <3>2 DEF TypeOK, PositionType, HeldType, HitAdds
  <2> QED
    BY <1>4, <2>2, <2>3, <2>4 DEF Sample
<1>5. CASE UNCHANGED vars
  BY <1>5 DEF TypeOK, vars
<1> QED
  BY <1>1, <1>2, <1>3, <1>4, <1>5 DEF Next

(* Every behaviour of the delays is type correct.                              *)
THEOREM TypeCorrect == Spec => []TypeOK
<1>1. Init => TypeOK
  BY InitType
<1>2. TypeOK /\ [Next]_vars => TypeOK'
  BY StepType
<1> QED
  BY <1>1, <1>2, PTL DEF Spec

-----------------------------------------------------------------------------
(* QuietWithoutHit is not inductive: that no thread sleeps now does not keep   *)
(* one from falling asleep.  What is kept up until the next hit is that the    *)
(* delays of all threads, the value that a sync is writing and every value     *)
(* that a thread has read and is about to write are the global delay, and no   *)
(* thread is past the comparisons in process().                                *)
Moving == {"difference", "raise", "pause", "asleep", "awake"}
Remembering == {"write", "pre", "call", "post", "credit", "add"}

Synchronizing == toFill # {} => syncValue = globalDelay
NobodyMoves == \A t \in Thread, c \in Context : at[t][c] \notin Moving
CaughtUp == \A t \in Thread : Born(t) => localDelay[t] = globalDelay
Remembered ==
    \A t \in Thread, c \in Context :
        at[t][c] \in Remembering => held[t][c] = globalDelay

Calm == Synchronizing /\ NobodyMoves /\ CaughtUp /\ Remembered

(* A handler interrupts a thread that has got its delay, and a child takes the *)
(* delay of a parent that has its own.                                         *)
Lineage ==
    \A t \in Thread :
        /\ at[t]["handler"] # "none" => Born(t)
        /\ at[t]["main"] = "inherit" => parent[t] \in Thread /\ Born(parent[t])

(* A thread that goes on inside or outside the delay code stays born.          *)
LEMMA GotoLineage ==
    ASSUME PositionType, Lineage, UNCHANGED parent,
           NEW t \in Thread, NEW c \in Context, NEW where,
           where \notin {"unborn", "inherit"},
           c = "main" \/ Born(t),
           Goto(t, c, where)
    PROVE  Lineage' /\ \A u \in Thread : Born(u)' => Born(u) \/ u = t
<1>c. "main" \in Context /\ "handler" \in Context /\ (c = "main" \/ c = "handler")
  BY DEF Context
<1>1. \A u \in Thread, d \in Context :
         at'[u][d] = IF u = t /\ d = c THEN where ELSE at[u][d]
  BY DEF Goto, PositionType
<1>2. \A u \in Thread : Born(u) => Born(u)'
  BY <1>1, <1>c DEF Born
<1>3. \A u \in Thread : Born(u)' => Born(u) \/ u = t
  BY <1>1, <1>c DEF Born
<1>4. c = "main" => Born(t)'
  BY <1>1, <1>c DEF Born
<1> QED
  BY <1>1, <1>2, <1>3, <1>4, <1>c DEF Lineage

(* Where a thread goes after process().                                        *)
LEMMA ReturnLineage ==
    ASSUME PositionType, Lineage, UNCHANGED parent,
           NEW t \in Thread, NEW c \in Context, c = "main" \/ Born(t), Return(t, c)
    PROVE  Lineage' /\ \A u \in Thread : Born(u)' => Born(u) \/ u = t
<1>1. Processed(t, c) \notin {"unborn", "inherit"}
  BY DEF Processed
<1> QED
  BY <1>1, GotoLineage DEF Return

LEMMA StepLineage == TypeOK /\ Lineage /\ [Next]_vars => Lineage'
<1> SUFFICES ASSUME TypeOK, Lineage, [Next]_vars PROVE Lineage'
  OBVIOUS
<1> USE DEF delays, expVars, history, threadVars
<1>p. PositionType
  BY DEF TypeOK, PositionType
<1>c. "main" \in Context /\ "handler" \in Context
  BY DEF Context
<1>1. ASSUME NEW t \in Thread, NEW c \in Context, Process(t, c) PROVE Lineage'
  <2>1. at[t][c] \in Processing
    BY <1>1 DEF Process, ProcessActive, ProcessInactive, Copy, Write, CompareAhead,
                Difference, Raise, CompareBehind, Sleep, Wake, Resume, Processing
  <2>2. c = "main" \/ Born(t)
    BY <2>1 DEF Context, Lineage, Processing
  <2>3. CASE \/ ProcessActive(t, c) \/ ProcessInactive(t, c) \/ Copy(t, c)
             \/ CompareAhead(t, c) \/ Difference(t, c) \/ Sleep(t, c) \/ Wake(t, c)
    BY <1>p, <2>2, <2>3, GotoLineage
    DEF ProcessActive, ProcessInactive, Copy, CompareAhead, Difference, Sleep, Wake
  <2>4. CASE Write(t, c) \/ Raise(t, c) \/ Resume(t, c)
    BY <1>p, <2>2, <2>4, ReturnLineage DEF Write, Raise, Resume
  <2>5. CASE CompareBehind(t, c)
    <3>1. UNCHANGED parent /\ (Goto(t, c, "pause") \/ Return(t, c))
      BY <2>5 DEF CompareBehind
    <3> QED
      BY <1>p, <2>2, <3>1, GotoLineage, ReturnLineage
  <2> QED
    BY <1>1, <2>3, <2>4, <2>5 DEF Process
<1>2. CASE Experiment \/ UNCHANGED vars
  <2>1. UNCHANGED <<at, parent>>
    BY <1>2 DEF Experiment, StartSync, Fill, Publish, Retract, StopTotal, StopSync,
                Stopped, vars
  <2> QED
    BY <2>1 DEF Lineage, Born
<1>3. ASSUME NEW t \in Thread, BeginBlocking(t) \/ BeginUnblocking(t) \/ Main(t)
      PROVE  Lineage'
  <2>1. CASE BeginBlocking(t) \/ BarrierLoad(t)
    BY <1>p, <1>c, <2>1, GotoLineage DEF BeginBlocking, BarrierLoad, BeginWait
  <2>2. CASE BeginUnblocking(t) \/ BlockSamples(t) \/ Postblock(t) \/ Credit(t)
    BY <1>p, <1>c, <2>2, GotoLineage DEF BeginUnblocking, BlockSamples, Postblock, Credit
  <2>3. CASE RealBlockingReturns(t) \/ RealUnlock(t) \/ Inherit(t)
    BY <1>p, <1>c, <2>3, GotoLineage DEF RealBlockingReturns, RealUnlock, Inherit
  <2>4. CASE RealCreate(t)
    <3>1. CASE ~\E u \in Thread : at[u]["main"] = "unborn"
      BY <1>p, <1>c, <2>4, <3>1, GotoLineage DEF RealCreate
    <3>2. CASE \E u \in Thread : at[u]["main"] = "unborn"
      <4>1. PICK u \in Thread :
               /\ at[u]["main"] = "unborn"
               /\ parent' = [parent EXCEPT ![u] = t]
               /\ at' = [at EXCEPT ![t]["main"] = "user", ![u]["main"] = "inherit"]
        BY <2>4, <3>2 DEF RealCreate
      <4>2. at[t]["main"] = "real" /\ at[u]["main"] = "unborn"
        BY <2>4, <4>1 DEF RealCreate
      <4>3. \A v \in Thread : /\ at'[v]["handler"] = at[v]["handler"]
                              /\ at'[v]["main"] = IF v = t THEN "user"
                                                  ELSE IF v = u THEN "inherit"
                                                  ELSE at[v]["main"]
        BY <1>c, <4>1, <4>2 DEF TypeOK
      <4>4. \A v \in Thread : Born(v) => Born(v)'
        BY <4>2, <4>3 DEF Born
      <4>5. parent'[u] = t /\ \A v \in Thread \ {u} : parent'[v] = parent[v]
        BY <4>1 DEF TypeOK
      <4>6. Born(t)'
        BY <4>3 DEF Born
      <4>7. ASSUME NEW v \in Thread, at'[v]["handler"] # "none" PROVE Born(v)'
        <5>1. Born(v)
          BY <4>3, <4>7 DEF Lineage
        <5> QED
          BY <4>4, <5>1
      <4>8. ASSUME NEW v \in Thread, at'[v]["main"] = "inherit"
            PROVE  parent'[v] \in Thread /\ Born(parent[v])'
        <5>1. CASE v = u
          BY <4>5, <4>6, <5>1
        <5>2. CASE v # u
          <6>1. at[v]["main"] = "inherit"
            BY <4>3, <4>8, <5>2
          <6>2. parent[v] \in Thread /\ Born(parent[v])
            BY <6>1 DEF Lineage
          <6> QED
            BY <4>4, <4>5, <5>2, <6>2
        <5> QED
          BY <5>1, <5>2
      <4> QED
        BY <4>7, <4>8 DEF Lineage
    <3> QED
      BY <3>1, <3>2
  <2> QED
    BY <1>3, <2>1, <2>2, <2>3, <2>4 DEF Main
<1>4. ASSUME NEW t \in Thread, Signal(t) \/ Sample(t) PROVE Lineage'
  <2>1. Born(t)
    BY <1>4 DEF Signal, CpuTimeSignal, RealTimeSignal, Interruptible, Sample, Hit,
                HitAdds, Lineage, Born
  <2> QED
    BY <1>4, <1>p, <1>c, <2>1, GotoLineage
    DEF Signal, CpuTimeSignal, RealTimeSignal, Sample, Hit, HitAdds
<1> QED
  BY <1>1, <1>2, <1>3, <1>4 DEF Next

(* A step of one thread that leaves it, in the context c, outside the pauses,  *)
(* with the global delay as its own and as what it remembers, keeps the calm.  *)
LEMMA GotoCalm ==
    ASSUME PositionType, Calm,
           UNCHANGED <<globalDelay, syncValue, toFill>>,
           NEW t \in Thread, NEW c \in Context, NEW where,
           where \notin Moving,
           Goto(t, c, where),
           \A u \in Thread : Born(u)' => localDelay'[u] = globalDelay,
           \A u \in Thread, d \in Context :
               (u # t \/ d # c) => held'[u][d] = held[u][d],
           where \in Remembering => held'[t][c] = globalDelay
    PROVE  Calm'
<1>1. \A u \in Thread, d \in Context :
         at'[u][d] = IF u = t /\ d = c THEN where ELSE at[u][d]
  BY DEF Goto, PositionType
<1>2. Synchronizing'
  BY DEF Calm, Synchronizing
<1>3. NobodyMoves'
  BY <1>1 DEF Calm, NobodyMoves
<1>4. CaughtUp'
  BY DEF CaughtUp
<1>5. Remembered'
  BY <1>1 DEF Calm, Remembered
<1> QED
  BY <1>2, <1>3, <1>4, <1>5 DEF Calm

(* What a thread holds is the only local variable that changes.                *)
LEMMA HoldOne ==
    ASSUME HeldType, NEW t \in Thread, NEW c \in Context, NEW value, Hold(t, c, value)
    PROVE  /\ held'[t][c] = value
           /\ \A u \in Thread, d \in Context :
                  (u # t \/ d # c) => held'[u][d] = held[u][d]
  BY DEF Hold, HeldType

(* When all threads have caught up and are outside the delay code, it is calm. *)
LEMMA RestCalm == AtRest' => Calm'
<1> SUFFICES ASSUME AtRest' PROVE Calm'
  OBVIOUS
<1>1. Synchronizing' /\ CaughtUp'
  BY DEF AtRest, Synchronizing, CaughtUp
<1>2. ASSUME NEW t \in Thread, NEW c \in Context
      PROVE  /\ at'[t][c] \notin Moving
             /\ at'[t][c] \in Remembering => held'[t][c] = globalDelay'
  BY DEF AtRest, Waiting, Moving, Remembering, Context
<1> QED
  BY <1>1, <1>2 DEF Calm, NobodyMoves, Remembered

(* Hits end the calm, which only begins when all threads are at rest.          *)
LEMMA StepCalm ==
    TypeOK /\ Lineage /\ Lineage' /\ (quiet => Calm) /\ [Next]_vars /\ quiet' => Calm'
<1> SUFFICES ASSUME TypeOK, Lineage, Lineage', quiet => Calm, [Next]_vars, quiet'
             PROVE  Calm'
  OBVIOUS
<1> USE DEF delays, expVars, history, threadVars
<1>p. PositionType /\ HeldType
  BY DEF TypeOK, PositionType, HeldType
<1>c. /\ "main" \in Context /\ "handler" \in Context
      /\ \A c \in Context : c = "main" \/ c = "handler"
  BY DEF Context
<1>u. ASSUME Calm, NEW t \in Thread, Lineage,
             \A u \in Thread : Born(u)' => Born(u) \/ u = t,
             \A u \in Thread \ {t} : localDelay'[u] = localDelay[u],
             localDelay'[t] = globalDelay
      PROVE  \A u \in Thread : Born(u)' => localDelay'[u] = globalDelay
  BY <1>u DEF Calm, CaughtUp
<1>1. ASSUME NEW t \in Thread, NEW c \in Context, Process(t, c) PROVE Calm'
  <2>a. at[t][c] \in Processing
    BY <1>1 DEF Process, ProcessActive, ProcessInactive, Copy, Write, CompareAhead,
                Difference, Raise, CompareBehind, Sleep, Wake, Resume, Processing
  <2>b. c = "main" \/ Born(t)
    BY <2>a, <1>c DEF Lineage, Processing
  <2>d. Born(t)
    BY <2>a, <2>b, <1>c DEF Born, Processing
  <2>w. Processed(t, c) \notin Moving /\ Processed(t, c) \notin Remembering
    BY DEF Processed, Moving, Remembering
  <2>r. Calm => localDelay[t] = globalDelay /\ at[t][c] \notin Moving
    BY <2>d DEF Calm, CaughtUp, NobodyMoves
  <2>1. CASE AtRest'
    BY <2>1, RestCalm
  <2>2. CASE ~AtRest'
    <3>q. Calm
      <4>1. CASE Write(t, c) \/ Raise(t, c) \/ Resume(t, c)
        BY <2>2, <4>1 DEF Write, Raise, Resume, Settle
      <4>2. CASE CompareBehind(t, c)
        BY <2>2, <4>2 DEF CompareBehind, Settle
      <4>3. CASE ~(Write(t, c) \/ Raise(t, c) \/ Resume(t, c) \/ CompareBehind(t, c))
        BY <1>1, <4>3 DEF Process, ProcessActive, ProcessInactive, Copy, CompareAhead,
                          Difference, Sleep, Wake
      <4> QED
        BY <4>1, <4>2, <4>3
    <3>1. CASE ProcessActive(t, c) \/ ProcessInactive(t, c)
      <4>1. PICK where \in {"compare", "copy"} : Goto(t, c, where)
        BY <3>1 DEF ProcessActive, ProcessInactive
      <4>2. UNCHANGED <<delays, expVars, held, parent>>
        BY <3>1 DEF ProcessActive, ProcessInactive
      <4>3. where \notin Moving \cup Remembering \cup {"unborn", "inherit"}
        BY <4>1 DEF Moving, Remembering
      <4>4. \A u \in Thread : Born(u)' => Born(u) \/ u = t
        BY <1>p, <2>b, <4>1, <4>2, <4>3, GotoLineage
      <4>5. \A u \in Thread : Born(u)' => localDelay'[u] = globalDelay
        BY <1>u, <2>r, <3>q, <4>2, <4>4
      <4> QED
        BY <1>p, <3>q, <4>1, <4>2, <4>3, <4>5, GotoCalm
    <3>2. CASE Copy(t, c)
      <4>1. "write" \notin Moving \cup {"unborn", "inherit"}
        BY DEF Moving
      <4>2. \A u \in Thread : Born(u)' => Born(u) \/ u = t
        BY <1>p, <2>b, <3>2, <4>1, GotoLineage DEF Copy
      <4>3. \A u \in Thread : Born(u)' => localDelay'[u] = globalDelay
        BY <1>u, <2>r, <3>q, <3>2, <4>2 DEF Copy
      <4>4. /\ held'[t][c] = globalDelay
            /\ \A u \in Thread, d \in Context :
                   (u # t \/ d # c) => held'[u][d] = held[u][d]
        BY <1>p, <3>2, HoldOne DEF Copy
      <4> QED
        BY <1>p, <3>q, <3>2, <4>1, <4>3, <4>4, GotoCalm DEF Copy
    <3>3. CASE CompareAhead(t, c)
      <4>1. Goto(t, c, "behind") /\ UNCHANGED <<delays, expVars, held, parent>>
        BY <2>r, <3>q, <3>3 DEF CompareAhead, TypeOK
      <4>2. "behind" \notin Moving \cup Remembering \cup {"unborn", "inherit"}
        BY DEF Moving, Remembering
      <4>3. \A u \in Thread : Born(u)' => Born(u) \/ u = t
        BY <1>p, <2>b, <4>1, <4>2, GotoLineage
      <4>4. \A u \in Thread : Born(u)' => localDelay'[u] = globalDelay
        BY <1>u, <2>r, <3>q, <4>1, <4>3
      <4> QED
        BY <1>p, <3>q, <4>1, <4>2, <4>4, GotoCalm
    <3>4. CASE CompareBehind(t, c)
      <4>0. ~(globalDelay > localDelay[t])
        BY <2>r, <3>q DEF TypeOK
      <4>1. Return(t, c) /\ UNCHANGED <<delays, expVars, parent>>
        BY <3>4, <4>0 DEF CompareBehind
      <4>2. \A u \in Thread : Born(u)' => Born(u) \/ u = t
        BY <1>p, <2>b, <4>1, ReturnLineage
      <4>3. \A u \in Thread : Born(u)' => localDelay'[u] = globalDelay
        BY <1>u, <2>r, <3>q, <4>1, <4>2
      <4>4. \A u \in Thread, d \in Context :
                (u # t \/ d # c) => held'[u][d] = held[u][d]
        BY <1>p, <4>1, HoldOne DEF Return
      <4> QED
        BY <1>p, <2>w, <3>q, <4>1, <4>3, <4>4, GotoCalm DEF Return
    <3>5. CASE Write(t, c)
      <4>1. held[t][c] = globalDelay
        BY <3>q, <3>5 DEF Calm, Remembered, Remembering, Write
      <4>2. \A u \in Thread : Born(u)' => Born(u) \/ u = t
        BY <1>p, <2>b, <3>5, ReturnLineage DEF Write
      <4>3. /\ localDelay'[t] = globalDelay
            /\ \A u \in Thread \ {t} : localDelay'[u] = localDelay[u]
        BY <3>5, <4>1 DEF Write, SetDelay, TypeOK
      <4>4. \A u \in Thread : Born(u)' => localDelay'[u] = globalDelay
        BY <1>u, <3>q, <4>2, <4>3
      <4>5. \A u \in Thread, d \in Context :
                (u # t \/ d # c) => held'[u][d] = held[u][d]
        BY <1>p, <3>5, HoldOne DEF Return, Write
      <4> QED
        BY <1>p, <2>w, <3>q, <3>5, <4>4, <4>5, GotoCalm DEF Return, Write
    <3>6. ~(Difference(t, c) \/ Raise(t, c) \/ Sleep(t, c) \/ Wake(t, c) \/ Resume(t, c))
      BY <2>r, <3>q DEF Moving, Difference, Raise, Sleep, Wake, Resume
    <3> QED
      BY <1>1, <3>1, <3>2, <3>3, <3>4, <3>5, <3>6 DEF Process
  <2> QED
    BY <2>1, <2>2
<1>2. CASE Experiment
  <2>q. Calm
    BY <1>2 DEF Experiment, StartSync, Fill, Publish, Retract, StopTotal, StopSync, Stopped
  <2>1. ASSUME NEW t \in Thread, Fill(t) PROVE Calm'
    <3>1. syncValue = globalDelay
      BY <2>q, <2>1 DEF Fill, Calm, Synchronizing
    <3>2. \A u \in Thread : localDelay'[u] = IF u = t THEN globalDelay ELSE localDelay[u]
      BY <2>1, <3>1 DEF Fill, SetDelay, TypeOK
    <3>3. Synchronizing'
      BY <2>1, <3>1 DEF Fill, Synchronizing
    <3>4. CaughtUp'
      BY <2>q, <2>1, <3>2 DEF Fill, Calm, CaughtUp, Born
    <3> QED
      BY <2>q, <2>1, <3>3, <3>4 DEF Fill, Calm, NobodyMoves, Remembered
  <2>2. CASE StartSync \/ StopSync
    BY <2>q, <2>2
    DEF StartSync, StopSync, SyncRead, Calm, Synchronizing, NobodyMoves, CaughtUp,
        Remembered, Born
  <2>3. CASE Publish \/ Retract \/ StopTotal \/ Stopped
    BY <2>q, <2>3
    DEF Publish, Retract, StopTotal, Stopped, Calm, Synchronizing, NobodyMoves, CaughtUp,
        Remembered, Born
  <2> QED
    BY <1>2, <2>1, <2>2, <2>3 DEF Experiment
<1>3. ASSUME NEW t \in Thread, BeginBlocking(t) \/ BeginUnblocking(t) \/ Main(t)
      PROVE  Calm'
  <2>q. Calm
    BY <1>3 DEF BeginBlocking, BeginUnblocking, Main, BarrierLoad, BlockSamples,
                RealBlockingReturns, Postblock, Credit, RealUnlock, RealCreate, Inherit
  <2>k. /\ {"user", "pre", "call", "post", "credit", "process"}
             \cap (Moving \cup {"unborn", "inherit"}) = {}
        /\ {"user", "process"} \cap Remembering = {}
        /\ {"pre", "call", "post", "credit"} \subseteq Remembering
    BY DEF Moving, Remembering
  <2>h. \A value : Hold(t, "main", value) =>
            /\ held'[t]["main"] = value
            /\ \A u \in Thread, d \in Context :
                   (u # t \/ d # "main") => held'[u][d] = held[u][d]
    BY <1>p, <1>c, HoldOne
  <2>b. \A where : where \notin {"unborn", "inherit"} /\ Goto(t, "main", where)
                   /\ UNCHANGED parent
                   => \A u \in Thread : Born(u)' => Born(u) \/ u = t
    BY <1>p, <1>c, GotoLineage
  <2>v. \A d \in Context : at[t][d] \in Remembering => held[t][d] = globalDelay
    BY <2>q DEF Calm, Remembered
  <2>l. Born(t) => localDelay[t] = globalDelay
    BY <2>q DEF Calm, CaughtUp
  <2>1. ASSUME NEW where \in {"user", "pre", "call", "post", "credit", "process"},
               Goto(t, "main", where), Born(t),
               UNCHANGED <<delays, expVars, parent>>,
               \/ where \in {"call", "post"} /\ UNCHANGED held /\ at[t]["main"] \in Remembering
               \/ where \in {"pre", "credit"} /\ Hold(t, "main", globalDelay)
               \/ where \in {"user", "process"} /\ UNCHANGED held
               \/ where = "user" /\ Hold(t, "main", 0)
        PROVE  Calm'
    <3>1. where \notin {"unborn", "inherit"} /\ where \notin Moving
      BY <2>k
    <3>2. \A u \in Thread : Born(u)' => Born(u) \/ u = t
      BY <2>b, <2>1, <3>1
    <3>3. \A u \in Thread : Born(u)' => localDelay'[u] = globalDelay
      BY <1>u, <2>q, <2>l, <2>1, <3>2
    <3>4. \A u \in Thread, d \in Context :
              (u # t \/ d # "main") => held'[u][d] = held[u][d]
      BY <2>h, <2>1
    <3>5. where \in Remembering => held'[t]["main"] = globalDelay
      BY <1>c, <2>k, <2>h, <2>v, <2>1
    <3> QED
      BY <1>p, <1>c, <2>q, <2>1, <3>1, <3>3, <3>4, <3>5, GotoCalm
  <2>2. CASE BeginBlocking(t) \/ BarrierLoad(t)
    <3>1. Born(t)
      BY <2>2 DEF BeginBlocking, BarrierLoad, Enter, Born
    <3> QED
      BY <2>1, <2>2, <3>1 DEF BeginBlocking, BarrierLoad, BeginWait
  <2>3. CASE BeginUnblocking(t)
    <3>1. Born(t)
      BY <2>3 DEF BeginUnblocking, Enter, Born
    <3> QED
      BY <2>1, <2>3, <3>1 DEF BeginUnblocking
  <2>4. CASE BlockSamples(t) \/ RealUnlock(t)
    <3>1. Born(t)
      BY <2>4 DEF BlockSamples, RealUnlock, Born
    <3> QED
      BY <2>1, <2>4, <2>k, <3>1 DEF BlockSamples, RealUnlock
  <2>5. CASE RealBlockingReturns(t)
    <3>1. Born(t) /\ at[t]["main"] \in Remembering
      BY <2>5, <2>k DEF RealBlockingReturns, Born
    <3> QED
      BY <2>1, <2>5, <3>1 DEF RealBlockingReturns
  <2>6. CASE Postblock(t)
    <3>1. Born(t) /\ held[t]["main"] = globalDelay
      BY <1>c, <2>6, <2>k, <2>v DEF Postblock, Born
    <3>2. localDelay[t] + (globalDelay - held[t]["main"]) = globalDelay
      BY <2>l, <3>1 DEF TypeOK
    <3> QED
      BY <2>1, <2>6, <3>1, <3>2 DEF Postblock
  <2>7. CASE Credit(t) \/ Inherit(t)
    <3>1. localDelay'[t] = globalDelay /\ \A u \in Thread \ {t} : localDelay'[u] = localDelay[u]
      <4>1. CASE Credit(t)
        <5>1. held[t]["main"] = globalDelay
          BY <1>c, <4>1, <2>k, <2>v DEF Credit
        <5> QED
          BY <4>1, <5>1 DEF Credit, SetDelay, TypeOK
      <4>2. CASE Inherit(t)
        <5>1. parent[t] \in Thread /\ Born(parent[t])
          BY <4>2 DEF Inherit, Lineage
        <5>2. localDelay[parent[t]] = globalDelay
          BY <2>q, <5>1 DEF Calm, CaughtUp
        <5> QED
          BY <4>2, <5>1, <5>2 DEF Inherit, SetDelay, TypeOK
      <4> QED
        BY <2>7, <4>1, <4>2
    <3>2. /\ Goto(t, "main", "user") /\ UNCHANGED <<globalDelay, expVars, parent>>
          /\ UNCHANGED held \/ Hold(t, "main", 0)
      BY <2>7 DEF Credit, Inherit
    <3>3. "user" \notin {"unborn", "inherit"} /\ "user" \notin Moving \cup Remembering
      BY <2>k
    <3>4. \A u \in Thread : Born(u)' => Born(u) \/ u = t
      BY <2>b, <3>2
    <3>5. \A u \in Thread : Born(u)' => localDelay'[u] = globalDelay
      BY <1>u, <2>q, <3>1, <3>4
    <3>6. \A u \in Thread, d \in Context :
              (u # t \/ d # "main") => held'[u][d] = held[u][d]
      BY <2>h, <3>2
    <3> QED
      BY <1>p, <1>c, <2>q, <3>2, <3>3, <3>5, <3>6, GotoCalm
  <2>8. CASE RealCreate(t)
    <3>0. Born(t) /\ UNCHANGED <<delays, expVars, held>>
      BY <2>8 DEF RealCreate, Born
    <3>1. CASE ~\E u \in Thread : at[u]["main"] = "unborn"
      BY <2>1, <2>8, <3>0, <3>1 DEF RealCreate
    <3>2. CASE \E u \in Thread : at[u]["main"] = "unborn"
      <4>1. PICK u \in Thread :
               /\ at[u]["main"] = "unborn"
               /\ at' = [at EXCEPT ![t]["main"] = "user", ![u]["main"] = "inherit"]
        BY <2>8, <3>2 DEF RealCreate
      <4>2. \A v \in Thread, d \in Context :
                at'[v][d] = at[v][d] \/ at'[v][d] \in {"user", "inherit"}
        BY <1>c, <4>1 DEF TypeOK
      <4>3. \A v \in Thread : at'[v]["main"] \in {at[v]["main"], "inherit"} \/ v = t
        BY <1>c, <4>1 DEF TypeOK
      <4>4. \A v \in Thread : Born(v)' => Born(v) \/ v = t
        BY <4>3 DEF Born
      <4>5. {"user", "inherit"} \cap (Moving \cup Remembering) = {}
        BY DEF Moving, Remembering
      <4>6. NobodyMoves' /\ Remembered'
        BY <2>q, <3>0, <4>2, <4>5 DEF Calm, NobodyMoves, Remembered
      <4>7. CaughtUp'
        BY <2>q, <2>l, <3>0, <4>4 DEF Calm, CaughtUp
      <4> QED
        BY <2>q, <3>0, <4>6, <4>7 DEF Calm, Synchronizing
    <3> QED
      BY <3>1, <3>2
  <2> QED
    BY <1>3, <2>2, <2>3, <2>4, <2>5, <2>6, <2>7, <2>8 DEF Main
<1>4. ASSUME NEW t \in Thread, Signal(t) \/ Sample(t) PROVE Calm'
  <2>q. Calm
    BY <1>4 DEF Signal, CpuTimeSignal, RealTimeSignal, Sample, Hit, HitAdds
  <2>a. Born(t)
    BY <1>4 DEF Signal, CpuTimeSignal, RealTimeSignal, Interruptible, Sample, Hit,
                HitAdds, Lineage, Born
  <2>l. localDelay[t] = globalDelay
    BY <2>q, <2>a DEF Calm, CaughtUp
  <2>1. CASE Signal(t)
    <3>1. PICK where \in {"process", "hit"} : Goto(t, "handler", where)
      BY <2>1 DEF Signal, CpuTimeSignal, RealTimeSignal
    <3>2. UNCHANGED <<delays, expVars, held, parent>>
      BY <2>1 DEF Signal, CpuTimeSignal, RealTimeSignal
    <3>3. where \notin Moving \cup Remembering \cup {"unborn", "inherit"}
      BY <3>1 DEF Moving, Remembering
    <3>4. \A u \in Thread : Born(u)' => Born(u) \/ u = t
      BY <1>p, <1>c, <2>a, <3>1, <3>2, <3>3, GotoLineage
    <3>5. \A u \in Thread : Born(u)' => localDelay'[u] = globalDelay
      BY <1>u, <2>q, <2>l, <3>2, <3>4
    <3> QED
      BY <1>p, <1>c, <2>q, <3>1, <3>2, <3>3, <3>5, GotoCalm
  <2>2. CASE Hit(t)
    <3>1. Hold(t, "handler", globalDelay)
      <4> DEFINE delay == IF active THEN sampleDelay ELSE 0
      <4>1. Hold(t, "handler", localDelay[t] + delay) /\ delay = 0
        BY <2>2 DEF Hit
      <4>2. localDelay[t] + delay = globalDelay
        BY <2>l, <4>1 DEF TypeOK
      <4> QED
        BY <4>1, <4>2
    <3>2. /\ held'[t]["handler"] = globalDelay
          /\ \A u \in Thread, d \in Context :
                 (u # t \/ d # "handler") => held'[u][d] = held[u][d]
      BY <1>p, <1>c, <3>1, HoldOne
    <3>3. "add" \notin Moving \cup {"unborn", "inherit"}
      BY DEF Moving
    <3>4. \A u \in Thread : Born(u)' => Born(u) \/ u = t
      BY <1>p, <1>c, <2>a, <2>2, <3>3, GotoLineage DEF Hit
    <3>5. \A u \in Thread : Born(u)' => localDelay'[u] = globalDelay
      BY <1>u, <2>q, <2>l, <2>2, <3>4 DEF Hit
    <3> QED
      BY <1>p, <1>c, <2>q, <2>2, <3>2, <3>3, <3>5, GotoCalm DEF Hit
  <2>3. CASE HitAdds(t)
    <3>1. held[t]["handler"] = globalDelay
      BY <1>c, <2>q, <2>3 DEF HitAdds, Calm, Remembered, Remembering
    <3>2. localDelay'[t] = globalDelay /\ \A u \in Thread \ {t} : localDelay'[u] = localDelay[u]
      BY <2>3, <3>1 DEF HitAdds, SetDelay, TypeOK
    <3>3. "none" \notin Moving \cup Remembering \cup {"unborn", "inherit"}
      BY DEF Moving, Remembering
    <3>4. \A u \in Thread : Born(u)' => Born(u) \/ u = t
      BY <1>p, <1>c, <2>a, <2>3, <3>3, GotoLineage DEF HitAdds
    <3>5. \A u \in Thread : Born(u)' => localDelay'[u] = globalDelay
      BY <1>u, <2>q, <3>2, <3>4
    <3>6. \A u \in Thread, d \in Context :
              (u # t \/ d # "handler") => held'[u][d] = held[u][d]
      BY <1>p, <1>c, <2>3, HoldOne DEF HitAdds
    <3> QED
      BY <1>p, <1>c, <2>q, <2>3, <3>3, <3>5, <3>6, GotoCalm DEF HitAdds
  <2> QED
    BY <1>4, <2>1, <2>2, <2>3 DEF Sample
<1>5. CASE UNCHANGED vars
  BY <1>5 DEF vars, Calm, Synchronizing, NobodyMoves, CaughtUp, Remembered, Born
<1> QED
  BY <1>1, <1>2, <1>3, <1>4, <1>5 DEF Next

(* QuietWithoutHit for every set of threads, calls, experiments and overruns:  *)
(* once all threads have caught up, nobody pauses in delay::process() before   *)
(* the next hit, whatever is synchronized, waited for or created meanwhile.    *)
THEOREM NoPauseWithoutHit == Spec => []QuietWithoutHit
<1> DEFINE IInv == TypeOK /\ Lineage /\ (quiet => Calm)
<1>1. Init => IInv
  <2> SUFFICES ASSUME Init PROVE Lineage /\ Calm
    BY InitType
  <2>1. \A t \in Thread, c \in Context :
            at[t][c] \in {"none", "user", "unborn"} /\ (c = "handler" => at[t][c] = "none")
    BY DEF Init, Context
  <2>2. Lineage
    BY <2>1 DEF Lineage, Context
  <2>3. NobodyMoves /\ Remembered
    BY <2>1 DEF NobodyMoves, Remembered, Moving, Remembering
  <2> QED
    BY <2>2, <2>3 DEF Init, Calm, Synchronizing, CaughtUp
<1>2. IInv /\ [Next]_vars => IInv'
  BY StepType, StepLineage, StepCalm
<1>3. IInv => QuietWithoutHit
  BY DEF QuietWithoutHit, Calm, NobodyMoves, Moving, Pausing
<1> QED
  BY <1>1, <1>2, <1>3, PTL DEF Spec
=============================================================================
