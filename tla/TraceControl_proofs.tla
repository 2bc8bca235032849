------------------------- MODULE TraceControl_proofs -------------------------
(* Proofs about TraceControl, for any set of threads and any depth of their    *)
(* call stacks: the types, that a stop lasts, and that measurements are ended. *)
EXTENDS TraceControl, SequenceTheorems, FiniteSetTheorems, TLAPS

(* The call that stopped a thread, if any, is still on its stack; tracing that  *)
(* has been initialized is active until the finalization.  Stops are bounded.  *)
DepthInv ==
    /\ inited /\ ~finied => active
    /\ \A t \in Thread :
          /\ Len(stack[t]) <= MaxDepth
          /\ stoppedIn[t] = Running \/ stoppedIn[t] \in 0 .. Len(stack[t])
          /\ stops[t] = 0 => stoppedIn[t] = Running
          /\ t \notin Disciplined => stops[t] <= MaxLooseStops

(* A thread that is inside a function has its own copy of the status.          *)
Touched(t) == active /\ stack[t] # << >> => threadEnabled[t] # "unset"

(* The calls up to the one that stopped the thread.                            *)
Base(t) == IF stoppedIn[t] = Running THEN 0 ELSE stoppedIn[t]

(* Threads whose count can be relied upon: those that start where they have    *)
(* stopped, and any other until it has left the function it first stopped in.  *)
Counting(t) ==
    \/ t \in Disciplined \/ stops[t] = 0
    \/ stops[t] = 1 /\ stoppedIn[t] # Running

(* Each call made while a thread is stopped has been counted: none of their    *)
(* returns finds the count at zero.                                            *)
Counted(t) == Counting(t) =>
    /\ count[t] >= 0
    /\ active /\ threadEnabled[t] = "off" => count[t] >= Len(stack[t]) - Base(t)

(* A thread that stops for the first time, or starts where it has stopped,     *)
(* stays off up to then.                                                       *)
StopHolds(t) ==
    (t \in Disciplined \/ stops[t] <= 1) /\ stoppedIn[t] # Running
        => threadEnabled[t] = "off"

(* The calls of a stack that the library has seen and counts.                  *)
Open(s) == {i \in DOMAIN s : s[i].forwarded /\ s[i].kind = "trace"}

(* The library is ahead by no more than the calls that are still open, and a   *)
(* stopped thread has forwarded no call since.                                 *)
Balanced(t) ==
    /\ ~inited => lead[t] = 0
    /\ t \in Disciplined /\ active =>
          /\ lead[t] <= Cardinality(Open(stack[t]))
          /\ threadEnabled[t] = "off" =>
                \A i \in DOMAIN stack[t] : i > Base(t) => ~stack[t][i].forwarded

Counts(t) == Touched(t) /\ Counted(t) /\ StopHolds(t)
Inv == TypeOK /\ DepthInv /\ \A t \in Thread : Counts(t) /\ Balanced(t)

-----------------------------------------------------------------------------
(* A stack without its last call.                                              *)
LEMMA FrontOf ==
    ASSUME NEW S, NEW s \in Seq(S), s # << >>
    PROVE  /\ Front(s) \in Seq(S) /\ Len(Front(s)) = Len(s) - 1 /\ Len(s) \in Nat \ {0}
           /\ \A i \in 1 .. Len(s) - 1 : Front(s)[i] = s[i]
           /\ Last(s) = s[Len(s)] /\ Last(s) \in S
  <1> DEFINE n == Len(s) - 1
             f == SubSeq(s, 1, n)
  <1>1. /\ Len(s) \in Nat \ {0} /\ n \in Nat /\ s[Len(s)] \in S
        /\ \A i \in 1 .. n : s[i] \in S
    OBVIOUS
  <1>2. /\ f \in Seq(S) /\ Len(f) = (IF 1 <= n THEN n - 1 + 1 ELSE 0)
        /\ \A i \in 1 .. n - 1 + 1 : f[i] = s[1 + i - 1]
    <2>1. 1 \in Int /\ n \in Int
      BY <1>1
    <2> HIDE DEF n
    <2> QED  BY <1>1, <2>1, SubSeqProperties
  <1>3. Front(s) = f
    BY DEF Front
  <1> HIDE DEF f
  <1>4. Len(f) = n /\ \A i \in 1 .. n : f[i] = s[i]
    <2> HIDE DEF n
    <2>1. n - 1 + 1 = n /\ (1 <= n \/ n = 0) /\ \A i \in 1 .. n : 1 + i - 1 = i
      BY <1>1
    <2> QED  BY <1>1, <1>2, <2>1
  <1> QED  BY <1>1, <1>2, <1>3, <1>4 DEF Last

(* A step that changes nothing of a thread.                                    *)
Untouched(u) ==
    /\ threadEnabled'[u] = threadEnabled[u] /\ count'[u] = count[u]
    /\ lead'[u] = lead[u] /\ stack'[u] = stack[u] /\ born'[u] = born[u]
    /\ stoppedIn'[u] = stoppedIn[u] /\ stops'[u] = stops[u]

(* A thread changes nothing of another one, but for the global flag.           *)
LEMMA StepOthers ==
    ASSUME TypeOK, NEW t \in Thread, Step(t), NEW u \in Thread, u # t
    PROVE  Untouched(u)
  <1> USE DEF TypeOK, Untouched, phase, history
  <1>1. CASE Create(t)
    BY <1>1 DEF Create
  <1>2. CASE Push(t)
    <2>1. PICK kind \in Kind :
                /\ Enter(t, kind, active /\ IsEnabled(t))
                /\ Lead(t, IF active /\ IsEnabled(t) /\ kind = "trace" THEN 1 ELSE 0)
      BY <1>2 DEF Push
    <2> QED  BY <1>2, <2>1 DEF Push, Enter, Lead, Touch
  <1>3. CASE Pop(t)
    BY <1>3 DEF Pop, LeaveCall, Lead, Touch, Uncount
  <1>4. CASE UserStart(t)
    BY <1>4 DEF UserStart, SetStatus
  <1>5. CASE UserStop(t)
    BY <1>5 DEF UserStop, SetStatus
  <1> QED  BY <1>1, <1>2, <1>3, <1>4, <1>5 DEF Step

-----------------------------------------------------------------------------
(* The types, with the depth of the stacks.                                    *)
LEMMA StepType == TypeOK /\ DepthInv /\ [Next]_vars => TypeOK' /\ DepthInv'
  <1> SUFFICES ASSUME TypeOK, DepthInv, [Next]_vars PROVE TypeOK' /\ DepthInv'
    OBVIOUS
  <1> USE ControlAssumption DEF TypeOK, DepthInv, phase, history, Running
  <1>1. CASE Initialize
    BY <1>1 DEF Initialize
  <1>2. CASE FinalizeTrace
    BY <1>2 DEF FinalizeTrace
  <1>3. ASSUME NEW t \in Thread, Step(t) PROVE TypeOK' /\ DepthInv'
    <2>0. StatusOf(t) \in Status \cup {"unset"} /\ Len(stack[t]) \in Nat
      BY DEF StatusOf
    <2>1. CASE Create(t)
      BY <2>1 DEF Create
    <2>2. CASE Push(t)
      <3>1. PICK kind \in Kind :
                /\ Enter(t, kind, active /\ IsEnabled(t))
                /\ Lead(t, IF active /\ IsEnabled(t) /\ kind = "trace" THEN 1 ELSE 0)
        BY <2>2 DEF Push
      <3> DEFINE c == [kind |-> kind, forwarded |-> active /\ IsEnabled(t)]
      <3>2. c \in Calls /\ stack' = [stack EXCEPT ![t] = Append(@, c)]
        BY <3>1 DEF Enter, Calls, IsEnabled
      <3> HIDE DEF c
      <3>3. stack' \in [Thread -> Seq(Calls)] /\ DepthInv'
        BY <2>2, <3>2, SMTT(30) DEF Push, Depth
      <3>4. lead' \in [Thread -> Int]
        BY <3>1 DEF Lead
      <3>5. threadEnabled' \in [Thread -> Status \cup {"unset"}]
        <4>1. UNCHANGED threadEnabled \/ Touch(t)
          BY <2>2 DEF Push
        <4> QED  BY <2>0, <4>1 DEF Touch
      <3>6. count' \in [Thread -> Int]
        <4>1. UNCHANGED count \/ count' = [count EXCEPT ![t] = @ + 1]
          BY <2>2 DEF Push
        <4> QED  BY <4>1
      <3> QED  BY <2>2, <3>3, <3>4, <3>5, <3>6 DEF Push
    <2>3. CASE Pop(t)
      <3>0. stack[t] # << >> /\ LeaveCall(t) /\ UNCHANGED <<phase, enabled>>
        BY <2>3 DEF Pop
      <3>1. /\ Front(stack[t]) \in Seq(Calls)
            /\ Len(Front(stack[t])) = Len(stack[t]) - 1
            /\ Len(stack[t]) # 0
        BY <3>0, FrontOf
      <3>2. stack' \in [Thread -> Seq(Calls)] /\ DepthInv'
        <4>1. stack' \in [Thread -> Seq(Calls)]
          BY <3>0, <3>1 DEF LeaveCall
        <4>2. ASSUME NEW u \in Thread, u # t
              PROVE  stack'[u] = stack[u] /\ stoppedIn'[u] = stoppedIn[u]
          BY <3>0, <4>2 DEF LeaveCall
        <4>3. /\ stack'[t] = Front(stack[t])
              /\ stoppedIn'[t] = IF stoppedIn[t] = Len(stack[t]) THEN Running
                                 ELSE stoppedIn[t]
          BY <3>0 DEF LeaveCall, Depth
        <4>4. /\ Len(stack'[t]) <= MaxDepth
              /\ stoppedIn'[t] = Running \/ stoppedIn'[t] \in 0 .. Len(stack'[t])
              /\ stops'[t] = 0 => stoppedIn'[t] = Running
              /\ t \notin Disciplined => stops'[t] <= MaxLooseStops
          BY <2>0, <3>0, <3>1, <4>3 DEF LeaveCall
        <4> QED  BY <3>0, <4>1, <4>2, <4>4 DEF LeaveCall
      <3>3. stoppedIn' \in [Thread -> {Running} \cup 0 .. MaxDepth] /\ stops' = stops
        BY <3>0 DEF LeaveCall
      <3>4. lead' \in [Thread -> Int]
        BY <2>3 DEF Pop, Lead, Uncount
      <3>5. threadEnabled' \in [Thread -> Status \cup {"unset"}]
        <4>1. \/ UNCHANGED threadEnabled \/ Touch(t)
              \/ threadEnabled' = [threadEnabled EXCEPT ![t] = "on"]
          BY <2>3 DEF Pop, Uncount
        <4> QED  BY <2>0, <4>1 DEF Touch, Status
      <3>6. count' \in [Thread -> Int]
        <4>1. \/ UNCHANGED count
              \/ count' = [count EXCEPT ![t] = @ + 1]
              \/ count' = [count EXCEPT ![t] = @ - 1]
          BY <2>3 DEF Pop, Uncount
        <4> QED  BY <4>1
      <3>7. born' \in [Thread -> Status \cup {"unborn", "own"}]
        <4>1. UNCHANGED born \/ born' = [born EXCEPT ![t] = "own"]
          BY <2>3 DEF Pop, Uncount
        <4> QED  BY <4>1
      <3> QED  BY <3>0, <3>2, <3>3, <3>4, <3>5, <3>6, <3>7
    <2>4. CASE UserStart(t)
      BY <2>4 DEF UserStart, SetStatus, Status
    <2>5. CASE UserStop(t)
      <3>1. /\ UNCHANGED <<phase, count, lead, stack>> /\ enabled' \in Status
            /\ threadEnabled' \in [Thread -> Status \cup {"unset"}]
            /\ born' \in [Thread -> Status \cup {"unborn", "own"}]
            /\ Len(stack[t]) \in 0 .. MaxDepth
        BY <2>0, <2>5 DEF UserStop, SetStatus, Status, Depth
      <3>2. /\ stoppedIn' = [stoppedIn EXCEPT ![t] = IF @ = Running THEN Len(stack[t])
                                                     ELSE @]
            /\ stops' = [stops EXCEPT ![t] = @ + 1]
            /\ t \notin Disciplined => stops[t] < MaxLooseStops
        BY <2>5 DEF UserStop, Depth
      <3>3. /\ stoppedIn' \in [Thread -> {Running} \cup 0 .. MaxDepth]
            /\ stops' \in [Thread -> Nat]
        BY <3>1, <3>2
      <3>4. DepthInv'
        <4>1. stoppedIn'[t] \in 0 .. Len(stack'[t]) /\ stops'[t] # 0
              /\ (t \notin Disciplined => stops'[t] <= MaxLooseStops)
          BY <3>1, <3>2
        <4>2. ASSUME NEW u \in Thread, u # t
              PROVE  stoppedIn'[u] = stoppedIn[u] /\ stops'[u] = stops[u]
          BY <3>2, <4>2
        <4> QED  BY <3>1, <4>1, <4>2
      <3> QED  BY <3>1, <3>3, <3>4
    <2> QED  BY <1>3, <2>1, <2>2, <2>3, <2>4, <2>5 DEF Step
  <1>4. CASE UNCHANGED vars
    BY <1>4 DEF vars
  <1> QED  BY <1>1, <1>2, <1>3, <1>4 DEF Next

-----------------------------------------------------------------------------
(* What a call changes of its thread.                                          *)
LEMMA PushEffect ==
    ASSUME TypeOK, NEW t \in Thread, Push(t)
    PROVE  /\ UNCHANGED phase /\ stoppedIn'[t] = stoppedIn[t] /\ stops'[t] = stops[t]
           /\ threadEnabled'[t] = (IF active THEN StatusOf(t) ELSE threadEnabled[t])
           /\ count'[t] = count[t] + (IF active /\ StatusOf(t) # "on" THEN 1 ELSE 0)
           /\ \E c \in Calls :
                /\ c.forwarded <=> active /\ StatusOf(t) = "on"
                /\ stack'[t] = Append(stack[t], c)
                /\ lead'[t] = lead[t]
                              + (IF c.forwarded /\ c.kind = "trace" THEN 1 ELSE 0)
  <1> USE DEF TypeOK, phase, history
  <1>1. PICK kind \in Kind :
            /\ Enter(t, kind, active /\ IsEnabled(t))
            /\ Lead(t, IF active /\ IsEnabled(t) /\ kind = "trace" THEN 1 ELSE 0)
    BY DEF Push
  <1> DEFINE c == [kind |-> kind, forwarded |-> active /\ IsEnabled(t)]
  <1>2. c \in Calls /\ c.kind = kind /\ (c.forwarded <=> active /\ StatusOf(t) = "on")
    BY DEF Calls, IsEnabled
  <1>3. stack'[t] = Append(stack[t], c)
    BY <1>1 DEF Enter
  <1>4. lead'[t] = lead[t] + (IF c.forwarded /\ c.kind = "trace" THEN 1 ELSE 0)
    BY <1>1, <1>2 DEF Lead, IsEnabled
  <1>5. threadEnabled'[t] = (IF active THEN StatusOf(t) ELSE threadEnabled[t])
    BY DEF Push, Touch
  <1>6. count'[t] = count[t] + (IF active /\ StatusOf(t) # "on" THEN 1 ELSE 0)
    BY DEF Push, IsEnabled
  <1> QED  BY <1>2, <1>3, <1>4, <1>5, <1>6 DEF Push

(* What a return changes of its thread.                                        *)
LEMMA PopEffect ==
    ASSUME TypeOK, NEW t \in Thread, Pop(t)
    PROVE  /\ UNCHANGED phase /\ stops'[t] = stops[t] /\ MayReturn(t)
           /\ stack[t] # << >> /\ stack'[t] = Front(stack[t])
           /\ stoppedIn'[t] = (IF stoppedIn[t] = Len(stack[t]) THEN Running
                               ELSE stoppedIn[t])
           /\ ~active => /\ threadEnabled'[t] = threadEnabled[t]
                         /\ count'[t] = count[t] /\ lead'[t] = lead[t]
           /\ active /\ StatusOf(t) = "on" =>
                /\ threadEnabled'[t] = "on" /\ count'[t] = count[t]
                /\ lead'[t] = lead[t] - (IF Last(stack[t]).kind = "trace" THEN 1 ELSE 0)
           /\ active /\ StatusOf(t) # "on" =>
                /\ lead'[t] = lead[t]
                /\ \/ count'[t] = count[t] + 1 /\ threadEnabled'[t] = StatusOf(t)
                   \/ count'[t] = count[t] - 1 /\ count[t] # 0
                      /\ threadEnabled'[t] = StatusOf(t)
                   \/ count'[t] = count[t] - 1 /\ count[t] = 0
                      /\ threadEnabled'[t] = "on"
  <1> USE DEF TypeOK, phase, history, Pop
  <1>1. /\ UNCHANGED phase /\ stops'[t] = stops[t] /\ MayReturn(t) /\ stack[t] # << >>
        /\ stack'[t] = Front(stack[t])
        /\ stoppedIn'[t] = (IF stoppedIn[t] = Len(stack[t]) THEN Running
                            ELSE stoppedIn[t])
    BY DEF LeaveCall, Depth
  <1>2. CASE ~active
    BY <1>1, <1>2
  <1>3. CASE active /\ StatusOf(t) = "on"
    BY <1>1, <1>3 DEF Lead, Touch, IsEnabled
  <1>4. CASE active /\ StatusOf(t) # "on"
    BY <1>1, <1>4 DEF Uncount, Touch, IsEnabled
  <1> QED  BY <1>1, <1>2, <1>3, <1>4

-----------------------------------------------------------------------------
(* The calls made while a thread is stopped stay counted, and the stop holds.  *)
LEMMA StepCounts ==
    ASSUME Inv, [Next]_vars, NEW u \in Thread
    PROVE  Counts(u)'
  <1> USE DEF phase, history
  <1>0. /\ Counts(u) /\ count[u] \in Int /\ Len(stack[u]) \in Nat /\ stops[u] \in Nat
        /\ threadEnabled[u] \in Status \cup {"unset"} /\ enabled \in Status
        /\ stack[u] \in Seq(Calls) /\ (stack[u] = << >> <=> Len(stack[u]) = 0)
        /\ stoppedIn[u] = Running \/ stoppedIn[u] \in 0 .. Len(stack[u])
        /\ active \in BOOLEAN /\ (stops[u] = 0 => stoppedIn[u] = Running)
    BY DEF Inv, TypeOK, DepthInv
  <1> USE DEF Counts, Touched, Counted, StopHolds, Counting, Base, Running
  <1>1. CASE Initialize
    <2>1. stack[u] = << >> /\ UNCHANGED <<threadEnabled, count, stack, history>>
      BY <1>1 DEF Initialize
    <2> QED  BY <1>0, <2>1
  <1>2. CASE FinalizeTrace
    BY <1>0, <1>2 DEF FinalizeTrace
  <1>3. ASSUME NEW t \in Thread, Step(t) PROVE Counts(u)'
    <2>p. UNCHANGED phase
      BY <1>3 DEF Step, Create, Push, Pop, UserStart, UserStop, SetStatus
    <2>1. CASE u # t
      <3>1. Untouched(u)
        BY <1>3, <2>1, StepOthers DEF Inv
      <3> QED  BY <1>0, <2>p, <3>1 DEF Untouched
    <2>2. CASE Create(u)
      BY <1>0, <2>2 DEF Create
    <2>3. CASE Push(u)
      <3>1. PICK c \in Calls : stack'[u] = Append(stack[u], c)
        BY <2>3, PushEffect DEF Inv
      <3>2. Len(stack'[u]) = Len(stack[u]) + 1
        BY <1>0, <3>1
      <3>3. /\ stoppedIn'[u] = stoppedIn[u] /\ stops'[u] = stops[u]
            /\ threadEnabled'[u] = (IF active THEN StatusOf(u) ELSE threadEnabled[u])
            /\ count'[u] = count[u] + (IF active /\ StatusOf(u) # "on" THEN 1 ELSE 0)
        BY <2>3, PushEffect DEF Inv
      <3> QED  BY <1>0, <2>p, <3>2, <3>3 DEF StatusOf, Status
    <2>4. CASE Pop(u)
      <3>1. Len(stack'[u]) = Len(stack[u]) - 1 /\ Len(stack[u]) # 0
        BY <1>0, <2>4, PopEffect, FrontOf DEF Inv
      <3>2. StatusOf(u) # "on" /\ active =>
                StatusOf(u) = "off" /\ threadEnabled[u] = "off"
        BY <1>0, <3>1 DEF StatusOf, Status
      <3>3. /\ stops'[u] = stops[u]
            /\ u \in Disciplined => stoppedIn[u] # Len(stack[u])
            /\ stoppedIn'[u] =
                 (IF stoppedIn[u] = Len(stack[u]) THEN Running ELSE stoppedIn[u])
        BY <2>4, PopEffect DEF Inv, MayReturn, Depth
      <3>4. CASE ~active
        BY <1>0, <2>p, <2>4, <3>1, <3>3, <3>4, PopEffect DEF Inv
      <3>5. CASE active /\ StatusOf(u) = "on"
        <4>1. threadEnabled'[u] = "on" /\ count'[u] = count[u]
          BY <2>4, <3>5, PopEffect DEF Inv
        <4>2. threadEnabled[u] = "on"
          BY <1>0, <3>1, <3>5 DEF StatusOf
        <4> QED  BY <1>0, <2>p, <3>1, <3>3, <3>5, <4>1, <4>2
      <3>6. CASE active /\ StatusOf(u) # "on"
        <4>1. \/ count'[u] = count[u] + 1 /\ threadEnabled'[u] = "off"
              \/ count'[u] = count[u] - 1 /\ count[u] # 0 /\ threadEnabled'[u] = "off"
              \/ count'[u] = count[u] - 1 /\ count[u] = 0 /\ threadEnabled'[u] = "on"
          BY <2>4, <3>2, <3>6, PopEffect DEF Inv
        <4>2. Counting(u)' => stoppedIn'[u] = stoppedIn[u]
                              /\ count[u] > 0 /\ count[u] >= Len(stack[u]) - Base(u)
          BY <1>0, <3>1, <3>2, <3>3, <3>6
        <4>3. Counted(u)'
          <5>1. SUFFICES ASSUME Counting(u)'
                         PROVE  count'[u] >= 0 /\ count'[u] >= Len(stack'[u]) - Base(u)'
            OBVIOUS
          <5>2. /\ count[u] > 0 /\ count[u] >= Len(stack[u]) - Base(u)
                /\ Base(u)' = Base(u) /\ Base(u) \in Int
            BY <1>0, <4>2, <5>1
          <5> HIDE DEF Base
          <5> QED  BY <1>0, <3>1, <4>1, <5>2
        <4>4. Touched(u)'
          BY <2>p, <3>6, <4>1
        <4>5. StopHolds(u)'
          <5>1. SUFFICES ASSUME u \in Disciplined \/ stops[u] <= 1,
                                stoppedIn'[u] # Running
                         PROVE  threadEnabled'[u] = "off"
            BY <3>3
          <5>2. Counting(u)'
            BY <1>0, <3>3, <5>1
          <5> QED  BY <4>1, <4>2, <5>2
        <4> QED  BY <4>3, <4>4, <4>5
      <3> QED  BY <3>4, <3>5, <3>6
    <2>5. CASE UserStart(u)
      BY <1>0, <2>5 DEF UserStart, SetStatus, Inv, TypeOK
    <2>6. CASE UserStop(u)
      BY <1>0, <2>6 DEF UserStop, SetStatus, Inv, TypeOK, Depth
    <2> QED  BY <1>3, <2>1, <2>2, <2>3, <2>4, <2>5, <2>6 DEF Step
  <1>4. CASE UNCHANGED vars
    BY <1>0, <1>4 DEF vars
  <1> QED  BY <1>1, <1>2, <1>3, <1>4 DEF Next

-----------------------------------------------------------------------------
(* One call more on the stack.                                                 *)
LEMMA OpenAppend ==
    ASSUME NEW s \in Seq(Calls), NEW c \in Calls, NEW r, r = Append(s, c)
    PROVE  /\ Cardinality(Open(s)) \in Nat
           /\ Cardinality(Open(r)) =
                Cardinality(Open(s))
                    + (IF c.forwarded /\ c.kind = "trace" THEN 1 ELSE 0)
  <1>1. /\ Len(s) \in Nat /\ DOMAIN s = 1 .. Len(s) /\ DOMAIN r = 1 .. Len(s) + 1
        /\ r[Len(s) + 1] = c /\ \A i \in 1 .. Len(s) : r[i] = s[i]
    OBVIOUS
  <1>2. IsFiniteSet(Open(s)) /\ Cardinality(Open(s)) \in Nat
    <2>1. IsFiniteSet(1 .. Len(s)) /\ Open(s) \subseteq 1 .. Len(s)
      BY <1>1, FS_Interval DEF Open
    <2> QED  BY <2>1, FS_Subset, FS_CardinalityType
  <1>3. CASE c.forwarded /\ c.kind = "trace"
    <2>1. ASSUME NEW i PROVE i \in Open(r) <=> i \in Open(s) \/ i = Len(s) + 1
      <3>1. CASE i \in 1 .. Len(s)
        BY <1>1, <3>1 DEF Open
      <3>2. CASE i = Len(s) + 1
        BY <1>1, <1>3, <3>2 DEF Open
      <3>3. CASE i \notin 1 .. Len(s) + 1
        BY <1>1, <3>3 DEF Open
      <3> QED  BY <1>1, <3>1, <3>2, <3>3
    <2>2. Len(s) + 1 \notin Open(s) /\ Open(r) = Open(s) \cup {Len(s) + 1}
      BY <1>1, <2>1 DEF Open
    <2>3. Cardinality(Open(r)) = Cardinality(Open(s)) + 1
      BY <1>2, <2>2, FS_AddElement
    <2> QED  BY <1>2, <1>3, <2>3
  <1>4. CASE ~(c.forwarded /\ c.kind = "trace")
    <2>1. Open(r) = Open(s)
      BY <1>1, <1>4 DEF Open
    <2> QED  BY <1>2, <1>4, <2>1
  <1> QED  BY <1>3, <1>4

(* One call less.                                                              *)
LEMMA OpenFront ==
    ASSUME NEW s \in Seq(Calls), s # << >>
    PROVE  /\ Cardinality(Open(Front(s))) \in Nat
           /\ Cardinality(Open(s)) = Cardinality(Open(Front(s)))
                + (IF Last(s).forwarded /\ Last(s).kind = "trace" THEN 1 ELSE 0)
  <1> DEFINE f == Front(s)
  <1>1. /\ f \in Seq(Calls) /\ Len(f) = Len(s) - 1 /\ Len(s) \in Nat \ {0}
        /\ \A i \in 1 .. Len(s) - 1 : f[i] = s[i]
        /\ Last(s) = s[Len(s)] /\ Last(s) \in Calls
    BY FrontOf
  <1> HIDE DEF f
  <1>2. s = Append(f, Last(s))
    BY <1>1
  <1>3. /\ Cardinality(Open(f)) \in Nat
        /\ Cardinality(Open(s)) = Cardinality(Open(f))
             + (IF Last(s).forwarded /\ Last(s).kind = "trace" THEN 1 ELSE 0)
    BY <1>1, <1>2, OpenAppend
  <1> QED  BY <1>3 DEF f

(* The library is never further ahead than the open calls of the thread.       *)
LEMMA StepBalanced ==
    ASSUME Inv, [Next]_vars, NEW u \in Thread
    PROVE  Balanced(u)'
  <1> USE DEF phase, history
  <1>0. /\ Balanced(u) /\ Touched(u) /\ StopHolds(u)
        /\ lead[u] \in Int /\ Len(stack[u]) \in Nat
        /\ threadEnabled[u] \in Status \cup {"unset"} /\ enabled \in Status
        /\ stack[u] \in Seq(Calls)
        /\ stoppedIn[u] = Running \/ stoppedIn[u] \in 0 .. Len(stack[u])
        /\ active \in BOOLEAN
    BY DEF Inv, TypeOK, DepthInv, Counts
  <1> USE DEF Base, Running
  <1>1. CASE Initialize
    <2>1. /\ stack[u] = << >> /\ inited' = TRUE
          /\ UNCHANGED <<threadEnabled, lead, stack, history>>
      BY <1>1 DEF Initialize
    <2>2. lead[u] = 0
      BY <1>0, <1>1 DEF Initialize, Inv, DepthInv, Balanced
    <2>3. Cardinality(Open(stack'[u])) = 0
      <3>1. Open(stack'[u]) = {}
        BY <2>1 DEF Open
      <3> QED  BY <3>1, FS_EmptySet
    <2> QED  BY <2>1, <2>2, <2>3 DEF Balanced
  <1>2. CASE FinalizeTrace
    BY <1>0, <1>2 DEF FinalizeTrace, Balanced
  <1>3. ASSUME NEW t \in Thread, Step(t) PROVE Balanced(u)'
    <2>p. UNCHANGED phase
      BY <1>3 DEF Step, Create, Push, Pop, UserStart, UserStop, SetStatus
    <2>1. CASE u # t
      <3>1. Untouched(u)
        BY <1>3, <2>1, StepOthers DEF Inv
      <3> QED  BY <1>0, <2>p, <3>1 DEF Untouched, Balanced
    <2>2. CASE Create(u)
      BY <1>0, <2>2 DEF Create, Balanced
    <2>3. CASE Push(u)
      <3>1. PICK c \in Calls :
                /\ c.forwarded <=> active /\ StatusOf(u) = "on"
                /\ stack'[u] = Append(stack[u], c)
                /\ lead'[u] = lead[u]
                              + (IF c.forwarded /\ c.kind = "trace" THEN 1 ELSE 0)
        BY <2>3, PushEffect DEF Inv
      <3>2. /\ stoppedIn'[u] = stoppedIn[u]
            /\ threadEnabled'[u] = (IF active THEN StatusOf(u) ELSE threadEnabled[u])
        BY <2>3, PushEffect DEF Inv
      <3>3. CASE ~(u \in Disciplined /\ active)
        BY <1>0, <2>p, <3>1, <3>3 DEF Inv, TypeOK, Balanced
      <3>4. CASE u \in Disciplined /\ active
        <4>1. /\ Cardinality(Open(stack[u])) \in Nat
              /\ Cardinality(Open(stack'[u])) = Cardinality(Open(stack[u]))
                   + (IF c.forwarded /\ c.kind = "trace" THEN 1 ELSE 0)
          BY <1>0, <3>1, OpenAppend
        <4>2. lead'[u] <= Cardinality(Open(stack'[u]))
          BY <1>0, <3>1, <3>4, <4>1 DEF Balanced
        <4>3. ASSUME threadEnabled'[u] = "off",
                     NEW i \in DOMAIN stack'[u], i > Base(u)'
              PROVE  ~stack'[u][i].forwarded
          <5>1. StatusOf(u) = "off" /\ ~c.forwarded
            BY <3>1, <3>2, <3>4, <4>3
          <5>2. CASE i = Len(stack[u]) + 1
            BY <1>0, <3>1, <5>1, <5>2
          <5>3. CASE i # Len(stack[u]) + 1
            <6>1. /\ i \in DOMAIN stack[u] /\ stack[u] # << >>
                  /\ stack'[u][i] = stack[u][i]
              BY <1>0, <3>1, <4>3, <5>3
            <6>2. threadEnabled[u] = "off"
              BY <1>0, <3>4, <5>1, <6>1 DEF StatusOf, Touched
            <6> QED  BY <1>0, <3>2, <3>4, <4>3, <6>1, <6>2 DEF Balanced
          <5> QED  BY <5>2, <5>3
        <4> QED  BY <1>0, <2>p, <3>1, <3>4, <4>2, <4>3 DEF Inv, TypeOK, Balanced
      <3> QED  BY <3>3, <3>4
    <2>4. CASE Pop(u)
      <3>1. /\ Front(stack[u]) \in Seq(Calls) /\ Len(stack[u]) \in Nat \ {0}
            /\ Len(Front(stack[u])) = Len(stack[u]) - 1
            /\ \A i \in 1 .. Len(stack[u]) - 1 : Front(stack[u])[i] = stack[u][i]
            /\ Last(stack[u]) = stack[u][Len(stack[u])] /\ Last(stack[u]) \in Calls
        BY <1>0, <2>4, PopEffect, FrontOf DEF Inv
      <3>2. /\ stack'[u] = Front(stack[u])
            /\ u \in Disciplined => stoppedIn[u] # Len(stack[u])
            /\ stoppedIn'[u] =
                 (IF stoppedIn[u] = Len(stack[u]) THEN Running ELSE stoppedIn[u])
        BY <2>4, PopEffect DEF Inv, MayReturn, Depth
      <3>3. /\ Cardinality(Open(stack'[u])) \in Nat
            /\ Cardinality(Open(stack[u])) = Cardinality(Open(stack'[u]))
                 + (IF Last(stack[u]).forwarded /\ Last(stack[u]).kind = "trace"
                    THEN 1 ELSE 0)
        BY <1>0, <2>4, <3>2, PopEffect, OpenFront DEF Inv
      <3>4. CASE ~active
        BY <1>0, <2>p, <2>4, <3>4, PopEffect DEF Inv, Balanced
      <3>5. CASE active /\ u \notin Disciplined
        BY <1>0, <2>p, <3>5 DEF Inv, DepthInv, TypeOK, Balanced
      <3>6. CASE active /\ u \in Disciplined /\ StatusOf(u) = "on"
        <4>1. /\ threadEnabled'[u] = "on"
              /\ lead'[u] = lead[u] - (IF Last(stack[u]).kind = "trace" THEN 1 ELSE 0)
          BY <2>4, <3>6, PopEffect DEF Inv
        <4>2. lead'[u] <= Cardinality(Open(stack'[u]))
          BY <1>0, <3>3, <3>6, <4>1 DEF Balanced
        <4> QED  BY <1>0, <2>p, <3>6, <4>1, <4>2 DEF Inv, TypeOK, Balanced
      <3>7. CASE active /\ u \in Disciplined /\ StatusOf(u) # "on"
        <4>1. lead'[u] = lead[u] /\ threadEnabled[u] = "off"
          BY <1>0, <2>4, <3>1, <3>7, PopEffect DEF Inv, StatusOf, Touched, Status
        <4>2. ~Last(stack[u]).forwarded
          BY <1>0, <3>1, <3>2, <3>7, <4>1 DEF Balanced
        <4>3. lead'[u] <= Cardinality(Open(stack'[u]))
          BY <1>0, <3>3, <3>7, <4>1, <4>2 DEF Balanced
        <4>4. \A i \in DOMAIN stack'[u] : i > Base(u)' => ~stack'[u][i].forwarded
          BY <1>0, <3>1, <3>2, <3>7, <4>1 DEF Balanced
        <4> QED  BY <1>0, <2>p, <3>7, <4>3, <4>4 DEF Inv, TypeOK, Balanced
      <3> QED  BY <1>0, <3>4, <3>5, <3>6, <3>7
    <2>5. CASE UserStart(u)
      <3>1. /\ threadEnabled'[u] = "on" /\ lead'[u] = lead[u]
            /\ stack'[u] = stack[u]
        BY <2>5 DEF UserStart, SetStatus, Inv, TypeOK
      <3> QED  BY <1>0, <2>p, <3>1 DEF Balanced
    <2>6. CASE UserStop(u)
      <3>1. /\ lead'[u] = lead[u] /\ stack'[u] = stack[u]
            /\ stoppedIn'[u] = (IF stoppedIn[u] = Running THEN Len(stack[u])
                                ELSE stoppedIn[u])
        BY <2>6 DEF UserStop, SetStatus, Inv, TypeOK, Depth
      <3>2. CASE stoppedIn[u] = Running
        <4>1. \A i \in DOMAIN stack'[u] : ~(i > Base(u)')
          BY <1>0, <2>6, <3>1, <3>2 DEF UserStop, SetStatus, Depth
        <4> QED  BY <1>0, <2>p, <3>1, <4>1 DEF Balanced
      <3>3. CASE stoppedIn[u] # Running
        BY <1>0, <2>p, <3>1, <3>3 DEF Balanced, StopHolds
      <3> QED  BY <3>2, <3>3
    <2> QED  BY <1>3, <2>1, <2>2, <2>3, <2>4, <2>5, <2>6 DEF Step
  <1>4. CASE UNCHANGED vars
    BY <1>0, <1>4 DEF vars, Balanced
  <1> QED  BY <1>1, <1>2, <1>3, <1>4 DEF Next

-----------------------------------------------------------------------------
(* Before anything has run, all counts are zero and no call is on a stack.     *)
LEMMA InitInv == Init => Inv
  <1> SUFFICES ASSUME Init PROVE Inv
    OBVIOUS
  <1>1. TypeOK
    <2>1. /\ InitEnabled \in Status /\ stack \in [Thread -> Seq(Calls)]
          /\ born \in [Thread -> Status \cup {"unborn", "own"}]
      BY ControlAssumption DEF Init, Status
    <2>2. /\ stoppedIn \in [Thread -> {Running} \cup 0 .. MaxDepth]
          /\ threadEnabled \in [Thread -> Status \cup {"unset"}]
      BY DEF Init
    <2>3. /\ count \in [Thread -> Int] /\ lead \in [Thread -> Int]
          /\ stops \in [Thread -> Nat]
          /\ ~inited /\ ~finied /\ ~active /\ enabled \in Status
      BY <2>1 DEF Init
    <2>4. inited \in BOOLEAN /\ finied \in BOOLEAN /\ active \in BOOLEAN
      BY DEF Init
    <2> QED  BY <2>1, <2>2, <2>3, <2>4 DEF TypeOK
  <1>2. DepthInv
    BY ControlAssumption DEF Init, DepthInv
  <1>3. ASSUME NEW t \in Thread PROVE Counts(t) /\ Balanced(t)
    <2>1. /\ stack[t] = << >> /\ stoppedIn[t] = Running /\ count[t] = 0 /\ lead[t] = 0
          /\ ~active
      BY DEF Init
    <2> QED  BY <2>1 DEF Counts, Touched, Counted, StopHolds, Balanced
  <1> QED  BY <1>1, <1>2, <1>3 DEF Inv

(* The counts are right in every state of every run.                           *)
LEMMA Invariant == Spec => []Inv
  <1>1. Inv /\ [Next]_vars => Inv'
    BY StepType, StepCounts, StepBalanced DEF Inv
  <1> QED  BY InitInv, <1>1, PTL DEF Spec

(* The types: tracing is active only when it has been initialized, and a       *)
(* thread has stopped in one of its functions.                                 *)
THEOREM TypeCorrect == Spec => []TypeOK
  <1>1. Inv => TypeOK
    BY DEF Inv
  <1> QED  BY Invariant, <1>1, PTL

(* The first stop of any thread, and each stop of one that starts the tracing  *)
(* where it has stopped it, lasts until then: the returns of the calls made    *)
(* meanwhile do not start it (dl.cpp, the count of the calls of a stopped      *)
(* thread).                                                                    *)
THEOREM FirstStopHolds == Spec => [](\A t \in Thread : StopHolds(t))
  <1>1. Inv => \A t \in Thread : StopHolds(t)
    BY DEF Inv, Counts
  <1> QED  BY Invariant, <1>1, PTL

(* So tracing that was stopped stays stopped where a thread that leaves the    *)
(* function it has stopped in without starting again does not stop twice.      *)
THEOREM StopsHold ==
    ASSUME MaxLooseStops <= 1
    PROVE  Spec => []StoppedStaysStopped
  <1>1. Inv => StoppedStaysStopped
    BY ControlAssumption DEF Inv, Counts, StopHolds, DepthInv, TypeOK,
                             StoppedStaysStopped
  <1> QED  BY Invariant, <1>1, PTL

(* No measurement of a thread that starts the tracing where it has stopped it  *)
(* is left open when its calls have returned, however deep they were, and      *)
(* whatever the other threads, the initialization and the finalization do.     *)
THEOREM AllEnded == Spec => []MeasurementsEnded
  <1>1. Inv => MeasurementsEnded
    <2> SUFFICES ASSUME Inv, active, NEW t \in Thread, t \in Disciplined,
                        stack[t] = << >>
                 PROVE  lead[t] <= 0
      BY ControlAssumption DEF MeasurementsEnded
    <2>1. Cardinality(Open(stack[t])) = 0
      <3>1. Open(stack[t]) = {}
        BY DEF Open
      <3> QED  BY <3>1, FS_EmptySet
    <2> QED  BY <2>1 DEF Inv, Balanced
  <1> QED  BY Invariant, <1>1, PTL
=============================================================================
