------------------------- MODULE ThreadState_proofs -------------------------
(* Proofs about ThreadState, for any number of threads, of scopes and of lines *)
(* of the log: the types, and that the state of a thread is that of its scopes.*)
EXTENDS ThreadState, SequenceTheorems, TLAPS

(* A wrapper and a routine are at the bottom of the scopes of their thread,    *)
(* and the innermost scope is the one that a thread is entering or leaving.    *)
Nested(t, scopes) ==
    \A i \in 1 .. Len(scopes) :
        scopes[i] \in {"wrapper", "routine"} => i = 1 /\ t # Main

Shape(t) ==
    /\ Nested(t, frames[t])
    /\ at[t] \in {"begin", "init", "call", "finish", "dtor", "exited"} => t # Main
    /\ at[t] \in {"begin", "call", "finish", "dtor"} => frames[t] = << >>
    /\ at[t] \in {"locking", "locked", "print", "unlock", "unlocking"}
          => InFrame(t, "log")
    /\ at[t] \in {"disable", "prepare"} => InFrame(t, "create")
    /\ at[t] = "insert" => /\ frames[t] # << >> /\ history[t] # << >>
                           /\ value[t] \in {"Enabled", "Internal"}

(* A thread of omnitrace is Disabled as soon as it is set up, and the main     *)
(* thread Completed from the finalization on.                                  *)
EndedStays(t) ==
    /\ t \in offset =>
          /\ at[t] \notin {"disable", "prepare"}
          /\ at[t] = "insert" => InFrame(t, "wrapper")
          /\ at[t] \notin {"begin", "insert", "init", "dtor", "exited"}
                => value[t] = "Disabled"
    /\ t = Main /\ finalized =>
          value[t] = "Completed" /\ at[t] \notin {"insert", "disable", "prepare"}

(* A thread of the program that is between its start and its end.              *)
Live(t) ==
    /\ t \notin offset /\ ~(t = Main /\ finalized)
    /\ at[t] \notin {"dtor", "exited"}

(* The state that the first n scopes stand for.                                *)
Stands(scopes, n) == IF n = 0 \/ scopes[n] = "routine" THEN "Enabled" ELSE "Internal"

(* A state v and a history may hide more than the scopes ask for, never less.  *)
Hides(v, entries, scopes) ==
    /\ v = "Enabled" => Stands(scopes, Len(scopes)) = "Enabled"
    /\ Len(scopes) <= Len(entries)
    /\ \A i \in 1 .. Len(scopes) :
          entries[i + Len(entries) - Len(scopes)] = "Enabled"
              => Stands(scopes, i - 1) = "Enabled"

Hidden(t) == Live(t) =>
    /\ value[t] \in {"Enabled", "Internal"} \/ at[t] = "prepare"
    /\ Hides(value[t], history[t], frames[t])

(* The history of a thread holds what its scopes stand for.                    *)
Records(entries, scopes) ==
    /\ Len(entries) = Len(scopes)
    /\ \A i \in 1 .. Len(scopes) : entries[i] = Stands(scopes, i - 1)

(* So they restore what they stand for while nothing has come between.         *)
Exact(t) == Live(t) /\ t \notin disturbed =>
    /\ at[t] # "prepare" => value[t] = Stands(frames[t], Len(frames[t]))
    /\ Records(history[t], frames[t])

Restoring(t) == EndedStays(t) /\ Hidden(t) /\ Exact(t)

Known == TypeOK /\ \A t \in Thread : Shape(t)
Inv == Known /\ \A t \in Thread : Restoring(t)

-----------------------------------------------------------------------------
(* The scopes without the innermost one.                                       *)
LEMMA FrontOf ==
    ASSUME NEW S, NEW s \in Seq(S), s # << >>
    PROVE  /\ Front(s) \in Seq(S) /\ Len(Front(s)) = Len(s) - 1 /\ Len(s) \in Nat \ {0}
           /\ \A i \in 1 .. Len(s) - 1 : Front(s)[i] = s[i]
           /\ Last(s) = s[Len(s)] /\ Last(s) \in S
  <1> DEFINE n == Len(s) - 1
             f == SubSeq(s, 1, n)
  <1>1. /\ Len(s) \in Nat \ {0} /\ n \in Nat /\ s[Len(s)] \in S
        /\ \A i \in 1 .. n : s[i] \in S
    OBVIOUS
  <1>2. /\ f \in Seq(S) /\ Len(f) = (IF 1 <= n THEN n - 1 + 1 ELSE 0)
        /\ \A i \in 1 .. n - 1 + 1 : f[i] = s[1 + i - 1]
    <2>1. 1 \in Int /\ n \in Int
      BY <1>1
    <2> HIDE DEF n
    <2> QED  BY <1>1, <2>1, SubSeqProperties
  <1>3. Front(s) = f
    BY DEF Front
  <1> HIDE DEF f
  <1>4. Len(f) = n /\ \A i \in 1 .. n : f[i] = s[i]
    <2> HIDE DEF n
    <2>1. n - 1 + 1 = n /\ (1 <= n \/ n = 0) /\ \A i \in 1 .. n : 1 + i - 1 = i
      BY <1>1
    <2> QED  BY <1>1, <1>2, <2>1
  <1> QED  BY <1>1, <1>2, <1>3, <1>4 DEF Last

(* The scopes with one more.                                                   *)
LEMMA AppendOf ==
    ASSUME NEW S, NEW s \in Seq(S), NEW c \in S
    PROVE  /\ Append(s, c) \in Seq(S) /\ Append(s, c) # << >>
           /\ Len(Append(s, c)) = Len(s) + 1 /\ Len(s) \in Nat
           /\ Append(s, c)[Len(s) + 1] = c
           /\ \A i \in 1 .. Len(s) : Append(s, c)[i] = s[i]
  OBVIOUS

(* A nested stack stays nested when a scope ends and when a kind is entered.   *)
LEMMA StayNested ==
    ASSUME NEW t, NEW s \in Seq(Kind), Nested(t, s)
    PROVE  /\ s # << >> => Nested(t, Front(s))
           /\ \A kind \in Kind :
                 (kind \in {"wrapper", "routine"} => s = << >> /\ t # Main)
                     => Nested(t, Append(s, kind))
  <1>1. CASE s # << >>
    BY <1>1, FrontOf DEF Nested
  <1>2. ASSUME NEW kind \in Kind,
               kind \in {"wrapper", "routine"} => s = << >> /\ t # Main
        PROVE  Nested(t, Append(s, kind))
    BY <1>2, AppendOf DEF Nested
  <1> QED  BY <1>1, <1>2

Step(t) ==
    \/ Insert(t) \/ Handler(t) \/ Enter(t) \/ Leave(t) \/ Disable(t) \/ Prepared(t)
    \/ BeginLine(t) \/ Protect(t) \/ PushLine(t) \/ LockLines(t) \/ Unprotect(t)
    \/ EndLine(t) \/ UnlockLines(t)
    \/ Begin(t) \/ InitInfo(t) \/ Call(t) \/ Return(t) \/ Finish(t)

(* The four places of a thread have their types.                               *)
Typed ==
    /\ value \in [Thread -> {"Enabled", "Internal", "Completed", "Disabled"}]
    /\ history \in [Thread -> Seq({"Enabled", "Internal"})]
    /\ frames \in [Thread -> Seq(Kind)]
    /\ at \in [Thread -> {"begin", "init", "run", "insert", "disable", "prepare",
                          "protect", "protected", "locking", "locked", "print", "unlock",
                          "unlocking", "reset", "call", "finish", "dtor", "exited"}]

(* What entering a scope changes.                                              *)
LEMMA PushEffect ==
    ASSUME Typed, NEW t \in Thread, NEW kind \in Kind, Push(t, kind)
    PROVE  /\ Typed'
           /\ frames'[t] = Append(frames[t], kind) /\ frames'[t] # << >>
           /\ Last(frames'[t]) = kind
           /\ Len(frames'[t]) = Len(frames[t]) + 1 /\ Len(frames[t]) \in Nat
           /\ \A i \in 1 .. Len(frames[t]) : frames'[t][i] = frames[t][i]
           /\ frames'[t][Len(frames[t]) + 1] = kind
           /\ Ended(t) => /\ value'[t] = value[t] /\ history'[t] = history[t]
                          /\ at'[t] = Entered(kind)
           /\ ~Ended(t) =>
                 /\ value'[t] = (IF kind = "routine" THEN "Enabled" ELSE "Internal")
                 /\ history'[t] = Append(history[t], value[t]) /\ history'[t] # << >>
                 /\ Len(history'[t]) = Len(history[t]) + 1 /\ Len(history[t]) \in Nat
                 /\ \A i \in 1 .. Len(history[t]) : history'[t][i] = history[t][i]
                 /\ history'[t][Len(history[t]) + 1] = value[t]
                 /\ at'[t] = "insert"
  <1> USE DEF Typed
  <1>1. frames' = [frames EXCEPT ![t] = Append(@, kind)]
    BY DEF Push
  <1>2. /\ frames' \in [Thread -> Seq(Kind)]
        /\ frames'[t] = Append(frames[t], kind) /\ frames'[t] # << >>
        /\ Len(frames'[t]) = Len(frames[t]) + 1 /\ Len(frames[t]) \in Nat
        /\ \A i \in 1 .. Len(frames[t]) : frames'[t][i] = frames[t][i]
        /\ frames'[t][Len(frames[t]) + 1] = kind
    <2>1. frames \in [Thread -> Seq(Kind)] /\ frames[t] \in Seq(Kind)
      OBVIOUS
    <2> HIDE DEF Typed
    <2>2. Append(frames[t], kind) \in Seq(Kind)
      BY <2>1, AppendOf
    <2>3. frames' \in [Thread -> Seq(Kind)] /\ frames'[t] = Append(frames[t], kind)
      BY <1>1, <2>1, <2>2
    <2> QED  BY <2>1, <2>3, AppendOf
  <1>3. Last(frames'[t]) = kind
    BY <1>2 DEF Last
  <1>4. CASE Ended(t)
    <2>1. UNCHANGED <<value, history>> /\ at' = [at EXCEPT ![t] = Entered(kind)]
      BY <1>4 DEF Push, Move
    <2>2. Entered(kind) \in {"disable", "locking", "init", "run"}
      BY DEF Entered, Kind
    <2> QED  BY <1>2, <1>3, <1>4, <2>1, <2>2
  <1>5. CASE ~Ended(t)
    <2>1. /\ value' = [value EXCEPT ![t] = IF kind = "routine" THEN "Enabled"
                                           ELSE "Internal"]
          /\ history' = [history EXCEPT ![t] = Append(history[t], value[t])]
          /\ at' = [at EXCEPT ![t] = "insert"]
      BY <1>5 DEF Push, Move, SetState, SetHistory
    <2>2. value[t] \in {"Enabled", "Internal"}
      BY <1>5 DEF Ended
    <2>3. /\ history' \in [Thread -> Seq({"Enabled", "Internal"})]
          /\ history'[t] = Append(history[t], value[t]) /\ history'[t] # << >>
          /\ Len(history'[t]) = Len(history[t]) + 1 /\ Len(history[t]) \in Nat
          /\ \A i \in 1 .. Len(history[t]) : history'[t][i] = history[t][i]
          /\ history'[t][Len(history[t]) + 1] = value[t]
      <3>1. history[t] \in Seq({"Enabled", "Internal"})
        OBVIOUS
      <3>2. /\ history' \in [Thread -> Seq({"Enabled", "Internal"})]
            /\ history'[t] = Append(history[t], value[t])
        BY <2>1, <2>2, <3>1, AppendOf
      <3>3. /\ Append(history[t], value[t]) # << >> /\ Len(history[t]) \in Nat
            /\ Len(Append(history[t], value[t])) = Len(history[t]) + 1
            /\ Append(history[t], value[t])[Len(history[t]) + 1] = value[t]
            /\ \A i \in 1 .. Len(history[t]) :
                  Append(history[t], value[t])[i] = history[t][i]
        <4> HIDE DEF Typed
        <4>1. \A s \in Seq({"Enabled", "Internal"}), c \in {"Enabled", "Internal"} :
                 /\ Append(s, c) # << >> /\ Len(s) \in Nat
                 /\ Len(Append(s, c)) = Len(s) + 1 /\ Append(s, c)[Len(s) + 1] = c
                 /\ \A i \in 1 .. Len(s) : Append(s, c)[i] = s[i]
          BY AppendOf
        <4> QED  BY <2>2, <3>1, <4>1, Zenon
      <3> QED  BY <3>2, <3>3
    <2>4. /\ value' \in [Thread -> {"Enabled", "Internal", "Completed", "Disabled"}]
          /\ value'[t] = (IF kind = "routine" THEN "Enabled" ELSE "Internal")
      BY <2>1
    <2> QED  BY <1>2, <1>3, <1>5, <2>1, <2>3, <2>4
  <1> QED  BY <1>4, <1>5

(* What leaving a scope changes.                                               *)
LEMMA PopEffect ==
    ASSUME Typed, NEW t \in Thread, frames[t] # << >>, Pop(t)
    PROVE  /\ Typed'
           /\ frames'[t] = Front(frames[t]) /\ at'[t] = Left(Last(frames[t]))
           /\ Len(frames'[t]) = Len(frames[t]) - 1 /\ Len(frames[t]) \in Nat \ {0}
           /\ \A i \in 1 .. Len(frames[t]) - 1 : frames'[t][i] = frames[t][i]
           /\ Last(frames[t]) = frames[t][Len(frames[t])]
           /\ Ended(t) \/ history[t] = << >> =>
                 value'[t] = value[t] /\ history'[t] = history[t]
           /\ ~Ended(t) /\ history[t] # << >> =>
                 /\ value'[t] = history[t][Len(history[t])]
                 /\ Len(history'[t]) = Len(history[t]) - 1
                 /\ Len(history[t]) \in Nat \ {0}
                 /\ \A i \in 1 .. Len(history[t]) - 1 : history'[t][i] = history[t][i]
  <1> USE DEF Typed
  <1>1. /\ frames' = [frames EXCEPT ![t] = Front(@)]
        /\ at' = [at EXCEPT ![t] = Left(Last(frames[t]))]
    BY DEF Pop, Close, Move
  <1>2. /\ frames' \in [Thread -> Seq(Kind)]
        /\ frames'[t] = Front(frames[t])
        /\ Len(frames'[t]) = Len(frames[t]) - 1 /\ Len(frames[t]) \in Nat \ {0}
        /\ \A i \in 1 .. Len(frames[t]) - 1 : frames'[t][i] = frames[t][i]
        /\ Last(frames[t]) = frames[t][Len(frames[t])]
    <2>1. frames[t] \in Seq(Kind)
      OBVIOUS
    <2>2. /\ Front(frames[t]) \in Seq(Kind) /\ Len(frames[t]) \in Nat \ {0}
          /\ Len(Front(frames[t])) = Len(frames[t]) - 1
          /\ \A i \in 1 .. Len(frames[t]) - 1 : Front(frames[t])[i] = frames[t][i]
          /\ Last(frames[t]) = frames[t][Len(frames[t])]
      BY <2>1, FrontOf
    <2>3. frames' \in [Thread -> Seq(Kind)] /\ frames'[t] = Front(frames[t])
      BY <1>1, <2>2
    <2> QED  BY <2>2, <2>3
  <1>3. Left(Last(frames[t])) \in {"call", "finish", "reset", "run"}
    BY DEF Left
  <1>4. CASE Ended(t) \/ history[t] = << >>
    <2>1. UNCHANGED <<value, history>>
      BY <1>4 DEF Pop
    <2> QED  BY <1>1, <1>2, <1>3, <1>4, <2>1
  <1>5. CASE ~Ended(t) /\ history[t] # << >>
    <2>1. /\ value' = [value EXCEPT ![t] = Last(history[t])]
          /\ history' = [history EXCEPT ![t] = Front(history[t])]
      BY <1>5 DEF Pop, SetState, SetHistory
    <2>2. /\ Front(history[t]) \in Seq({"Enabled", "Internal"})
          /\ Last(history[t]) \in {"Enabled", "Internal"}
          /\ Last(history[t]) = history[t][Len(history[t])]
          /\ Len(Front(history[t])) = Len(history[t]) - 1
          /\ Len(history[t]) \in Nat \ {0}
          /\ \A i \in 1 .. Len(history[t]) - 1 : Front(history[t])[i] = history[t][i]
      <3>1. history[t] \in Seq({"Enabled", "Internal"})
        OBVIOUS
      <3> QED  BY <1>5, <3>1, FrontOf
    <2> QED  BY <1>1, <1>2, <1>3, <1>5, <2>1, <2>2
  <1> QED  BY <1>4, <1>5

(* A step that changes nothing of a thread.                                    *)
Untouched(u) ==
    /\ value'[u] = value[u] /\ history'[u] = history[u]
    /\ frames'[u] = frames[u] /\ at'[u] = at[u]
    /\ (u \in offset' <=> u \in offset) /\ (u \in disturbed' <=> u \in disturbed)

(* A thread changes nothing of another one.                                    *)
LEMMA StepOthers ==
    ASSUME Typed, NEW t \in Thread, Step(t), NEW u \in Thread, u # t
    PROVE  Untouched(u)
  <1> USE DEF Typed, Untouched, Move, SetState, SetHistory
  <1>1. CASE \/ Insert(t) \/ Handler(t) \/ Disable(t) \/ Prepared(t)
             \/ InitInfo(t) \/ Finish(t)
    BY <1>1 DEF Insert, Handler, Disable, Prepared, InitInfo, Finish
  <1>2. CASE BeginLine(t) \/ Protect(t) \/ LockLines(t) \/ Unprotect(t) \/ EndLine(t)
    BY <1>2 DEF BeginLine, Protect, LockLines, Unprotect, EndLine
  <1>3. CASE Enter(t)
    BY <1>3 DEF Enter, Push
  <1>4. CASE PushLine(t) \/ Begin(t) \/ Call(t)
    BY <1>4 DEF PushLine, Begin, Call, Push
  <1>5. CASE Leave(t) \/ Return(t)
    BY <1>5 DEF Leave, Return, Pop, Close
  <1>6. CASE UnlockLines(t)
    BY <1>6 DEF UnlockLines, Pop, Close
  <1> QED  BY <1>1, <1>2, <1>3, <1>4, <1>5, <1>6 DEF Step

-----------------------------------------------------------------------------
(* The types, and where the scopes of a thread are.                            *)
LEMMA StepKnown == Known /\ [Next]_vars => Known'
  <1> SUFFICES ASSUME Known, [Next]_vars PROVE Known'
    OBVIOUS
  <1> DEFINE Others == /\ {protectLock, protectUnlock, finalized} \subseteq BOOLEAN
                       /\ owner \in Thread \cup {NoThread} /\ lines \in 0 .. MaxLines
                       /\ disturbed \subseteq Thread /\ offset \subseteq Thread \ {Main}
  <1>0. Typed /\ Others /\ \A t \in Thread : Shape(t)
    BY DEF Known, TypeOK, Typed
  <1>1. ASSUME NEW t \in Thread, Step(t) PROVE Typed' /\ Shape(t)' /\ Others'
    <2> USE <1>0
    <2>0. frames[t] \in Seq(Kind) /\ Nested(t, frames[t])
      BY DEF Typed, Shape
    <2>1. CASE Insert(t)
      <3>1. at[t] = "insert" /\ at' = [at EXCEPT ![t] = Entered(Last(frames[t]))]
            /\ UNCHANGED <<value, history, frames>>
        BY <2>1 DEF Insert, Move
      <3>2. /\ frames[t] # << >> /\ Last(frames[t]) = frames[t][Len(frames[t])]
            /\ Last(frames[t]) \in Kind /\ Len(frames[t]) \in Nat \ {0}
        BY <3>1, FrontOf DEF Typed, Shape
      <3>3. Entered(Last(frames[t])) \in {"disable", "locking", "init", "run"}
            /\ (Entered(Last(frames[t])) = "disable" => Last(frames[t]) = "create")
            /\ (Entered(Last(frames[t])) = "locking" => Last(frames[t]) = "log")
            /\ (Entered(Last(frames[t])) = "init" => Last(frames[t]) = "wrapper")
        BY <3>2 DEF Entered, Kind
      <3>4. Typed' /\ Others'
        BY <2>1, <3>1, <3>3 DEF Insert, lockVars, Typed
      <3>5. Shape(t)'
        <4>1. /\ at'[t] = Entered(Last(frames[t]))
              /\ frames'[t] = frames[t] /\ history'[t] = history[t]
          BY <3>1 DEF Typed
        <4>2. Nested(t, frames[t]) /\ (Last(frames[t]) = "wrapper" => t # Main)
          BY <3>2 DEF Shape, Nested
        <4> QED  BY <3>2, <3>3, <4>1, <4>2 DEF Shape, InFrame
      <3> QED  BY <3>4, <3>5
    <2>2. CASE Handler(t)
      <3>1. at[t] = "insert" /\ UNCHANGED <<value, frames, at>>
            /\ history' = [history EXCEPT ![t] = Append(Front(history[t]), value[t])]
        BY <2>2 DEF Handler, SetHistory
      <3>2. /\ history[t] # << >> /\ value[t] \in {"Enabled", "Internal"}
            /\ Front(history[t]) \in Seq({"Enabled", "Internal"})
        BY <3>1, FrontOf DEF Typed, Shape
      <3>3. /\ history' \in [Thread -> Seq({"Enabled", "Internal"})]
            /\ history'[t] # << >>
        <4>1. /\ Append(Front(history[t]), value[t]) \in Seq({"Enabled", "Internal"})
              /\ Append(Front(history[t]), value[t]) # << >>
          <5> HIDE DEF Typed
          <5> QED  BY <3>2, AppendOf
        <4> QED  BY <3>1, <4>1 DEF Typed
      <3>4. Typed' /\ Others'
        BY <2>2, <3>1, <3>3 DEF Handler, lockVars, Typed
      <3>5. Shape(t)'
        BY <3>1, <3>3 DEF Shape, InFrame, Typed
      <3> QED  BY <3>4, <3>5
    <2>3. CASE Disable(t) \/ Prepared(t)
      <3>1. Typed' /\ Others'
        BY <2>3 DEF Disable, Prepared, Move, SetState, lockVars, Typed
      <3>2. Shape(t)'
        BY <2>3 DEF Disable, Prepared, Move, SetState, Shape, InFrame, Typed
      <3> QED  BY <3>1, <3>2
    <2>4. CASE InitInfo(t) \/ Finish(t)
      <3>1. Typed' /\ Others'
        BY <2>4 DEF InitInfo, Finish, Move, SetState, lockVars, Typed
      <3>2. Shape(t)'
        BY <2>4 DEF InitInfo, Finish, Move, SetState, Shape, InFrame, Typed
      <3> QED  BY <3>1, <3>2
    <2>5. CASE BeginLine(t) \/ Protect(t) \/ LockLines(t) \/ Unprotect(t)
      <3>1. Typed' /\ Others'
        <4>1. lines' \in 0 .. MaxLines
          BY <2>5, BoundAssumption DEF BeginLine, Protect, LockLines, Unprotect
        <4> QED  BY <2>5, <4>1 DEF BeginLine, Protect, LockLines, Unprotect, Move, Typed
      <3>2. Shape(t)'
        BY <2>5 DEF BeginLine, Protect, LockLines, Unprotect, Move, Shape, InFrame, Typed
      <3> QED  BY <3>1, <3>2
    <2>6. CASE EndLine(t)
      <3>1. CASE ~protectUnlock
        <4>1. Typed' /\ Others'
          BY <2>6, <3>1 DEF EndLine, Move, Typed
        <4>2. Shape(t)'
          BY <2>6, <3>1 DEF EndLine, Move, Shape, InFrame, Typed
        <4> QED  BY <4>1, <4>2
      <3>2. CASE protectUnlock
        <4>1. /\ frames' = [frames EXCEPT ![t] = Front(frames[t])]
              /\ at' = [at EXCEPT ![t] = "run"] /\ UNCHANGED <<value, history>>
              /\ frames[t] # << >>
          BY <2>6, <3>2 DEF EndLine, Move, Shape, InFrame
        <4>2. Front(frames[t]) \in Seq(Kind) /\ Nested(t, Front(frames[t]))
          <5>1. frames[t] \in Seq(Kind) /\ Nested(t, frames[t])
            BY DEF Typed, Shape
          <5> QED  BY <4>1, <5>1, FrontOf, StayNested
        <4>3. Typed'
          BY <4>1, <4>2 DEF Typed
        <4>4. Others'
          BY <2>6, <3>2 DEF EndLine
        <4>5. Shape(t)'
          BY <4>1, <4>2 DEF Shape, InFrame, Typed
        <4> QED  BY <4>3, <4>4, <4>5
      <3> QED  BY <3>1, <3>2
    <2>7. ASSUME NEW kind \in Kind, Push(t, kind),
                 kind \in {"wrapper", "routine"} => frames[t] = << >> /\ t # Main
          PROVE  Typed' /\ Shape(t)'
      <3>1. frames'[t] = Append(frames[t], kind)
        BY <2>7, PushEffect
      <3>2. Nested(t, frames'[t])
        BY <2>0, <2>7, <3>1, StayNested
      <3>3. CASE Ended(t)
        <4>1. /\ at'[t] = Entered(kind) /\ frames'[t] # << >> /\ Last(frames'[t]) = kind
              /\ Typed'
          BY <2>7, <3>3, PushEffect
        <4>2. /\ Entered(kind) \in {"disable", "locking", "init", "run"}
              /\ Entered(kind) = "disable" => kind = "create"
              /\ Entered(kind) = "locking" => kind = "log"
              /\ Entered(kind) = "init" => kind = "wrapper"
          BY DEF Entered, Kind
        <4> HIDE DEF Others
        <4> QED  BY <2>7, <3>2, <4>1, <4>2 DEF Shape, InFrame
      <3>4. CASE ~Ended(t)
        <4>1. /\ at'[t] = "insert" /\ frames'[t] # << >> /\ history'[t] # << >>
              /\ value'[t] \in {"Enabled", "Internal"} /\ Typed'
          BY <2>7, <3>4, PushEffect
        <4> QED  BY <3>2, <4>1 DEF Shape
      <3> QED  BY <3>3, <3>4
    <2>8. ASSUME frames[t] # << >>, Pop(t),
                 Last(frames[t]) \in {"wrapper", "routine"} => at[t] \in {"run"}
          PROVE  Typed' /\ Shape(t)'
      <3>1. Last(frames[t]) = frames[t][Len(frames[t])] /\ Len(frames[t]) \in Nat \ {0}
        BY <2>0, <2>8, FrontOf
      <3>2. /\ Typed' /\ frames'[t] = Front(frames[t])
            /\ Len(frames'[t]) = Len(frames[t]) - 1 /\ at'[t] = Left(Last(frames[t]))
        BY <2>8, PopEffect
      <3>3. Nested(t, frames'[t])
        BY <2>0, <2>8, <3>2, StayNested
      <3>4. /\ at'[t] \in {"call", "finish", "reset", "run"}
            /\ at'[t] \in {"call", "finish"} =>
                  Last(frames[t]) \in {"wrapper", "routine"}
        BY <3>2 DEF Left
      <3>5. at'[t] \in {"call", "finish"} => frames'[t] = << >> /\ t # Main
        <4>1. frames'[t] \in Seq(Kind)
          BY <3>2 DEF Typed
        <4> QED  BY <2>0, <3>1, <3>2, <3>4, <4>1 DEF Nested
      <3> QED  BY <3>2, <3>3, <3>4, <3>5 DEF Shape
    <2>9. CASE Enter(t) \/ PushLine(t) \/ Begin(t) \/ Call(t)
      <3>1. Typed' /\ Shape(t)'
        <4>1. \E kind \in Kind :
                 Push(t, kind) /\ (kind \in {"wrapper", "routine"} =>
                                       at[t] \in {"begin", "call"})
          BY <2>9 DEF Enter, PushLine, Begin, Call, Kind
        <4> QED  BY <2>7, <4>1 DEF Shape
      <3>2. UNCHANGED <<finalized, disturbed, protectUnlock, owner>>
        BY <2>9 DEF Enter, PushLine, Begin, Call, lockVars
      <3>3. offset' \subseteq Thread \ {Main}
        <4>1. offset' = offset \/ (at[t] = "begin" /\ offset' = offset \cup {t})
          BY <2>9 DEF Enter, PushLine, Begin, Call
        <4> QED  BY <4>1 DEF Shape
      <3>4. protectLock' \in BOOLEAN /\ lines' = lines
        BY <2>9 DEF Enter, PushLine, Begin, Call, lockVars
      <3> QED  BY <3>1, <3>2, <3>3, <3>4
    <2>10. CASE Leave(t) \/ Return(t)
      <3>1. Others'
        BY <2>10 DEF Leave, Return, lockVars
      <3>2. CASE Pop(t)
        BY <2>8, <2>10, <3>1, <3>2 DEF Leave, Return, InFrame
      <3>3. CASE ~Pop(t)
        <4>1. /\ at[t] = "run" /\ at' = [at EXCEPT ![t] = "exited"]
              /\ UNCHANGED <<value, history, frames>> /\ InFrame(t, "routine")
          BY <2>10, <3>3 DEF Leave, Return, Move
        <4>2. t # Main
          <5>1. frames[t] # << >> /\ Last(frames[t]) = "routine"
            BY <4>1 DEF InFrame
          <5>2. /\ Last(frames[t]) = frames[t][Len(frames[t])]
                /\ Len(frames[t]) \in Nat \ {0}
            BY <2>0, <5>1, FrontOf
          <5> QED  BY <2>0, <5>1, <5>2 DEF Nested
        <4> QED  BY <3>1, <4>1, <4>2 DEF Typed, Shape, InFrame
      <3> QED  BY <3>2, <3>3
    <2>11. CASE UnlockLines(t)
      <3>1. Others'
        BY <2>11 DEF UnlockLines
      <3>2. CASE at[t] = "unlocking"
        <4>1. Pop(t) /\ InFrame(t, "log")
          BY <2>11, <3>2 DEF UnlockLines, Shape
        <4> QED  BY <2>8, <3>1, <4>1 DEF InFrame
      <3>3. CASE at[t] # "unlocking"
        <4>1. /\ \/ at[t] = "unlock" /\ at' = [at EXCEPT ![t] = "unlocking"]
                 \/ at' = [at EXCEPT ![t] = "run"]
              /\ UNCHANGED <<value, history, frames>>
          BY <2>11, <3>3 DEF UnlockLines, Move
        <4> QED  BY <3>1, <4>1 DEF Typed, Shape, InFrame
      <3> QED  BY <3>2, <3>3
    <2> QED  BY <1>1, <2>1, <2>2, <2>3, <2>4, <2>5, <2>6, <2>9, <2>10, <2>11 DEF Step
  <1>2. CASE Finalize
    <2>1. Typed' /\ Others' /\ UNCHANGED <<history, frames, at>>
          /\ \A t \in Thread : t = Main \/ value'[t] = value[t]
      BY <1>0, <1>2 DEF Finalize, SetState, lockVars, Typed
    <2>2. \A t \in Thread : Shape(t)'
      BY <1>0, <1>2, <2>1 DEF Finalize, Shape, InFrame
    <2> QED  BY <2>1, <2>2 DEF Known, TypeOK, Typed
  <1>3. CASE UNCHANGED vars
    BY <1>3 DEF Known, TypeOK, Shape, InFrame, vars, lockVars
  <1>4. CASE \E t \in Thread : Step(t)
    <2>1. PICK t \in Thread : Step(t)
      BY <1>4
    <2>2. Typed' /\ Shape(t)' /\ Others'
      BY <1>1, <2>1
    <2>3. ASSUME NEW u \in Thread, u # t PROVE Shape(u)'
      BY <1>0, <2>1, <2>3, StepOthers DEF Untouched, Shape, InFrame
    <2> QED  BY <2>2, <2>3 DEF Known, TypeOK, Typed
  <1> QED  BY <1>2, <1>3, <1>4 DEF Next, Step

-----------------------------------------------------------------------------
(* A scope that is entered, or left, hides what it should, and restores it.    *)
LEMMA PushScope ==
    ASSUME NEW S, NEW h \in Seq(S), NEW v \in S, NEW f \in Seq(Kind), NEW kind \in Kind
    PROVE  /\ Hides(v, h, f) =>
                  Hides(IF kind = "routine" THEN "Enabled" ELSE "Internal",
                        Append(h, v), Append(f, kind))
           /\ v = Stands(f, Len(f)) /\ Records(h, f) =>
                  Records(Append(h, v), Append(f, kind))
           /\ Stands(Append(f, kind), Len(Append(f, kind)))
                 = IF kind = "routine" THEN "Enabled" ELSE "Internal"
  <1> DEFINE w == IF kind = "routine" THEN "Enabled" ELSE "Internal"
             g == Append(f, kind)
             k == Append(h, v)
  <1>1. /\ Len(g) = Len(f) + 1 /\ Len(f) \in Nat /\ g[Len(f) + 1] = kind
        /\ \A i \in 1 .. Len(f) : g[i] = f[i]
        /\ Len(k) = Len(h) + 1 /\ Len(h) \in Nat /\ k[Len(h) + 1] = v
        /\ \A i \in 1 .. Len(h) : k[i] = h[i]
    BY AppendOf
  <1> HIDE DEF g, k
  <1>2. w = Stands(g, Len(g)) /\ \A i \in 0 .. Len(f) : Stands(g, i) = Stands(f, i)
    BY <1>1 DEF Stands
  <1>3. ASSUME Hides(v, h, f) PROVE Hides(w, k, g)
    <2>1. ASSUME NEW i \in 1 .. Len(g), k[i + Len(k) - Len(g)] = "Enabled"
          PROVE  Stands(g, i - 1) = "Enabled"
      <3>1. CASE i = Len(g)
        BY <1>1, <1>2, <1>3, <2>1, <3>1 DEF Hides
      <3>2. CASE i # Len(g)
        <4>1. i \in 1 .. Len(f) /\ i + Len(k) - Len(g) = i + Len(h) - Len(f)
              /\ i + Len(h) - Len(f) \in 1 .. Len(h)
          BY <1>1, <1>3, <3>2 DEF Hides
        <4> QED  BY <1>1, <1>2, <1>3, <2>1, <4>1, SMTT(30) DEF Hides
      <3> QED  BY <3>1, <3>2
    <2> QED  BY <1>1, <1>2, <1>3, <2>1 DEF Hides
  <1>4. ASSUME v = Stands(f, Len(f)), Records(h, f) PROVE Records(k, g)
    BY <1>1, <1>2, <1>4 DEF Records
  <1> QED  BY <1>2, <1>3, <1>4 DEF g, k

(* What a scope that ends gives back: the value below, and the scopes below.   *)
LEMMA PopScope ==
    ASSUME NEW S, NEW h \in Seq(S), NEW v, NEW f \in Seq(Kind), f # << >>
    PROVE  /\ Hides(v, h, f) => h # << >> /\ Hides(h[Len(h)], Front(h), Front(f))
           /\ Records(h, f) => /\ h # << >> /\ Records(Front(h), Front(f))
                               /\ h[Len(h)] = Stands(Front(f), Len(Front(f)))
  <1> DEFINE g == Front(f)
             k == Front(h)
  <1>1. /\ Len(g) = Len(f) - 1 /\ Len(f) \in Nat \ {0} /\ Len(h) \in Nat
        /\ \A i \in 1 .. Len(f) - 1 : g[i] = f[i]
    BY FrontOf, SMTT(30)
  <1>2. h # << >> => /\ Len(k) = Len(h) - 1 /\ Len(h) \in Nat \ {0}
                     /\ \A i \in 1 .. Len(h) - 1 : k[i] = h[i]
    BY FrontOf
  <1>3. \A i \in 0 .. Len(g) : Stands(g, i) = Stands(f, i)
    BY <1>1 DEF Stands
  <1> HIDE DEF g, k
  <1>4. ASSUME Hides(v, h, f) PROVE h # << >> /\ Hides(h[Len(h)], k, g)
    <2>1. h # << >> /\ Len(f) <= Len(h)
      BY <1>1, <1>4 DEF Hides
    <2>2. h[Len(h)] = "Enabled" => Stands(g, Len(g)) = "Enabled"
      <3>1. Len(f) + Len(h) - Len(f) = Len(h) /\ Len(f) \in 1 .. Len(f)
        BY <1>1
      <3>2. h[Len(h)] = "Enabled" => Stands(f, Len(f) - 1) = "Enabled"
        BY <1>4, <3>1 DEF Hides
      <3> QED  BY <1>1, <1>3, <3>2
    <2>3. ASSUME NEW i \in 1 .. Len(g), k[i + Len(k) - Len(g)] = "Enabled"
          PROVE  Stands(g, i - 1) = "Enabled"
      <3>1. Len(k) = Len(h) - 1 /\ \A j \in 1 .. Len(h) - 1 : k[j] = h[j]
        BY <1>2, <2>1
      <3>2. /\ i \in 1 .. Len(f) /\ i + Len(k) - Len(g) = i + Len(h) - Len(f)
            /\ i + Len(h) - Len(f) \in 1 .. Len(h) - 1
        BY <1>1, <2>1, <3>1
      <3>3. h[i + Len(h) - Len(f)] = "Enabled"
        BY <2>3, <3>1, <3>2
      <3>4. Stands(f, i - 1) = "Enabled"
        BY <1>4, <3>2, <3>3 DEF Hides
      <3> QED  BY <1>1, <1>3, <3>4
    <2> QED  BY <1>1, <1>2, <2>1, <2>2, <2>3 DEF Hides
  <1>5. ASSUME Records(h, f) PROVE /\ h # << >> /\ Records(k, g)
                                   /\ h[Len(h)] = Stands(g, Len(g))
    <2>1. h # << >>
      BY <1>1, <1>5 DEF Records
    <2> QED  BY <1>1, <1>2, <1>3, <1>5, <2>1 DEF Records
  <1> QED  BY <1>4, <1>5 DEF g, k

(* What a handler leaves behind, and a line whose end restores nothing.        *)
LEMMA DisturbScope ==
    ASSUME NEW S, NEW h \in Seq(S), NEW v \in S, NEW f \in Seq(Kind), f # << >>,
           NEW t, Nested(t, f), Hides(v, h, f)
    PROVE  /\ h # << >> => Hides(v, Append(Front(h), v), f)
           /\ f[Len(f)] = "log" => Hides(v, h, Front(f))
  <1>1. Len(f) \in Nat \ {0} /\ Len(h) \in Nat /\ Len(f) <= Len(h)
    BY DEF Hides
  <1>2. ASSUME h # << >> PROVE Hides(v, Append(Front(h), v), f)
    <2> DEFINE k == Append(Front(h), v)
    <2>1. /\ Len(k) = Len(h) /\ k[Len(h)] = v
          /\ \A i \in 1 .. Len(h) - 1 : k[i] = h[i]
      <3>1. /\ Front(h) \in Seq(S) /\ Len(Front(h)) = Len(h) - 1
            /\ \A i \in 1 .. Len(h) - 1 : Front(h)[i] = h[i]
        BY <1>2, FrontOf
      <3> DEFINE g == Front(h)
      <3> HIDE DEF g
      <3>2. /\ g \in Seq(S) /\ Len(g) = Len(h) - 1
            /\ \A i \in 1 .. Len(h) - 1 : g[i] = h[i]
        BY <3>1 DEF g
      <3>3. /\ Len(Append(g, v)) = Len(g) + 1 /\ Append(g, v)[Len(g) + 1] = v
            /\ \A i \in 1 .. Len(g) : Append(g, v)[i] = g[i]
        BY <3>2, AppendOf
      <3> QED  BY <1>1, <3>2, <3>3 DEF g
    <2> HIDE DEF k
    <2>2. ASSUME NEW i \in 1 .. Len(f), k[i + Len(k) - Len(f)] = "Enabled"
          PROVE  Stands(f, i - 1) = "Enabled"
      <3>1. CASE i = Len(f)
        <4>1. v = "Enabled"
          BY <1>1, <2>1, <2>2, <3>1
        <4>2. f[Len(f)] = "routine"
          BY <1>1, <4>1 DEF Hides, Stands
        <4>3. i = 1
          BY <1>1, <3>1, <4>2 DEF Nested
        <4> QED  BY <4>3 DEF Stands
      <3>2. CASE i # Len(f)
        <4>1. i + Len(k) - Len(f) \in 1 .. Len(h) - 1
              /\ i + Len(k) - Len(f) = i + Len(h) - Len(f)
          BY <1>1, <2>1, <3>2
        <4> QED  BY <2>1, <2>2, <4>1 DEF Hides
      <3> QED  BY <3>1, <3>2
    <2>3. Hides(v, k, f)
      BY <1>1, <2>1, <2>2 DEF Hides
    <2> QED  BY <2>3 DEF k
  <1>3. ASSUME f[Len(f)] = "log" PROVE Hides(v, h, Front(f))
    <2> DEFINE g == Front(f)
    <2>1. /\ Len(g) = Len(f) - 1 /\ \A i \in 1 .. Len(f) - 1 : g[i] = f[i]
      BY FrontOf
    <2> HIDE DEF g
    <2>2. v # "Enabled"
      BY <1>1, <1>3 DEF Hides, Stands
    <2>3. ASSUME NEW i \in 1 .. Len(g), h[i + Len(h) - Len(g)] = "Enabled"
          PROVE  Stands(g, i - 1) = "Enabled"
      <3>1. i + 1 \in 1 .. Len(f) /\ (i + 1) + Len(h) - Len(f) = i + Len(h) - Len(g)
            /\ (i + 1) - 1 = i
        BY <1>1, <2>1
      <3>2. Stands(f, i) = "Enabled"
        BY <2>3, <3>1 DEF Hides
      <3>3. i = 1
        BY <1>1, <2>1, <3>2 DEF Stands, Nested
      <3> QED  BY <3>3 DEF Stands
    <2>4. Hides(v, h, g)
      BY <1>1, <2>1, <2>2, <2>3 DEF Hides
    <2> QED  BY <2>4 DEF g
  <1> QED  BY <1>2, <1>3

(* What entering any scope keeps.                                              *)
LEMMA PushRestoring ==
    ASSUME Typed, NEW t \in Thread, Shape(t), Restoring(t), NEW kind \in Kind,
           Push(t, kind), UNCHANGED <<finalized, disturbed>>,
           kind = "create" => t \notin offset /\ ~finalized,
           \/ UNCHANGED offset /\ at[t] \in {"run", "protected", "call"}
           \/ /\ at[t] = "begin" /\ kind = "wrapper"
              /\ offset' \in {offset, offset \cup {t}}
    PROVE  Restoring(t)'
  <1>1. /\ Entered(kind) \in {"disable", "locking", "init", "run"}
        /\ Entered(kind) = "disable" => kind = "create"
        /\ kind = "wrapper" => Entered(kind) = "init"
    BY DEF Entered, Kind
  <1>2. /\ frames'[t] = Append(frames[t], kind) /\ frames'[t] # << >>
        /\ Last(frames'[t]) = kind
        /\ Ended(t) => value'[t] = value[t] /\ at'[t] = Entered(kind)
        /\ ~Ended(t) =>
              /\ value'[t] = (IF kind = "routine" THEN "Enabled" ELSE "Internal")
              /\ history'[t] = Append(history[t], value[t])
              /\ at'[t] = "insert"
    BY PushEffect
  <1>3. EndedStays(t)'
    <2>1. CASE t \in offset'
      <3>1. CASE at[t] = "begin"
        <4>1. at'[t] \in {"init", "insert"} /\ kind = "wrapper"
          BY <1>1, <1>2, <3>1
        <4>2. t # Main
          BY <3>1 DEF Shape
        <4> QED  BY <1>2, <4>1, <4>2 DEF EndedStays, InFrame
      <3>2. CASE at[t] # "begin"
        <4>1. /\ t \in offset /\ value[t] = "Disabled"
              /\ at[t] \in {"run", "protected", "call"}
          BY <2>1, <3>2 DEF Restoring, EndedStays
        <4>2. value'[t] = "Disabled" /\ at'[t] = Entered(kind) /\ kind # "create"
          BY <1>2, <4>1 DEF Ended
        <4>3. t = Main /\ finalized => value[t] = "Completed"
          BY DEF Restoring, EndedStays
        <4> QED  BY <1>1, <4>1, <4>2, <4>3 DEF EndedStays
      <3> QED  BY <3>1, <3>2
    <2>2. CASE t \notin offset'
      <3>1. ASSUME t = Main, finalized
            PROVE  /\ value'[t] = "Completed"
                   /\ at'[t] \notin {"insert", "disable", "prepare"}
        <4>1. value[t] = "Completed"
          BY <3>1 DEF Restoring, EndedStays
        <4> QED  BY <1>1, <1>2, <3>1, <4>1 DEF Ended
      <3> QED  BY <2>2, <3>1 DEF EndedStays
    <2> QED  BY <2>1, <2>2
  <1>4. SUFFICES ASSUME Live(t)' PROVE Hidden(t)' /\ Exact(t)'
    BY <1>3 DEF Restoring, Hidden, Exact
  <1>5. /\ Live(t) /\ value[t] \in {"Enabled", "Internal"}
        /\ Hides(value[t], history[t], frames[t])
    BY <1>4 DEF Live, Restoring, Hidden
  <1>6. frames[t] \in Seq(Kind) /\ history[t] \in Seq({"Enabled", "Internal"})
    BY DEF Typed
  <1>7. /\ at'[t] = "insert"
        /\ value'[t] = (IF kind = "routine" THEN "Enabled" ELSE "Internal")
        /\ history'[t] = Append(history[t], value[t])
    BY <1>2, <1>5 DEF Ended
  <1>8. Hidden(t)'
    BY <1>2, <1>5, <1>6, <1>7, PushScope, SMTT(30) DEF Hidden
  <1>9. Exact(t)'
    <2>1. SUFFICES ASSUME t \notin disturbed PROVE Exact(t)'
      BY DEF Exact
    <2>2. value[t] = Stands(frames[t], Len(frames[t])) /\ Records(history[t], frames[t])
      BY <1>5, <2>1 DEF Restoring, Exact
    <2>3. /\ Records(Append(history[t], value[t]), Append(frames[t], kind))
          /\ Stands(Append(frames[t], kind), Len(Append(frames[t], kind)))
                = IF kind = "routine" THEN "Enabled" ELSE "Internal"
      <3> HIDE DEF Stands
      <3>1. value[t] \in {"Enabled", "Internal"}
        BY <1>5
      <3> QED  BY <1>6, <2>2, <3>1, PushScope
    <2> QED  BY <1>2, <1>7, <2>3 DEF Exact
  <1> QED  BY <1>8, <1>9

(* What leaving any scope keeps.                                               *)
LEMMA PopRestoring ==
    ASSUME Typed, NEW t \in Thread, Shape(t), Restoring(t), frames[t] # << >>, Pop(t),
           UNCHANGED <<finalized, disturbed, offset>>, at[t] \in {"run", "unlocking"}
    PROVE  Restoring(t)'
  <1>1. /\ frames'[t] = Front(frames[t]) /\ at'[t] = Left(Last(frames[t]))
        /\ Ended(t) \/ history[t] = << >> =>
              value'[t] = value[t] /\ history'[t] = history[t]
        /\ ~Ended(t) /\ history[t] # << >> => value'[t] = history[t][Len(history[t])]
    BY PopEffect
  <1>2. at'[t] \in {"call", "finish", "reset", "run"}
    BY <1>1 DEF Left
  <1>3. EndedStays(t)'
    <2>1. t \in offset => value[t] = "Disabled"
      BY DEF Restoring, EndedStays
    <2>2. t = Main /\ finalized => value[t] = "Completed"
      BY DEF Restoring, EndedStays
    <2> QED  BY <1>1, <1>2, <2>1, <2>2 DEF EndedStays, Ended
  <1>4. SUFFICES ASSUME Live(t)' PROVE Hidden(t)' /\ Exact(t)'
    BY <1>3 DEF Restoring, Hidden, Exact
  <1>5. /\ Live(t) /\ value[t] \in {"Enabled", "Internal"}
        /\ Hides(value[t], history[t], frames[t])
    BY <1>4 DEF Live, Restoring, Hidden
  <1>6. frames[t] \in Seq(Kind) /\ history[t] \in Seq({"Enabled", "Internal"})
    BY DEF Typed
  <1>7. /\ history[t] # << >>
        /\ Hides(history[t][Len(history[t])], Front(history[t]), Front(frames[t]))
    BY <1>5, <1>6, PopScope
  <1>8. /\ value'[t] = history[t][Len(history[t])] /\ history'[t] = Front(history[t])
        /\ value'[t] \in {"Enabled", "Internal"}
    <2>1. history' = [history EXCEPT ![t] = Front(history[t])]
      BY <1>5, <1>7 DEF Pop, Ended, SetHistory
    <2>2. history[t][Len(history[t])] \in {"Enabled", "Internal"}
      BY <1>6, <1>7, FrontOf
    <2> QED  BY <1>1, <1>5, <1>7, <2>1, <2>2 DEF Ended, Typed
  <1>9. Hidden(t)'
    BY <1>1, <1>7, <1>8 DEF Hidden
  <1>10. Exact(t)'
    <2>1. SUFFICES ASSUME t \notin disturbed PROVE Exact(t)'
      BY DEF Exact
    <2>2. Records(history[t], frames[t])
      BY <1>5, <2>1 DEF Restoring, Exact
    <2> QED  BY <1>1, <1>6, <1>8, <2>2, PopScope DEF Exact
  <1> QED  BY <1>9, <1>10

(* Every step keeps what the scopes of its thread restore.                     *)
LEMMA StepRestoring ==
    ASSUME ~OffsetCreates, Inv, NEW t \in Thread, Step(t)
    PROVE  Restoring(t)'
  <1>0. Typed /\ Shape(t) /\ Restoring(t)
    BY DEF Inv, Known, TypeOK, Typed
  <1>1. frames[t] \in Seq(Kind) /\ history[t] \in Seq({"Enabled", "Internal"})
        /\ Nested(t, frames[t])
    BY <1>0 DEF Typed, Shape
  <1> DEFINE Quiet == UNCHANGED <<history, frames, offset, finalized, disturbed>>
  <1>2. CASE Insert(t)
    <2>1. /\ Quiet /\ value' = value
          /\ at[t] = "insert" /\ at'[t] = Entered(Last(frames[t]))
      BY <1>0, <1>2 DEF Insert, Move, Typed
    <2>2. /\ Entered(Last(frames[t])) \in {"disable", "locking", "init", "run"}
          /\ Last(frames[t]) = "wrapper" => Entered(Last(frames[t])) = "init"
      BY DEF Entered
    <2>3. EndedStays(t)'
      BY <1>0, <2>1, <2>2 DEF Restoring, EndedStays, InFrame
    <2>4. Hidden(t)' /\ Exact(t)'
      BY <1>0, <2>1, <2>2 DEF Restoring, Hidden, Exact, Live
    <2> QED  BY <2>3, <2>4 DEF Restoring
  <1>3. CASE Handler(t)
    <2>1. /\ UNCHANGED <<value, frames, at, offset, finalized>> /\ t \in disturbed'
          /\ history'[t] = Append(Front(history[t]), value[t]) /\ at[t] = "insert"
      BY <1>0, <1>3 DEF Handler, SetHistory, Typed
    <2>2. /\ frames[t] # << >> /\ history[t] # << >>
          /\ value[t] \in {"Enabled", "Internal"}
      BY <1>0, <2>1 DEF Shape
    <2>3. EndedStays(t)'
      BY <1>0, <2>1 DEF Restoring, EndedStays, InFrame
    <2>4. Hidden(t)'
      <3>1. SUFFICES ASSUME Live(t) PROVE Hides(value[t], history'[t], frames[t])
        BY <2>1, <2>2 DEF Hidden, Live
      <3>2. Hides(value[t], history[t], frames[t])
        BY <1>0, <3>1 DEF Restoring, Hidden
      <3> QED  BY <1>1, <2>1, <2>2, <3>2, DisturbScope
    <2> QED  BY <2>1, <2>3, <2>4 DEF Restoring, Exact
  <1>4. CASE Disable(t) \/ Prepared(t)
    <2>1. /\ Quiet /\ at[t] \in {"disable", "prepare"}
          /\ at[t] = "disable" => value'[t] = "Disabled" /\ at'[t] = "prepare"
          /\ at[t] = "prepare" => value'[t] = "Internal" /\ at'[t] = "run"
      BY <1>0, <1>4 DEF Disable, Prepared, Move, SetState, Typed
    <2>2. /\ Len(frames[t]) \in Nat \ {0} /\ Last(frames[t]) = "create"
          /\ Last(frames[t]) = frames[t][Len(frames[t])]
      <3>1. frames[t] # << >> /\ Last(frames[t]) = "create"
        BY <1>0, <2>1 DEF Shape, InFrame
      <3> QED  BY <1>1, <3>1, FrontOf
    <2>3. Stands(frames[t], Len(frames[t])) = "Internal"
      BY <2>2 DEF Stands
    <2>4. t \notin offset /\ ~(t = Main /\ finalized)
      BY <1>0, <2>1 DEF Restoring, EndedStays
    <2>5. EndedStays(t)'
      BY <2>1, <2>4 DEF EndedStays
    <2>6. Hides(value[t], history[t], frames[t])
      BY <1>0, <2>1, <2>4 DEF Restoring, Hidden, Live
    <2>7. Hidden(t)'
      BY <2>1, <2>6 DEF Hidden, Hides
    <2>8. Exact(t)'
      BY <1>0, <2>1, <2>3, <2>4 DEF Restoring, Exact, Live
    <2> QED  BY <2>5, <2>7, <2>8 DEF Restoring
  <1>5. CASE \/ BeginLine(t) \/ Protect(t) \/ LockLines(t) \/ Unprotect(t)
             \/ EndLine(t) /\ ~protectUnlock
    <2>1. /\ Quiet /\ value' = value
          /\ at[t] \in {"run", "protect", "locking", "locked", "print"}
          /\ at'[t] \in {"protect", "protected", "locked", "print", "unlock"}
      BY <1>0, <1>5 DEF BeginLine, Protect, LockLines, Unprotect, EndLine, Move, Typed
    <2>2. EndedStays(t)' /\ Hidden(t)' /\ Exact(t)'
      BY <1>0, <2>1 DEF Restoring, EndedStays, Hidden, Exact, Live
    <2> QED  BY <2>2 DEF Restoring
  <1>6. CASE EndLine(t) /\ protectUnlock
    <2>1. /\ UNCHANGED <<value, history, offset, finalized>> /\ t \in disturbed'
          /\ frames'[t] = Front(frames[t]) /\ at[t] = "print" /\ at'[t] = "run"
      BY <1>0, <1>6 DEF EndLine, Move, Typed
    <2>2. frames[t] # << >> /\ frames[t][Len(frames[t])] = "log"
      BY <1>0, <1>1, <2>1, FrontOf DEF Shape, InFrame
    <2>3. EndedStays(t)'
      BY <1>0, <2>1 DEF Restoring, EndedStays
    <2>4. Hidden(t)'
      <3>1. SUFFICES ASSUME Live(t)
                     PROVE  /\ value[t] \in {"Enabled", "Internal"}
                            /\ Hides(value[t], history[t], Front(frames[t]))
        BY <2>1 DEF Hidden, Live
      <3>2. /\ value[t] \in {"Enabled", "Internal"}
            /\ Hides(value[t], history[t], frames[t])
        BY <1>0, <2>1, <3>1 DEF Restoring, Hidden
      <3> QED  BY <1>1, <2>2, <3>2, DisturbScope
    <2> QED  BY <2>1, <2>3, <2>4 DEF Restoring, Exact
  <1>7. CASE InitInfo(t) \/ Finish(t)
    <2>1. /\ Quiet /\ at[t] \in {"init", "finish", "dtor"}
          /\ at[t] = "init" => /\ at'[t] = "run"
                               /\ t \in offset => value'[t] = "Disabled"
                               /\ t \notin offset => value'[t] = value[t]
          /\ at[t] # "init" => at'[t] \in {"dtor", "exited"}
      BY <1>0, <1>7 DEF InitInfo, Finish, Move, SetState, Typed
    <2>2. t # Main
      BY <1>0, <2>1 DEF Shape
    <2>3. EndedStays(t)'
      BY <2>1, <2>2 DEF EndedStays
    <2>4. Hidden(t)' /\ Exact(t)'
      BY <1>0, <2>1 DEF Restoring, Hidden, Exact, Live
    <2> QED  BY <2>3, <2>4 DEF Restoring
  <1>8. CASE Enter(t)
    <2>1. /\ \/ Push(t, "scope") \/ (t \notin offset /\ ~finalized /\ Push(t, "create"))
          /\ UNCHANGED <<offset, finalized, disturbed>> /\ at[t] = "run"
      BY <1>8 DEF Enter
    <2> QED  BY <1>0, <2>1, PushRestoring DEF Kind
  <1>9. CASE PushLine(t) \/ Call(t)
    <2>1. /\ Push(t, "log") \/ Push(t, "routine")
          /\ UNCHANGED <<offset, finalized, disturbed>> /\ at[t] \in {"protected", "call"}
      BY <1>9 DEF PushLine, Call
    <2> QED  BY <1>0, <2>1, PushRestoring DEF Kind
  <1>10. CASE Begin(t)
    BY <1>0, <1>10, PushRestoring DEF Begin, Kind
  <1>11. CASE Leave(t) \/ Return(t)
    <2>1. /\ UNCHANGED <<offset, finalized, disturbed>>
          /\ at[t] = "run" /\ frames[t] # << >>
      BY <1>11 DEF Leave, Return, InFrame
    <2>2. CASE Pop(t)
      BY <1>0, <2>1, <2>2, PopRestoring
    <2>3. CASE ~Pop(t)
      <3>1. /\ Return(t) /\ finalized /\ at'[t] = "exited" /\ InFrame(t, "routine")
        BY <1>0, <1>11, <2>3 DEF Leave, Return, Move, Typed
      <3>2. t # Main
        <4>1. frames[t][Len(frames[t])] = "routine" /\ Len(frames[t]) \in Nat \ {0}
          BY <1>1, <2>1, <3>1, FrontOf DEF InFrame
        <4> QED  BY <1>1, <4>1 DEF Nested
      <3> QED  BY <2>1, <3>1, <3>2 DEF Restoring, EndedStays, Hidden, Exact, Live
    <2> QED  BY <2>2, <2>3
  <1>12. CASE UnlockLines(t)
    <2>1. UNCHANGED <<offset, finalized, disturbed>>
      BY <1>12 DEF UnlockLines
    <2>2. CASE at[t] = "unlocking"
      <3>1. Pop(t) /\ frames[t] # << >>
        BY <1>0, <1>12, <2>2 DEF UnlockLines, Shape, InFrame
      <3> QED  BY <1>0, <2>1, <2>2, <3>1, PopRestoring
    <2>3. CASE at[t] # "unlocking"
      <3>1. /\ UNCHANGED <<value, history, frames>> /\ at[t] \in {"unlock", "reset"}
            /\ at'[t] \in {"unlocking", "run"}
        BY <1>0, <1>12, <2>3 DEF UnlockLines, Move, Typed
      <3>2. EndedStays(t)' /\ Hidden(t)' /\ Exact(t)'
        BY <1>0, <2>1, <3>1 DEF Restoring, EndedStays, Hidden, Exact, Live
      <3> QED  BY <3>2 DEF Restoring
    <2> QED  BY <2>2, <2>3
  <1> QED  BY <1>2, <1>3, <1>4, <1>5, <1>6, <1>7, <1>8, <1>9, <1>10, <1>11, <1>12
           DEF Step

-----------------------------------------------------------------------------
(* At the start the program is in no scope.                                    *)
LEMMA InitInv == Init => Inv
  <1> SUFFICES ASSUME Init PROVE Inv
    OBVIOUS
  <1>1. TypeOK
    <2>1. /\ history \in [Thread -> Seq({"Enabled", "Internal"})]
          /\ frames \in [Thread -> Seq(Kind)]
      BY DEF Init
    <2>2. /\ value \in [Thread -> {"Enabled", "Internal", "Completed", "Disabled"}]
          /\ disturbed \subseteq Thread /\ offset \subseteq Thread \ {Main}
      BY DEF Init
    <2>3. /\ owner \in Thread \cup {NoThread} /\ lines \in 0 .. MaxLines
          /\ {protectLock, protectUnlock, finalized} \subseteq BOOLEAN
      <3>1. /\ owner = NoThread /\ lines = 0
            /\ protectLock = FALSE /\ protectUnlock = FALSE /\ finalized = FALSE
        BY DEF Init
      <3>2. {protectLock, protectUnlock, finalized} \subseteq BOOLEAN
        BY <3>1
      <3>3. 0 \in 0 .. MaxLines
        BY BoundAssumption
      <3> QED  BY <3>1, <3>2, <3>3
    <2>4. at \in [Thread -> {"run", "begin"}]
      BY DEF Init
    <2> QED  BY <2>1, <2>2, <2>3, <2>4 DEF TypeOK
  <1>2. ASSUME NEW t \in Thread PROVE Shape(t) /\ Restoring(t)
    <2>1. /\ value[t] = "Enabled" /\ history[t] = << >> /\ frames[t] = << >>
          /\ at[t] = (IF t = Main THEN "run" ELSE "begin") /\ offset = {} /\ ~finalized
      BY DEF Init
    <2>2. Shape(t)
      BY <2>1 DEF Shape, Nested, InFrame
    <2>3. EndedStays(t) /\ Hidden(t) /\ Exact(t)
      BY <2>1 DEF EndedStays, Hidden, Exact, Hides, Records, Stands
    <2> QED  BY <2>2, <2>3 DEF Restoring
  <1> QED  BY <1>1, <1>2 DEF Inv, Known

(* The types, of any threads: an entry of the history is Enabled or Internal,  *)
(* also that of a thread of omnitrace.                                         *)
THEOREM TypeCorrect == Spec => []TypeOK
  <1>1. Init => Known
    BY InitInv DEF Inv
  <1>2. Known => TypeOK
    BY DEF Known
  <1> QED  BY <1>1, <1>2, StepKnown, PTL DEF Spec

(* The scopes are restored in every state of every run.                        *)
LEMMA Invariant == ASSUME ~OffsetCreates PROVE Spec => []Inv
  <1>1. Inv /\ [Next]_vars => Inv'
    <2> SUFFICES ASSUME Inv, [Next]_vars PROVE Inv'
      OBVIOUS
    <2>0. Known'
      BY StepKnown DEF Inv
    <2>1. CASE \E t \in Thread : Step(t)
      <3>1. PICK t \in Thread : Step(t)
        BY <2>1
      <3>2. ASSUME NEW u \in Thread PROVE Restoring(u)'
        <4>1. CASE u = t
          BY <3>1, <4>1, StepRestoring
        <4>2. CASE u # t
          <5>1. Untouched(u) /\ finalized' = finalized /\ Restoring(u)
            <6>1. Typed /\ Restoring(u)
              BY DEF Inv, Known, TypeOK, Typed
            <6>2. finalized' = finalized
              BY <3>1 DEF Step, Insert, Handler, Enter, Leave, Disable, Prepared,
                          BeginLine, Protect, PushLine, LockLines, Unprotect, EndLine,
                          UnlockLines, Begin, InitInfo, Call, Return, Finish
            <6> QED  BY <3>1, <4>2, <6>1, <6>2, StepOthers
          <5> QED  BY <5>1
                   DEF Untouched, Restoring, EndedStays, Hidden, Exact, Live, InFrame
        <4> QED  BY <4>1, <4>2
      <3> QED  BY <2>0, <3>2 DEF Inv
    <2>2. CASE Finalize
      <3>1. ASSUME NEW u \in Thread PROVE Restoring(u)'
        <4>1. /\ UNCHANGED <<history, frames, at, offset, disturbed>> /\ finalized'
              /\ u # Main => value'[u] = value[u]
              /\ u = Main => value'[u] = "Completed" /\ at[u] = "run" /\ u \notin offset
              /\ Restoring(u)
          BY <2>2 DEF Finalize, SetState, Inv, Known, TypeOK
        <4> QED  BY <4>1 DEF Restoring, EndedStays, Hidden, Exact, Live, InFrame
      <3> QED  BY <2>0, <3>1 DEF Inv
    <2>3. CASE UNCHANGED vars
      <3>1. ASSUME NEW u \in Thread PROVE Restoring(u)'
        BY <2>3 DEF vars, Inv, Restoring, EndedStays, Hidden, Exact, Live, InFrame
      <3> QED  BY <2>0, <3>1 DEF Inv
    <2> QED  BY <2>1, <2>2, <2>3 DEF Next, Step
  <1> QED  BY InitInv, <1>1, PTL DEF Spec

(* Omnitrace's own work is never taken for the program's, whatever handlers    *)
(* run and lines end at the same time, in a program whose threads of omnitrace *)
(* create none: what is lost is always lost on the side of Internal.           *)
THEOREM WorkHidden ==
    ASSUME ~OffsetCreates
    PROVE  Spec => []InternalWorkHidden
  <1>1. Inv => InternalWorkHidden
    <2> SUFFICES ASSUME Inv, NEW t \in Thread, at[t] = "run", frames[t] # << >>,
                        Last(frames[t]) # "routine"
                 PROVE  value[t] # "Enabled"
      BY DEF InternalWorkHidden
    <2>1. frames[t] \in Seq(Kind) /\ Restoring(t)
      BY DEF Inv, Known, TypeOK
    <2>2. Last(frames[t]) = frames[t][Len(frames[t])] /\ Len(frames[t]) \in Nat \ {0}
      BY <2>1, FrontOf
    <2>3. CASE Live(t)
      BY <2>1, <2>2, <2>3 DEF Restoring, Hidden, Hides, Stands
    <2>4. CASE ~Live(t)
      BY <2>1, <2>4 DEF Restoring, EndedStays, Live
    <2> QED  BY <2>3, <2>4
  <1> QED  BY Invariant, <1>1, PTL

(* And what a scope restores is the state from before it, but for those two    *)
(* races.                                                                      *)
THEOREM Restored ==
    ASSUME ~OffsetCreates
    PROVE  Spec => []ScopesRestore
  <1>1. Inv => ScopesRestore
    <2> SUFFICES ASSUME Inv, NEW t \in Thread \ disturbed, at[t] = "run"
                 PROVE  value[t] = Expected(t)
      BY DEF ScopesRestore
    <2>1. frames[t] \in Seq(Kind) /\ Restoring(t)
      BY DEF Inv, Known, TypeOK
    <2>2. Stands(frames[t], Len(frames[t])) =
            (IF frames[t] = << >> \/ Last(frames[t]) = "routine" THEN "Enabled"
             ELSE "Internal")
      <3>1. CASE frames[t] = << >>
        BY <3>1 DEF Stands
      <3>2. CASE frames[t] # << >>
        BY <2>1, <3>2, FrontOf DEF Stands
      <3> QED  BY <3>1, <3>2
    <2>3. CASE Live(t)
      BY <2>1, <2>2, <2>3 DEF Restoring, Exact, Live, Expected
    <2>4. CASE ~Live(t)
      <3>1. t \in offset => value[t] = "Disabled"
        BY <2>1 DEF Restoring, EndedStays
      <3>2. t = Main /\ finalized => value[t] = "Completed" /\ t \notin offset
        BY <2>1 DEF Restoring, EndedStays, Inv, Known, TypeOK
      <3> QED  BY <2>4, <3>1, <3>2 DEF Live, Expected
    <2> QED  BY <2>3, <2>4
  <1> QED  BY Invariant, <1>1, PTL
=============================================================================
