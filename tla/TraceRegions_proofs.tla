------------------------- MODULE TraceRegions_proofs -------------------------
(* Proofs about TraceWindow, and about the two modules that are composed with  *)
(* it: for any settings, threads, names and depths of the calls, what the      *)
(* windows promise and the regions in them; and the handlers of fork(), which  *)
(* switch the same categories.                                                 *)
EXTENDS TraceRegions, SequenceTheorems, WellFoundedInduction, TLAPS

(* Where the main thread and the window thread are.                            *)
WindowPlaces ==
    /\ state = "Init" <=> main = "setup"
    /\ state = "Active" <=> main = "run"
    /\ at = "setup" => spec = 1 /\ cycle = 0 /\ Specs # << >>
    /\ at \in {"init", "wait", "start", "collect", "stop", "disable"} => spec <= Len(Specs)

(* Until the finalization the category is what the window thread has made it.  *)
Scheduled ==
    state # "Finalized" =>
        /\ at = "wait" /\ Delayed(Current) => ~enabled
        /\ at = "collect" => enabled
        /\ at \in {"next", "init"} /\ (spec > 1 \/ cycle > 0) => ~enabled
        /\ at = "done" /\ Specs # << >> => ~enabled

WindowInv == WindowTypeOK /\ WindowPlaces /\ Scheduled

(* A category that goes off once is off when the schedule has been executed.   *)
OffAtEnd ==
    GoesOffOnce /\ state # "Finalized" /\ ~enabled =>
        at \in {"next", "done"} /\ spec > Len(Specs)

(* The calls of t whose event, and whose bundle, should exist.                 *)
Top(t) ==
    IF pc[t] \in {"pushTimemory", "pushPerfetto", "popTimemory"}
    THEN Len(stack[t]) - 1 ELSE Len(stack[t])
BundleTop(t) == IF pc[t] = "pushTimemory" THEN Len(stack[t]) - 1 ELSE Len(stack[t])

Places(t) ==
    /\ pc[t] # "user" => stack[t] # << >>
    /\ state = "Init" =>
          /\ pc[t] = "user" /\ events[t] = << >> /\ bundles[t] = << >>
          /\ tracing[t] = 0 /\ profile[t] = 0
          /\ t \notin early => stack[t] = << >>

(* While the category is on, the events are those of the innermost calls.      *)
EventsOn(t) ==
    GoesOffOnce /\ state # "Finalized" /\ enabled =>
        /\ Len(events[t]) <= Top(t)
        /\ \A i \in 1 .. Len(events[t]) : events[t][i] = Top(t) - Len(events[t]) + i

(* ... and the bundles too, which have their names.                            *)
Stacked(b, s, n, top) ==
    /\ n <= top
    /\ \A i \in 1 .. n : b[i].depth = top - n + i /\ b[i].name = s[b[i].depth]

BundlesOn(t) ==
    GoesOffOnce /\ state # "Finalized" /\ enabled =>
        Stacked(bundles[t], stack[t], Len(bundles[t]), BundleTop(t))

(* A thread that has called none too early can count on its counts ...         *)
Counted(t) ==
    GoesOffOnce /\ state # "Finalized" /\ t \notin early =>
        /\ tracing[t] = Len(events[t]) /\ profile[t] >= Len(bundles[t])
        /\ enabled => Len(events[t]) = Top(t)

(* ... so that nothing of a call that has returned remains.                    *)
Below(e, n, top) == \A i \in 1 .. n : e[i] <= top - (n - i)

EventsOff(t) ==
    GoesOffOnce /\ state # "Finalized" /\ t \notin early =>
        Below(events[t], Len(events[t]), Top(t))

Nested(b, s, n, top) ==
    /\ \A i \in 1 .. n : b[i].depth \in 1 .. top /\ b[i].name = s[b[i].depth]
    /\ \A i, j \in 1 .. n : i < j => b[i].depth < b[j].depth

BundlesOff(t) ==
    GoesOffOnce /\ state # "Finalized" /\ t \notin early =>
        Nested(bundles[t], stack[t], Len(bundles[t]), BundleTop(t))

-----------------------------------------------------------------------------
(* The windows                                                                 *)

(* The specs are a sequence; that of one window is its first and last.         *)
LEMMA SpecsLength ==
    ASSUME settings \in Settings
    PROVE  /\ Len(Specs) \in Nat /\ (Specs = << >> <=> Len(Specs) = 0)
           /\ GoesOffOnce => /\ Len(Specs) <= 1
                             /\ Specs # << >> => Specs[1].delay = 0 /\ Specs[1].repeat = 1
  <1> DEFINE n == Len(settings.periods)
             lines == [i \in DOMAIN settings.periods |-> Period(settings.periods[i])]
             first ==
                 [delay |-> settings.delay, duration |-> settings.duration, repeat |-> 1]
             firsts == IF settings.delay > 0 \/ settings.duration > 0
                       THEN <<first>> ELSE << >>
             S == {Period(settings.periods[i]) : i \in 1 .. n} \cup {first}
  <1>1. n \in Nat /\ DOMAIN settings.periods = 1 .. n
    BY WindowAssumption
  <1>2. lines \in Seq(S) /\ Len(lines) = n
    BY <1>1
  <1>3. /\ firsts \in Seq(S) /\ Len(firsts) <= 1 /\ Len(firsts) \in Nat
        /\ firsts # << >> => firsts[1] = first
    <2> HIDE DEF first
    <2>1. first \in S
      OBVIOUS
    <2> HIDE DEF S
    <2>2. <<first>> \in Seq(S) /\ Len(<<first>>) = 1 /\ <<first>>[1] = first
      BY <2>1
    <2>3. << >> \in Seq(S) /\ Len(<< >>) = 0
      OBVIOUS
    <2> QED  BY <2>2, <2>3
  <1>4. Specs = firsts \o lines
    BY DEF Specs
  <1> HIDE DEF lines, firsts, S
  <1>5. Specs \in Seq(S)
    BY <1>2, <1>3, <1>4
  <1>6. ASSUME GoesOffOnce PROVE Specs = firsts /\ first.delay = 0
    <2>1. n = 0 /\ first.delay = 0
      BY <1>6 DEF GoesOffOnce
    <2>2. lines = << >>
      BY <1>2, <2>1
    <2> QED  BY <1>3, <1>4, <2>1, <2>2
  <1> QED  BY <1>3, <1>5, <1>6

(* What the window thread and the main thread do keeps the schedule.           *)
LEMMA StepWindow == WindowInv /\ [WindowNext]_windowVars => WindowInv'
  <1> SUFFICES ASSUME WindowInv, [WindowNext]_windowVars PROVE WindowInv'
    OBVIOUS
  <1> DEFINE n == Len(Specs)
  <1>0. settings' = settings
    BY DEF windowVars, WindowNext, Window, Main, FirstDisable, NextSpec, Begin, Wait, Start,
           Collect, StopCheck, StopDisable, Activate, Finalize, EnableCategories,
           DisableCategories
  <1>1. Specs' = Specs
    BY <1>0 DEF Specs, Period
  <1>2. n \in Nat /\ (Specs = << >> <=> n = 0)
    BY SpecsLength DEF WindowInv, WindowTypeOK
  <1> USE <1>0, <1>1, <1>2 DEF WindowInv, WindowTypeOK, WindowPlaces, Scheduled, Current,
                               Delayed, Break, GoOnTo
  <1>3. CASE FirstDisable
    BY <1>3 DEF FirstDisable, Stage
  <1>4. CASE NextSpec
    BY <1>4 DEF NextSpec
  <1>5. CASE Begin
    <2>1. WindowTypeOK'
      BY <1>5 DEF Begin
    <2>2. WindowPlaces'
      BY <1>5 DEF Begin
    <2>3. Scheduled'
      BY <1>5 DEF Begin
    <2> QED  BY <2>1, <2>2, <2>3
  <1>6. CASE Wait
    BY <1>6 DEF Wait
  <1>7. CASE Start
    BY <1>7 DEF Start
  <1>8. CASE Collect
    BY <1>8 DEF Collect
  <1>9. CASE StopCheck
    BY <1>9 DEF StopCheck
  <1>10. CASE StopDisable
    <2>1. at = "disable" /\ enabled' = FALSE /\ state' = state /\ main' = main
      BY <1>10 DEF StopDisable
    <2>2. spec \in 1 .. n
      BY <2>1
    <2>3. /\ at' \in {"init", "next"} /\ cycle' \in Nat
          /\ spec' = spec \/ (at' = "next" /\ spec' = spec + 1)
      <3>1. \/ at' = "next" /\ spec' = spec + 1 /\ cycle' = 0
            \/ at' = "init" /\ spec' = spec /\ cycle' = cycle
            \/ at' = "init" /\ spec' = spec /\ cycle' = cycle + 1
        BY <1>10 DEF StopDisable, Repeat
      <3> QED  BY <3>1
    <2>4. spec' \in 1 .. n + 1
      BY <2>2, <2>3
    <2> QED  BY <2>1, <2>2, <2>3, <2>4
  <1>11. CASE Main
    <2>1. UNCHANGED <<at, spec, cycle>>
      BY <1>11 DEF Main, Activate, Finalize, EnableCategories, DisableCategories
    <2>2. WindowTypeOK' /\ WindowPlaces'
      BY <1>11, <2>1 DEF Main, Activate, Finalize, EnableCategories, DisableCategories
    <2>3. state' = "Finalized" \/ (state # "Finalized" /\ enabled' = enabled)
      BY <1>11 DEF Main, Activate, Finalize, EnableCategories, DisableCategories
    <2>4. Scheduled'
      BY <2>1, <2>3
    <2> QED  BY <2>2, <2>4
  <1>12. CASE UNCHANGED windowVars
    BY <1>12 DEF windowVars
  <1> QED  BY <1>3, <1>4, <1>5, <1>6, <1>7, <1>8, <1>9, <1>10, <1>11, <1>12
           DEF WindowNext, Window

(* A category that has gone off does not go on again before the finalization.  *)
LEMMA StepOff ==
    ASSUME WindowInv, OffAtEnd, WindowNext
    PROVE  /\ OffAtEnd' /\ (GoesOffOnce' <=> GoesOffOnce)
           /\ state = "Finalized" => state' = "Finalized"
           /\ state' = "Init" => state = "Init"
           /\ GoesOffOnce /\ state' # "Finalized" /\ enabled' => enabled
  <1> DEFINE n == Len(Specs)
  <1>0. settings' = settings
    BY DEF WindowNext, Window, Main, FirstDisable, NextSpec, Begin, Wait, Start,
           Collect, StopCheck, StopDisable, Activate, Finalize, EnableCategories,
           DisableCategories
  <1>1. Specs' = Specs /\ (GoesOffOnce' <=> GoesOffOnce)
    BY <1>0 DEF Specs, Period, GoesOffOnce
  <1>2. n \in Nat /\ (Specs = << >> <=> n = 0)
        /\ (GoesOffOnce => n <= 1 /\ (n = 1 => Specs[1].delay = 0 /\ Specs[1].repeat = 1))
    BY SpecsLength DEF WindowInv, WindowTypeOK
  <1>3. /\ state = "Finalized" => state' = "Finalized"
        /\ state' = "Init" => state = "Init"
    BY DEF WindowInv, WindowPlaces, WindowNext, Window, Main, FirstDisable, NextSpec, Begin,
           Wait, Start, Collect, StopCheck, StopDisable, Activate, Finalize,
           EnableCategories, DisableCategories
  <1>4. SUFFICES ASSUME GoesOffOnce, state' # "Finalized"
                 PROVE  /\ ~enabled' => at' \in {"next", "done"} /\ spec' > n
                        /\ enabled' => enabled
    BY <1>1, <1>3 DEF OffAtEnd
  <1>5. state # "Finalized" /\ spec \in 1 .. n + 1 /\ cycle \in Nat
    BY <1>3, <1>4 DEF WindowInv, WindowTypeOK
  <1>6. ~enabled => at \in {"next", "done"} /\ spec > n
    BY <1>4, <1>5 DEF OffAtEnd
  <1>7. at \in {"init", "wait", "start", "collect", "stop", "disable"} =>
            spec = 1 /\ n = 1 /\ Current.delay = 0 /\ Current.repeat = 1
    <2>1. SUFFICES ASSUME at \in {"init", "wait", "start", "collect", "stop", "disable"}
                   PROVE  spec = 1 /\ n = 1 /\ Current.delay = 0 /\ Current.repeat = 1
      OBVIOUS
    <2>2. spec <= n
      BY <2>1 DEF WindowInv, WindowPlaces
    <2>3. n <= 1 /\ n \in Nat
      BY <1>2, <1>4
    <2>4. spec = 1 /\ n = 1
      <3> HIDE DEF n
      <3> QED  BY <1>5, <2>2, <2>3
    <2> QED  BY <1>2, <1>4, <2>4 DEF Current
  <1>8. at = "setup" => spec = 1 /\ Specs[1].delay = 0
    BY <1>2, <1>4, <1>5 DEF WindowInv, WindowPlaces
  <1>9. CASE Main
    <2>0. state \in {"Init", "Active"} /\ main \in {"setup", "run"}
      BY <1>5 DEF WindowInv, WindowTypeOK, WindowPlaces
    <2>1. UNCHANGED <<at, spec, enabled>>
      BY <1>4, <1>9, <2>0 DEF Main, Activate, Finalize, EnableCategories,
                              DisableCategories
    <2> QED  BY <1>6, <2>1
  <1>10. CASE FirstDisable
    <2>1. at = "setup" /\ enabled' = (enabled /\ ~Delayed(Specs[1]))
      BY <1>10 DEF FirstDisable, Stage
    <2>2. enabled /\ ~Delayed(Specs[1])
      BY <1>6, <1>8, <2>1, WindowAssumption DEF Delayed
    <2> QED  BY <2>1, <2>2
  <1>11. CASE NextSpec
    BY <1>6, <1>11 DEF NextSpec
  <1>12. CASE Begin \/ Wait \/ Start \/ Collect \/ StopCheck
    <2>1. at \in {"init", "wait", "start", "collect", "stop"}
      BY <1>12 DEF Begin, Wait, Start, Collect, StopCheck
    <2>2. ~Delayed(Current)
      BY <1>7, <2>1, WindowAssumption DEF Delayed
    <2>3. enabled
      BY <1>6, <2>1
    <2>4. \/ enabled' = enabled \/ enabled' = TRUE
          \/ enabled' = (enabled /\ ~Delayed(Current))
      BY <1>12 DEF Begin, Wait, Start, Collect, StopCheck
    <2> QED  BY <2>2, <2>3, <2>4
  <1>13. CASE StopDisable
    <2>1. at = "disable" /\ enabled' = FALSE /\ enabled
      BY <1>6, <1>13 DEF StopDisable
    <2>2. Repeat
      BY <1>5, <1>13 DEF StopDisable
    <2>3. Break
      BY <1>5, <1>7, <2>1, <2>2 DEF Repeat
    <2> QED  BY <1>7, <2>1, <2>3 DEF Break
  <1> QED  BY <1>9, <1>10, <1>11, <1>12, <1>13 DEF WindowNext, Window

(* At the start everything is on, and the window thread has all to do.         *)
LEMMA InitWindow == WindowInit => WindowInv /\ OffAtEnd
  <1> SUFFICES ASSUME WindowInit PROVE WindowInv /\ OffAtEnd
    OBVIOUS
  <1>1. settings \in Settings /\ state = "Init" /\ enabled = TRUE /\ main = "setup"
        /\ at = (IF Specs = << >> THEN "done" ELSE "setup") /\ spec = 1 /\ cycle = 0
    BY DEF WindowInit
  <1>2. Len(Specs) \in Nat /\ (Specs = << >> <=> Len(Specs) = 0)
    BY <1>1, SpecsLength
  <1>3. WindowTypeOK
    BY <1>1, <1>2 DEF WindowTypeOK
  <1>4. WindowPlaces /\ Scheduled /\ OffAtEnd
    BY <1>1, <1>2 DEF WindowPlaces, Scheduled, OffAtEnd
  <1> QED  BY <1>3, <1>4 DEF WindowInv

(* Of the window thread and the main thread: the types of what they do.        *)
THEOREM WindowTypeCorrect == WindowSpec => []WindowTypeOK
  <1>1. WindowInit => WindowInv
    BY InitWindow
  <1>2. WindowInv => WindowTypeOK
    BY DEF WindowInv
  <1> QED  BY <1>1, <1>2, StepWindow, PTL DEF WindowSpec

(* The windows of any settings: no data is collected in a delay, between two   *)
(* windows or after the last one, and data is collected in each.               *)
THEOREM WindowsKept == WindowSpec => []CollectsInWindows
  <1>1. WindowInit => WindowInv
    BY InitWindow
  <1>2. WindowInv => CollectsInWindows
    BY DEF WindowInv, Scheduled, CollectsInWindows
  <1> QED  BY <1>1, <1>2, StepWindow, PTL DEF WindowSpec

-----------------------------------------------------------------------------
(* The regions                                                                 *)

(* A set of naturals has a least element: they are well-founded.               *)
LEMMA LeastOf ==
    ASSUME NEW S \in SUBSET Nat, S # {} PROVE \E n \in S : \A m \in S : n <= m
  <1>1. IsWellFoundedOn(OpToRel(<, Nat), Nat)
    BY NatLessThanWellFounded
  <1>2. PICK n \in S : \A m \in S : ~(<<m, n>> \in OpToRel(<, Nat))
    BY <1>1, WFMin
  <1>3. \A m \in S : ~(m < n)
    BY <1>2 DEF OpToRel
  <1> QED  BY <1>3

(* The greatest of a set of indices, which Max chooses.                        *)
LEMMA MaxOf ==
    ASSUME NEW n \in Nat, NEW S \in SUBSET (1 .. n), S # {}
    PROVE  Max(S) \in S /\ \A m \in S : m <= Max(S)
  <1> DEFINE T == {n - i : i \in S}
  <1>1. PICK k \in T : \A m \in T : k <= m
    <2>1. \A i \in S : n - i \in Nat
      OBVIOUS
    <2>2. T \in SUBSET Nat /\ T # {}
      BY <2>1, Zenon
    <2> HIDE DEF T
    <2> QED  BY <2>2, LeastOf
  <1>2. n - k \in S /\ \A m \in S : n - k >= m
    BY <1>1
  <1> QED  BY <1>2 DEF Max

(* A sequence without its last element.                                        *)
LEMMA FrontOf ==
    ASSUME NEW S, NEW s \in Seq(S), s # << >>
    PROVE  /\ Front(s) \in Seq(S) /\ Len(Front(s)) = Len(s) - 1 /\ Len(s) \in Nat \ {0}
           /\ \A i \in 1 .. Len(s) - 1 : Front(s)[i] = s[i]
           /\ Last(s) = s[Len(s)] /\ Last(s) \in S
  <1> DEFINE n == Len(s) - 1
             f == SubSeq(s, 1, n)
  <1>1. /\ Len(s) \in Nat \ {0} /\ n \in Nat /\ s[Len(s)] \in S
        /\ \A i \in 1 .. n : s[i] \in S
    OBVIOUS
  <1>2. /\ f \in Seq(S) /\ Len(f) = (IF 1 <= n THEN n - 1 + 1 ELSE 0)
        /\ \A i \in 1 .. n - 1 + 1 : f[i] = s[1 + i - 1]
    <2>1. 1 \in Int /\ n \in Int
      BY <1>1
    <2> HIDE DEF n
    <2> QED  BY <1>1, <2>1, SubSeqProperties
  <1>3. Front(s) = f
    BY DEF Front
  <1> HIDE DEF f
  <1>4. Len(f) = n /\ \A i \in 1 .. n : f[i] = s[i]
    <2> HIDE DEF n
    <2>1. n - 1 + 1 = n /\ (1 <= n \/ n = 0) /\ \A i \in 1 .. n : 1 + i - 1 = i
      BY <1>1
    <2> QED  BY <1>1, <1>2, <2>1
  <1> QED  BY <1>1, <1>2, <1>3, <1>4 DEF Last

(* With one more.                                                              *)
LEMMA AppendOf ==
    ASSUME NEW S, NEW s \in Seq(S), NEW c \in S
    PROVE  /\ Append(s, c) \in Seq(S) /\ Append(s, c) # << >>
           /\ Len(Append(s, c)) = Len(s) + 1 /\ Len(s) \in Nat
           /\ Append(s, c)[Len(s) + 1] = c
           /\ \A i \in 1 .. Len(s) : Append(s, c)[i] = s[i]
  OBVIOUS

(* Without its k-th element: those after it move up.                           *)
LEMMA RemoveAtOf ==
    ASSUME NEW S, NEW s \in Seq(S), NEW k \in 1 .. Len(s)
    PROVE  /\ RemoveAt(s, k) \in Seq(S) /\ Len(RemoveAt(s, k)) = Len(s) - 1
           /\ Len(s) \in Nat \ {0}
           /\ \A i \in 1 .. Len(s) - 1 :
                 RemoveAt(s, k)[i] = IF i < k THEN s[i] ELSE s[i + 1]
  <1> DEFINE a == SubSeq(s, 1, k - 1)
             b == SubSeq(s, k + 1, Len(s))
  <1>1. Len(s) \in Nat \ {0}
    OBVIOUS
  <1>2. a \in Seq(S) /\ Len(a) = k - 1 /\ \A i \in 1 .. k - 1 : a[i] = s[i]
    BY <1>1, SubSeqProperties
  <1>3. b \in Seq(S) /\ Len(b) = Len(s) - k /\ \A i \in 1 .. Len(s) - k : b[i] = s[k + i]
    BY <1>1, SubSeqProperties
  <1> HIDE DEF a, b
  <1>4. /\ a \o b \in Seq(S) /\ Len(a \o b) = Len(s) - 1
        /\ \A i \in 1 .. Len(s) - 1 : (a \o b)[i] = IF i < k THEN s[i] ELSE s[i + 1]
    <2>1. /\ a \o b \in Seq(S) /\ Len(a \o b) = Len(a) + Len(b)
          /\ \A i \in 1 .. Len(a) + Len(b) :
                (a \o b)[i] = IF i <= Len(a) THEN a[i] ELSE b[i - Len(a)]
      BY <1>2, <1>3, ConcatProperties
    <2>2. ASSUME NEW i \in 1 .. Len(s) - 1
          PROVE  (a \o b)[i] = IF i < k THEN s[i] ELSE s[i + 1]
      <3>1. CASE i < k
        BY <1>1, <1>2, <1>3, <2>1, <3>1
      <3>2. CASE ~(i < k)
        <4>1. (a \o b)[i] = b[i - (k - 1)]
          BY <1>1, <1>2, <1>3, <2>1, <3>2
        <4>2. i - (k - 1) \in 1 .. Len(s) - k /\ k + (i - (k - 1)) = i + 1
          BY <1>1, <3>2
        <4> QED  BY <1>3, <3>2, <4>1, <4>2
      <3> QED  BY <3>1, <3>2
    <2> QED  BY <1>1, <1>2, <1>3, <2>1, <2>2
  <1>5. RemoveAt(s, k) = a \o b
    BY DEF RemoveAt, a, b
  <1> QED  BY <1>1, <1>4, <1>5

Bundle == [name : Name, depth : Nat]

(* The places of a thread have their types.                                    *)
Typed ==
    /\ stack \in [Thread -> Seq(Name)]
    /\ pc \in [Thread -> {"user", "pushTimemory", "pushPerfetto", "popPerfetto",
                          "popTimemory"}]
    /\ bundles \in [Thread -> Seq(Bundle)]
    /\ events \in [Thread -> Seq(Nat)]
    /\ early \subseteq Thread
    /\ profile \in [Thread -> Int] /\ tracing \in [Thread -> Int]

(* What holds of any settings and threads.                                     *)
Known == WindowInv /\ OffAtEnd /\ Typed /\ \A t \in Thread : Places(t)

(* A step of a thread changes nothing of another one, and not the windows.     *)
LEMMA StepOthers ==
    ASSUME Typed, NEW t \in Thread, Region(t), NEW u \in Thread, u # t
    PROVE  /\ UNCHANGED windowVars
           /\ stack'[u] = stack[u] /\ pc'[u] = pc[u] /\ bundles'[u] = bundles[u]
           /\ events'[u] = events[u] /\ profile'[u] = profile[u]
           /\ tracing'[u] = tracing[u] /\ (u \in early' <=> u \in early)
  <1> USE DEF Typed, Goto, Leave
  <1>1. CASE Call(t)
    BY <1>1 DEF Call
  <1>2. CASE PushTimemory(t) \/ PushPerfetto(t)
    BY <1>2 DEF PushTimemory, PushPerfetto
  <1>3. CASE Return(t)
    BY <1>3 DEF Return
  <1>4. CASE PopPerfetto(t)
    BY <1>4 DEF PopPerfetto
  <1>5. CASE PopTimemory(t)
    BY <1>5 DEF PopTimemory
  <1> QED  BY <1>1, <1>2, <1>3, <1>4, <1>5 DEF Region

(* What each operation changes of its thread.                                  *)
LEMMA CallEffect ==
    ASSUME Typed, NEW t \in Thread, Call(t)
    PROVE  /\ Typed'
           /\ UNCHANGED <<windowVars, bundles, events, profile, tracing>>
           /\ pc[t] = "user"
           /\ pc'[t] = (IF enabled /\ state = "Active" THEN "pushTimemory" ELSE "user")
           /\ t \in early' <=> t \in early \/ state = "Init"
           /\ \E n \in Name : stack'[t] = Append(stack[t], n)
           /\ stack'[t] # << >> /\ Len(stack'[t]) = Len(stack[t]) + 1
           /\ Len(stack[t]) \in Nat
           /\ \A i \in 1 .. Len(stack[t]) : stack'[t][i] = stack[t][i]
  <1> USE DEF Typed
  <1>1. PICK n \in Name : stack' = [stack EXCEPT ![t] = Append(@, n)]
    BY DEF Call
  <1>2. stack[t] \in Seq(Name) /\ stack'[t] = Append(stack[t], n)
    BY <1>1
  <1>3. /\ Append(stack[t], n) \in Seq(Name) /\ stack'[t] # << >>
        /\ Len(stack'[t]) = Len(stack[t]) + 1 /\ Len(stack[t]) \in Nat
        /\ \A i \in 1 .. Len(stack[t]) : stack'[t][i] = stack[t][i]
    <2>1. /\ Append(stack[t], n) \in Seq(Name) /\ Append(stack[t], n) # << >>
          /\ Len(Append(stack[t], n)) = Len(stack[t]) + 1 /\ Len(stack[t]) \in Nat
          /\ \A i \in 1 .. Len(stack[t]) : Append(stack[t], n)[i] = stack[t][i]
      <3> HIDE DEF Typed
      <3>1. stack[t] \in Seq(Name) /\ n \in Name
        BY <1>1, <1>2
      <3> QED  BY <3>1, AppendOf
    <2> QED  BY <1>2, <2>1
  <1>4. /\ pc' = [pc EXCEPT ![t] = IF enabled /\ state = "Active" THEN "pushTimemory"
                                   ELSE "user"]
        /\ pc[t] = "user"
    BY DEF Call, Goto
  <1>5. early' = (IF state = "Init" THEN early \cup {t} ELSE early)
    BY DEF Call
  <1>6. UNCHANGED <<windowVars, bundles, events, profile, tracing>>
    BY DEF Call
  <1>7. Typed'
    BY <1>1, <1>3, <1>4, <1>5, <1>6
  <1> QED  BY <1>2, <1>3, <1>4, <1>5, <1>6, <1>7

(* The new bundle has the depth and the name of the innermost call.            *)
LEMMA PushTimemoryEffect ==
    ASSUME Typed, NEW t \in Thread, PushTimemory(t), stack[t] # << >>
    PROVE  /\ Typed'
           /\ UNCHANGED <<windowVars, early, stack, events, tracing>>
           /\ pc[t] = "pushTimemory" /\ pc'[t] = "pushPerfetto"
           /\ ~enabled => bundles'[t] = bundles[t] /\ profile'[t] = profile[t]
           /\ enabled =>
                 /\ Len(bundles'[t]) = Len(bundles[t]) + 1 /\ Len(bundles[t]) \in Nat
                 /\ \A i \in 1 .. Len(bundles[t]) : bundles'[t][i] = bundles[t][i]
                 /\ bundles'[t][Len(bundles[t]) + 1].depth = Len(stack[t])
                 /\ bundles'[t][Len(bundles[t]) + 1].name = stack[t][Len(stack[t])]
                 /\ profile'[t] = profile[t] + 1
           /\ Len(stack[t]) \in Nat \ {0}
  <1> USE DEF Typed
  <1>1. stack[t] \in Seq(Name) /\ bundles[t] \in Seq(Bundle)
    OBVIOUS
  <1>2. Last(stack[t]) = stack[t][Len(stack[t])] /\ Last(stack[t]) \in Name
        /\ Len(stack[t]) \in Nat \ {0}
    BY <1>1, FrontOf
  <1>3. /\ pc' = [pc EXCEPT ![t] = "pushPerfetto"]
        /\ pc[t] = "pushTimemory" /\ pc'[t] = "pushPerfetto"
        /\ UNCHANGED <<windowVars, early, stack, events, tracing>>
    BY DEF PushTimemory, Goto
  <1>4. CASE enabled
    <2> DEFINE b == [name |-> Last(stack[t]), depth |-> Len(stack[t])]
    <2>1. /\ bundles' = [bundles EXCEPT ![t] = Append(bundles[t], b)]
          /\ profile' = [profile EXCEPT ![t] = @ + 1]
      BY <1>4 DEF PushTimemory
    <2>2. b \in Bundle /\ b.depth = Len(stack[t]) /\ b.name = stack[t][Len(stack[t])]
      BY <1>2 DEF Bundle
    <2> HIDE DEF b
    <2>3. /\ Append(bundles[t], b) \in Seq(Bundle)
          /\ Len(Append(bundles[t], b)) = Len(bundles[t]) + 1 /\ Len(bundles[t]) \in Nat
          /\ Append(bundles[t], b)[Len(bundles[t]) + 1] = b
          /\ \A i \in 1 .. Len(bundles[t]) : Append(bundles[t], b)[i] = bundles[t][i]
      BY <1>1, <2>2, AppendOf
    <2>4. bundles'[t] = Append(bundles[t], b) /\ profile'[t] = profile[t] + 1
      BY <2>1
    <2>5. Typed'
      BY <1>3, <2>1, <2>3
    <2> HIDE DEF Typed
    <2> QED  BY <1>2, <1>3, <1>4, <2>2, <2>3, <2>4, <2>5
  <1>5. CASE ~enabled
    <2>1. UNCHANGED <<bundles, profile>>
      BY <1>5 DEF PushTimemory
    <2> QED  BY <1>2, <1>3, <1>5, <2>1
  <1> QED  BY <1>4, <1>5

(* The new event has the depth of the innermost call.                          *)
LEMMA PushPerfettoEffect ==
    ASSUME Typed, NEW t \in Thread, PushPerfetto(t)
    PROVE  /\ Typed'
           /\ UNCHANGED <<windowVars, early, stack, bundles, profile>>
           /\ pc[t] = "pushPerfetto" /\ pc'[t] = "user"
           /\ ~enabled => events'[t] = events[t] /\ tracing'[t] = tracing[t]
           /\ enabled =>
                 /\ Len(events'[t]) = Len(events[t]) + 1 /\ Len(events[t]) \in Nat
                 /\ \A i \in 1 .. Len(events[t]) : events'[t][i] = events[t][i]
                 /\ events'[t][Len(events[t]) + 1] = Len(stack[t])
                 /\ tracing'[t] = tracing[t] + 1
  <1> USE DEF Typed
  <1>1. events[t] \in Seq(Nat) /\ Len(stack[t]) \in Nat
    OBVIOUS
  <1>2. /\ pc' = [pc EXCEPT ![t] = "user"]
        /\ pc[t] = "pushPerfetto" /\ pc'[t] = "user"
        /\ UNCHANGED <<windowVars, early, stack, bundles, profile>>
    BY DEF PushPerfetto, Goto
  <1>3. CASE enabled
    <2>1. /\ events' = [events EXCEPT ![t] = Append(events[t], Len(stack[t]))]
          /\ tracing' = [tracing EXCEPT ![t] = @ + 1]
      BY <1>3 DEF PushPerfetto
    <2> DEFINE e == Append(events[t], Len(stack[t]))
    <2>2. /\ e \in Seq(Nat)
          /\ Len(e) = Len(events[t]) + 1 /\ Len(events[t]) \in Nat
          /\ e[Len(events[t]) + 1] = Len(stack[t])
          /\ \A i \in 1 .. Len(events[t]) : e[i] = events[t][i]
      BY <1>1, AppendOf
    <2> HIDE DEF e
    <2>3. events'[t] = e /\ tracing'[t] = tracing[t] + 1
      BY <2>1 DEF e
    <2>4. Typed'
      BY <1>2, <2>1, <2>2 DEF e
    <2> HIDE DEF Typed
    <2> QED  BY <1>2, <1>3, <2>2, <2>3, <2>4
  <1>4. CASE ~enabled
    <2>1. UNCHANGED <<events, tracing>>
      BY <1>4 DEF PushPerfetto
    <2> QED  BY <1>2, <1>4, <2>1
  <1> QED  BY <1>3, <1>4

(* A return that is ignored leaves the call at once.                           *)
LEMMA ReturnEffect ==
    ASSUME Typed, NEW t \in Thread, Return(t)
    PROVE  /\ Typed'
           /\ UNCHANGED <<windowVars, early, bundles, events, profile, tracing>>
           /\ stack[t] # << >> /\ pc[t] = "user" /\ Len(stack[t]) \in Nat \ {0}
           /\ ~Ignored(t) => stack' = stack /\ pc'[t] = "popPerfetto"
           /\ Ignored(t) =>
                 /\ stack'[t] = Front(stack[t]) /\ pc'[t] = "user"
                 /\ Len(stack'[t]) = Len(stack[t]) - 1
                 /\ \A i \in 1 .. Len(stack[t]) - 1 : stack'[t][i] = stack[t][i]
  <1> USE DEF Typed
  <1>1. /\ stack[t] # << >> /\ pc[t] = "user"
        /\ UNCHANGED <<windowVars, early, bundles, events, profile, tracing>>
    BY DEF Return
  <1>2. /\ Front(stack[t]) \in Seq(Name) /\ Len(stack[t]) \in Nat \ {0}
        /\ Len(Front(stack[t])) = Len(stack[t]) - 1
        /\ \A i \in 1 .. Len(stack[t]) - 1 : Front(stack[t])[i] = stack[t][i]
    <2>1. stack[t] \in Seq(Name)
      OBVIOUS
    <2> QED  BY <1>1, <2>1, FrontOf
  <1>3. CASE Ignored(t)
    <2>1. /\ stack' = [stack EXCEPT ![t] = Front(stack[t])]
          /\ pc' = [pc EXCEPT ![t] = "user"]
      BY <1>3 DEF Return, Leave, Goto
    <2> QED  BY <1>1, <1>2, <1>3, <2>1
  <1>4. CASE ~Ignored(t)
    <2>1. stack' = stack /\ pc' = [pc EXCEPT ![t] = "popPerfetto"]
      BY <1>4 DEF Return, Goto
    <2> QED  BY <1>1, <1>2, <1>4, <2>1
  <1> QED  BY <1>3, <1>4

(* The innermost event goes, if the pop is not skipped and there is one.       *)
LEMMA PopPerfettoEffect ==
    ASSUME Typed, NEW t \in Thread, PopPerfetto(t)
    PROVE  /\ Typed'
           /\ UNCHANGED <<windowVars, early, stack, bundles, profile>>
           /\ pc[t] = "popPerfetto" /\ pc'[t] = "popTimemory"
           /\ TracingPopDisabled(t) =>
                 events'[t] = events[t] /\ tracing'[t] = tracing[t]
           /\ ~TracingPopDisabled(t) =>
                 /\ tracing'[t] = tracing[t] - 1
                 /\ events[t] = << >> => events'[t] = events[t]
                 /\ events[t] # << >> =>
                       /\ Len(events[t]) \in Nat \ {0}
                       /\ Len(events'[t]) = Len(events[t]) - 1
                       /\ \A i \in 1 .. Len(events[t]) - 1 : events'[t][i] = events[t][i]
  <1> USE DEF Typed
  <1>1. /\ pc' = [pc EXCEPT ![t] = "popTimemory"]
        /\ pc[t] = "popPerfetto" /\ pc'[t] = "popTimemory"
        /\ UNCHANGED <<windowVars, early, stack, bundles, profile>>
    BY DEF PopPerfetto, Goto
  <1>2. CASE TracingPopDisabled(t)
    <2>1. UNCHANGED <<events, tracing>>
      BY <1>2 DEF PopPerfetto
    <2> QED  BY <1>1, <1>2, <2>1
  <1>3. CASE ~TracingPopDisabled(t)
    <2>1. /\ tracing' = [tracing EXCEPT ![t] = @ - 1]
          /\ events' = [events EXCEPT ![t] = IF @ = << >> THEN @ ELSE Front(@)]
      BY <1>3 DEF PopPerfetto
    <2>2. CASE events[t] = << >>
      BY <1>1, <1>3, <2>1, <2>2
    <2>3. CASE events[t] # << >>
      <3>1. /\ Front(events[t]) \in Seq(Nat) /\ Len(events[t]) \in Nat \ {0}
            /\ Len(Front(events[t])) = Len(events[t]) - 1
            /\ \A i \in 1 .. Len(events[t]) - 1 : Front(events[t])[i] = events[t][i]
        <4>1. events[t] \in Seq(Nat)
          OBVIOUS
        <4> QED  BY <2>3, <4>1, FrontOf
      <3>2. events' = [events EXCEPT ![t] = Front(events[t])]
        BY <2>1, <2>3
      <3>3. events'[t] = Front(events[t]) /\ tracing'[t] = tracing[t] - 1
        BY <2>1, <3>2
      <3>4. Typed'
        BY <1>1, <2>1, <3>1, <3>2
      <3> HIDE DEF Typed
      <3> QED  BY <1>1, <1>3, <2>3, <3>1, <3>3, <3>4
    <2> QED  BY <2>2, <2>3
  <1> QED  BY <1>2, <1>3

(* The call is left; its name decides which bundle goes, if any.               *)
LEMMA PopTimemoryEffect ==
    ASSUME Typed, NEW t \in Thread, PopTimemory(t), stack[t] # << >>
    PROVE  /\ Typed'
           /\ UNCHANGED <<windowVars, early, events, profile, tracing>>
           /\ pc[t] = "popTimemory" /\ pc'[t] = "user" /\ Len(stack[t]) \in Nat \ {0}
           /\ stack'[t] = Front(stack[t]) /\ Len(stack'[t]) = Len(stack[t]) - 1
           /\ \A i \in 1 .. Len(stack[t]) - 1 : stack'[t][i] = stack[t][i]
           /\ \/ /\ bundles'[t] = bundles[t]
                 /\ \/ ProfilePopDisabled(t)
                    \/ \A i \in 1 .. Len(bundles[t]) :
                          bundles[t][i].name # stack[t][Len(stack[t])]
              \/ \E k \in 1 .. Len(bundles[t]) :
                    /\ bundles[t][k].name = stack[t][Len(stack[t])]
                    /\ \A i \in 1 .. Len(bundles[t]) :
                          bundles[t][i].name = stack[t][Len(stack[t])] => i <= k
                    /\ Len(bundles'[t]) = Len(bundles[t]) - 1
                    /\ Len(bundles[t]) \in Nat \ {0}
                    /\ \A i \in 1 .. Len(bundles[t]) - 1 :
                          bundles'[t][i] = IF i < k THEN bundles[t][i]
                                           ELSE bundles[t][i + 1]
  <1> USE DEF Typed
  <1> DEFINE s == stack[t]
             b == bundles[t]
             same == {i \in DOMAIN b : b[i].name = Last(s)}
  <1>1. s \in Seq(Name) /\ b \in Seq(Bundle) /\ Len(b) \in Nat /\ DOMAIN b = 1 .. Len(b)
    OBVIOUS
  <1>2. /\ Front(s) \in Seq(Name) /\ Len(s) \in Nat \ {0} /\ Len(Front(s)) = Len(s) - 1
        /\ \A i \in 1 .. Len(s) - 1 : Front(s)[i] = s[i]
        /\ Last(s) = s[Len(s)]
    BY <1>1, FrontOf
  <1>3. /\ pc' = [pc EXCEPT ![t] = "user"] /\ pc[t] = "popTimemory"
        /\ stack' = [stack EXCEPT ![t] = Front(s)]
        /\ UNCHANGED <<windowVars, early, events, profile, tracing>>
    BY DEF PopTimemory, Leave, Goto
  <1>4. CASE ProfilePopDisabled(t) \/ same = {}
    <2>1. UNCHANGED bundles
      BY <1>4 DEF PopTimemory
    <2>2. Typed'
      BY <1>2, <1>3, <2>1
    <2>3. \/ ProfilePopDisabled(t)
          \/ \A i \in 1 .. Len(b) : b[i].name # s[Len(s)]
      BY <1>1, <1>2, <1>4
    <2>4. stack'[t] = Front(s) /\ pc'[t] = "user" /\ bundles'[t] = b
      BY <1>3, <2>1
    <2> HIDE DEF Typed
    <2> QED  BY <1>2, <1>3, <2>2, <2>3, <2>4
  <1>5. CASE ~ProfilePopDisabled(t) /\ same # {}
    <2> DEFINE k == Max(same)
    <2>1. bundles' = [bundles EXCEPT ![t] = RemoveAt(b, k)]
      BY <1>5 DEF PopTimemory
    <2>2. same \in SUBSET (1 .. Len(b))
      BY <1>1
    <2>3. k \in same /\ \A i \in same : i <= k
      <3> HIDE DEF same
      <3> QED  BY <1>1, <1>5, <2>2, MaxOf
    <2>4. /\ k \in 1 .. Len(b) /\ b[k].name = s[Len(s)]
          /\ \A i \in 1 .. Len(b) : b[i].name = s[Len(s)] => i <= k
      BY <1>1, <1>2, <2>3
    <2> HIDE DEF k
    <2>5. /\ RemoveAt(b, k) \in Seq(Bundle) /\ Len(RemoveAt(b, k)) = Len(b) - 1
          /\ Len(b) \in Nat \ {0}
          /\ \A i \in 1 .. Len(b) - 1 :
                RemoveAt(b, k)[i] = IF i < k THEN b[i] ELSE b[i + 1]
      <3> HIDE DEF Typed, b
      <3> QED  BY <1>1, <2>4, RemoveAtOf
    <2>6. Typed'
      BY <1>2, <1>3, <2>1, <2>5
    <2>7. stack'[t] = Front(s) /\ pc'[t] = "user" /\ bundles'[t] = RemoveAt(b, k)
      BY <1>3, <2>1
    <2> HIDE DEF Typed
    <2> QED  BY <1>2, <1>3, <2>4, <2>5, <2>6, <2>7
  <1> QED  BY <1>4, <1>5

-----------------------------------------------------------------------------
(* The types, and that nothing is recorded before the profiler is active.      *)
LEMMA StepKnown == Known /\ [Next]_vars => Known'
  <1> SUFFICES ASSUME Known, [Next]_vars PROVE Known'
    OBVIOUS
  <1>0. WindowInv /\ OffAtEnd /\ Typed /\ \A t \in Thread : Places(t)
    BY DEF Known
  <1>1. CASE WindowNext /\ UNCHANGED regionVars
    <2>1. WindowInv' /\ OffAtEnd' /\ (state' = "Init" => state = "Init")
      BY <1>0, <1>1, StepWindow, StepOff
    <2>2. Typed' /\ \A t \in Thread : Places(t)'
      BY <1>0, <1>1, <2>1 DEF regionVars, Typed, Places
    <2> QED  BY <2>1, <2>2 DEF Known
  <1>2. CASE \E t \in Thread : Region(t)
    <2>1. PICK t \in Thread : Region(t)
      BY <1>2
    <2>2. UNCHANGED windowVars
      BY <2>1 DEF Region, Call, PushTimemory, PushPerfetto, Return, PopPerfetto, PopTimemory
    <2>3. WindowInv' /\ OffAtEnd' /\ state' = state /\ enabled' = enabled
      <3>1. WindowInv'
        BY <1>0, <2>2, StepWindow
      <3>2. settings' = settings /\ at' = at /\ spec' = spec /\ state' = state
            /\ enabled' = enabled
        BY <2>2 DEF windowVars
      <3> QED  BY <1>0, <3>1, <3>2 DEF OffAtEnd, GoesOffOnce, Specs, Period
    <2>4. Typed' /\ Places(t)'
      <3>0. Places(t)
        BY <1>0
      <3>1. CASE Call(t)
        BY <1>0, <2>3, <3>0, <3>1, CallEffect DEF Places
      <3>2. CASE PushTimemory(t)
        <4>1. pc[t] # "user"
          BY <3>2 DEF PushTimemory
        <4> QED  BY <1>0, <2>3, <3>0, <3>2, <4>1, PushTimemoryEffect DEF Places
      <3>3. CASE PushPerfetto(t)
        BY <1>0, <2>3, <3>0, <3>3, PushPerfettoEffect DEF Places
      <3>4. CASE Return(t)
        BY <1>0, <2>3, <3>0, <3>4, ReturnEffect DEF Places, Ignored
      <3>5. CASE PopPerfetto(t)
        BY <1>0, <2>3, <3>0, <3>5, PopPerfettoEffect DEF Places
      <3>6. CASE PopTimemory(t)
        <4>1. pc[t] # "user"
          BY <3>6 DEF PopTimemory
        <4>2. stack[t] # << >> /\ state # "Init"
          BY <3>0, <4>1 DEF Places
        <4> QED  BY <1>0, <2>3, <3>6, <4>2, PopTimemoryEffect DEF Places
      <3> QED  BY <2>1, <3>1, <3>2, <3>3, <3>4, <3>5, <3>6 DEF Region
    <2>5. ASSUME NEW u \in Thread, u # t PROVE Places(u)'
      <3>1. Places(u)
        BY <1>0
      <3> QED  BY <1>0, <2>1, <2>3, <2>5, <3>1, StepOthers DEF Places
    <2> QED  BY <2>3, <2>4, <2>5 DEF Known
  <1>3. CASE UNCHANGED vars
    <2>1. UNCHANGED windowVars /\ UNCHANGED regionVars
      BY <1>3 DEF vars
    <2>2. WindowInv'
      BY <1>0, <2>1, StepWindow
    <2>3. settings' = settings /\ at' = at /\ spec' = spec /\ state' = state
          /\ enabled' = enabled
      BY <2>1 DEF windowVars
    <2>4. OffAtEnd'
      BY <1>0, <2>3 DEF OffAtEnd, GoesOffOnce, Specs, Period
    <2>5. Typed' /\ \A t \in Thread : Places(t)'
      BY <1>0, <2>1, <2>3 DEF regionVars, Typed, Places
    <2> QED  BY <2>2, <2>4, <2>5 DEF Known
  <1> QED  BY <1>1, <1>2, <1>3 DEF Next

(* Nothing is recorded at the start.                                           *)
LEMMA InitKnown == Init => Known
  <1> SUFFICES ASSUME Init PROVE Known
    OBVIOUS
  <1>1. WindowInv /\ OffAtEnd /\ state = "Init"
    BY InitWindow DEF Init, WindowInit
  <1>2. Typed
    BY DEF Init, Typed
  <1>3. \A t \in Thread : Places(t)
    BY DEF Init, Places
  <1> QED  BY <1>1, <1>2, <1>3 DEF Known

(* The counts of the pushes stand for bundles and events that exist.           *)
Promised(t) == Len(bundles[t]) <= profile[t] /\ tracing[t] <= Len(events[t])

LEMMA StepPromised ==
    Known /\ Known' /\ (\A t \in Thread : Promised(t)) /\ [Next]_vars
        => \A t \in Thread : Promised(t)'
  <1> SUFFICES ASSUME Known, \A u \in Thread : Promised(u), [Next]_vars, NEW t \in Thread
               PROVE  Promised(t)'
    OBVIOUS
  <1>0. Typed /\ Places(t) /\ Promised(t)
    BY DEF Known
  <1>1. Len(bundles[t]) \in Nat /\ Len(events[t]) \in Nat /\ profile[t] \in Int
        /\ tracing[t] \in Int
    BY <1>0 DEF Typed
  <1>2. CASE UNCHANGED regionVars
    BY <1>0, <1>2 DEF regionVars, Promised
  <1>3. CASE Region(t)
    <2>1. CASE Call(t) \/ Return(t)
      BY <1>0, <2>1, CallEffect, ReturnEffect DEF Promised
    <2>2. CASE PushTimemory(t)
      <3>1. stack[t] # << >>
        BY <1>0, <2>2 DEF PushTimemory, Places
      <3> QED  BY <1>0, <1>1, <2>2, <3>1, PushTimemoryEffect DEF Promised
    <2>3. CASE PushPerfetto(t)
      BY <1>0, <1>1, <2>3, PushPerfettoEffect DEF Promised
    <2>4. CASE PopPerfetto(t)
      <3>1. events[t] = << >> => Len(events[t]) = 0
        OBVIOUS
      <3> QED  BY <1>0, <1>1, <2>4, <3>1, PopPerfettoEffect DEF Promised
    <2>5. CASE PopTimemory(t)
      <3>1. stack[t] # << >>
        BY <1>0, <2>5 DEF PopTimemory, Places
      <3> QED  BY <1>0, <1>1, <2>5, <3>1, PopTimemoryEffect DEF Promised
    <2> QED  BY <1>3, <2>1, <2>2, <2>3, <2>4, <2>5 DEF Region
  <1>4. ASSUME NEW u \in Thread, Region(u), u # t PROVE Promised(t)'
    BY <1>0, <1>4, StepOthers DEF Promised
  <1> QED  BY <1>2, <1>3, <1>4 DEF Next, vars

(* The types, with any windows; regions are recorded only inside calls and     *)
(* once the profiler is active, and counted as they are.                       *)
THEOREM TypeCorrect == Spec => []TypeOK
  <1> DEFINE AllPromised == \A t \in Thread : Promised(t)
  <1>1. Init => AllPromised
    BY DEF Init, Promised
  <1>2. Known /\ AllPromised => TypeOK
    BY DEF Known, TypeOK, Typed, Bundle, Places, Promised
  <1>3. Known /\ AllPromised /\ [Next]_vars => (Known /\ AllPromised)'
    BY StepKnown, StepPromised
  <1> QED  BY InitKnown, <1>1, <1>2, <1>3, PTL DEF Spec

-----------------------------------------------------------------------------
(* As long as the category is on, both backends have the innermost calls.      *)
OnInv == Known /\ \A t \in Thread : EventsOn(t) /\ BundlesOn(t)

(* Consecutive numbers up to a top, and one more.                              *)
LEMMA OneMore ==
    ASSUME NEW e, NEW f, NEW n \in Nat, NEW top \in Int, n <= top,
           \A i \in 1 .. n : e[i] = top - n + i,
           \A i \in 1 .. n : f[i] = e[i], f[n + 1] = top + 1
    PROVE  /\ n + 1 <= top + 1
           /\ \A i \in 1 .. n + 1 : f[i] = top + 1 - (n + 1) + i
  <1>1. ASSUME NEW i \in 1 .. n + 1 PROVE f[i] = top + 1 - (n + 1) + i
    <2>1. CASE i = n + 1
      BY <2>1
    <2>2. CASE i \in 1 .. n
      BY <2>2
    <2> QED  BY <2>1, <2>2
  <1> QED  BY <1>1

(* Consecutive numbers up to a top, without the last.                          *)
LEMMA OneLess ==
    ASSUME NEW e, NEW f, NEW n \in Nat \ {0}, NEW top \in Int, n <= top,
           \A i \in 1 .. n : e[i] = top - n + i,
           \A i \in 1 .. n - 1 : f[i] = e[i]
    PROVE  /\ n - 1 <= top - 1
           /\ \A i \in 1 .. n - 1 : f[i] = top - 1 - (n - 1) + i
  <1>1. ASSUME NEW i \in 1 .. n - 1 PROVE f[i] = top - 1 - (n - 1) + i
    <2>1. i \in 1 .. n /\ f[i] = e[i]
      OBVIOUS
    <2> QED  BY <2>1
  <1> QED  BY <1>1

(* A call begins the event of its depth, and ends it when it returns.          *)
LEMMA StepEventsOn ==
    ASSUME Known, NEW t \in Thread, Region(t), EventsOn(t)
    PROVE  EventsOn(t)'
  <1>0. /\ Typed /\ Places(t) /\ state \in {"Init", "Active", "Finalized"}
        /\ Len(stack[t]) \in Nat /\ Len(events[t]) \in Nat
        /\ stack[t] # << >> => Len(stack[t]) > 0
        /\ events[t] = << >> => Len(events[t]) = 0
    BY DEF Known, WindowInv, WindowTypeOK, Typed
  <1>1. /\ state' = state /\ enabled' = enabled /\ settings' = settings
        /\ GoesOffOnce' <=> GoesOffOnce
    BY DEF Region, Call, PushTimemory, PushPerfetto, Return, PopPerfetto, PopTimemory,
           windowVars, GoesOffOnce
  <1>2. SUFFICES ASSUME GoesOffOnce, state # "Finalized", enabled
                 PROVE  /\ Len(events'[t]) <= Top(t)'
                        /\ \A i \in 1 .. Len(events'[t]) :
                              events'[t][i] = Top(t)' - Len(events'[t]) + i
    BY <1>1 DEF EventsOn
  <1>3. /\ Len(events[t]) <= Top(t)
        /\ \A i \in 1 .. Len(events[t]) : events[t][i] = Top(t) - Len(events[t]) + i
    BY <1>2 DEF EventsOn
  <1>4. CASE Call(t)
    <2>1. events'[t] = events[t] /\ Len(stack'[t]) = Len(stack[t]) + 1
          /\ pc[t] = "user"
          /\ pc'[t] = (IF state = "Active" THEN "pushTimemory" ELSE "user")
      BY <1>0, <1>2, <1>4, CallEffect
    <2>2. CASE state = "Active"
      <3>1. Top(t)' = Top(t)
        BY <1>0, <2>1, <2>2 DEF Top
      <3> QED  BY <1>3, <2>1, <3>1
    <2>3. CASE state = "Init"
      <3>1. Top(t)' = Len(stack[t]) + 1 /\ Len(events[t]) = 0
        BY <1>0, <2>1, <2>3 DEF Top, Places
      <3> QED  BY <1>0, <2>1, <3>1
    <2> QED  BY <1>0, <1>2, <2>2, <2>3
  <1>5. CASE PushTimemory(t)
    <2>1. pc[t] = "pushTimemory" /\ stack[t] # << >>
      BY <1>0, <1>5 DEF PushTimemory, Places
    <2>2. events'[t] = events[t] /\ stack'[t] = stack[t] /\ pc'[t] = "pushPerfetto"
      BY <1>0, <1>5, <2>1, PushTimemoryEffect
    <2>3. Top(t)' = Top(t)
      BY <2>1, <2>2 DEF Top
    <2> QED  BY <1>3, <2>2, <2>3
  <1>6. CASE PushPerfetto(t)
    <2>1. /\ pc[t] = "pushPerfetto" /\ pc'[t] = "user" /\ stack'[t] = stack[t]
          /\ Len(events'[t]) = Len(events[t]) + 1
          /\ \A i \in 1 .. Len(events[t]) : events'[t][i] = events[t][i]
          /\ events'[t][Len(events[t]) + 1] = Len(stack[t])
      BY <1>0, <1>2, <1>6, PushPerfettoEffect
    <2>2. Top(t)' = Len(stack[t]) /\ Top(t) = Len(stack[t]) - 1
      BY <2>1 DEF Top
    <2> DEFINE n == Len(events[t])
               top == Len(stack[t]) - 1
    <2>3. n <= top /\ \A i \in 1 .. n : events[t][i] = top - n + i
      BY <1>3, <2>2
    <2>4. top + 1 = Top(t)' /\ n \in Nat /\ top \in Int /\ Len(events'[t]) = n + 1
      BY <1>0, <2>1, <2>2
    <2>5. (\A i \in 1 .. n : events'[t][i] = events[t][i]) /\ events'[t][n + 1] = top + 1
      BY <2>1, <2>2, <2>4
    <2> HIDE DEF n, top
    <2>6. /\ n + 1 <= top + 1
          /\ \A i \in 1 .. n + 1 : events'[t][i] = top + 1 - (n + 1) + i
      BY <2>3, <2>4, <2>5, OneMore
    <2> QED  BY <2>4, <2>6
  <1>7. CASE Return(t)
    <2>1. /\ events'[t] = events[t] /\ pc[t] = "user"
          /\ ~Ignored(t) => stack' = stack /\ pc'[t] = "popPerfetto"
          /\ Ignored(t) => pc'[t] = "user" /\ Len(stack'[t]) = Len(stack[t]) - 1
          /\ Len(stack[t]) > 0
      BY <1>0, <1>7, ReturnEffect
    <2>2. CASE Ignored(t)
      <3>1. state = "Init"
        BY <1>0, <1>2, <2>2 DEF Ignored, CategoryPopDisabled
      <3>2. Top(t)' = Len(stack[t]) - 1 /\ Len(events[t]) = 0
        BY <1>0, <2>1, <2>2, <3>1 DEF Top, Places
      <3> QED  BY <1>0, <2>1, <3>2
    <2>3. CASE ~Ignored(t)
      <3>1. Top(t)' = Top(t)
        BY <2>1, <2>3 DEF Top
      <3> QED  BY <1>3, <2>1, <3>1
    <2> QED  BY <2>2, <2>3
  <1>8. CASE PopPerfetto(t)
    <2>1. /\ pc[t] = "popPerfetto" /\ pc'[t] = "popTimemory" /\ stack'[t] = stack[t]
          /\ events[t] = << >> => events'[t] = events[t]
          /\ events[t] # << >> =>
                /\ Len(events'[t]) = Len(events[t]) - 1
                /\ \A i \in 1 .. Len(events[t]) - 1 : events'[t][i] = events[t][i]
      BY <1>0, <1>2, <1>8, PopPerfettoEffect DEF TracingPopDisabled
    <2>2. Top(t) = Len(stack[t]) /\ Top(t)' = Top(t) - 1 /\ Top(t) > 0
      BY <1>0, <2>1 DEF Top, Places
    <2> DEFINE n == Len(events[t])
               top == Len(stack[t])
    <2>3. n <= top /\ \A i \in 1 .. n : events[t][i] = top - n + i
      BY <1>3, <2>2
    <2>4. top - 1 = Top(t)' /\ n \in Nat /\ top \in Nat \ {0}
      BY <1>0, <2>2
    <2>5. CASE events[t] = << >>
      BY <1>0, <2>1, <2>4, <2>5
    <2>6. CASE events[t] # << >>
      <3>1. Len(events'[t]) = n - 1 /\ \A i \in 1 .. n - 1 : events'[t][i] = events[t][i]
        BY <2>1, <2>6
      <3>2. n # 0
        BY <2>6, <1>0 DEF Typed
      <3>3. n \in Nat \ {0} /\ top \in Int
        BY <2>4, <3>2
      <3> HIDE DEF n, top
      <3>4. /\ n - 1 <= top - 1
            /\ \A i \in 1 .. n - 1 : events'[t][i] = top - 1 - (n - 1) + i
        BY <2>3, <3>1, <3>3, OneLess
      <3> QED  BY <2>4, <3>1, <3>4
    <2> QED  BY <2>5, <2>6
  <1>9. CASE PopTimemory(t)
    <2>1. pc[t] = "popTimemory" /\ stack[t] # << >>
      BY <1>0, <1>9 DEF PopTimemory, Places
    <2>2. /\ events'[t] = events[t] /\ pc'[t] = "user"
          /\ Len(stack'[t]) = Len(stack[t]) - 1
      BY <1>0, <1>9, <2>1, PopTimemoryEffect
    <2> QED  BY <1>0, <1>3, <2>1, <2>2 DEF Top
  <1> QED  BY <1>4, <1>5, <1>6, <1>7, <1>8, <1>9 DEF Region

(* The last bundle of the name is that of the innermost call: the last one.    *)
LEMMA LastBundle ==
    ASSUME Known, NEW t \in Thread, BundlesOn(t), GoesOffOnce, state # "Finalized", enabled,
           PopTimemory(t)
    PROVE  /\ stack[t] # << >> /\ Len(stack[t]) \in Nat \ {0}
           /\ pc[t] = "popTimemory" /\ pc'[t] = "user"
           /\ Len(stack'[t]) = Len(stack[t]) - 1
           /\ \A i \in 1 .. Len(stack[t]) - 1 : stack'[t][i] = stack[t][i]
           /\ bundles[t] = << >> => bundles'[t] = bundles[t]
           /\ bundles[t] # << >> =>
                 /\ Len(bundles[t]) \in Nat \ {0}
                 /\ bundles[t][Len(bundles[t])].depth = Len(stack[t])
                 /\ Len(bundles'[t]) = Len(bundles[t]) - 1
                 /\ \A i \in 1 .. Len(bundles[t]) - 1 : bundles'[t][i] = bundles[t][i]
  <1>0. Typed /\ Places(t) /\ Len(bundles[t]) \in Nat
        /\ (bundles[t] = << >> <=> Len(bundles[t]) = 0)
    BY DEF Known, Typed
  <1>1. pc[t] = "popTimemory" /\ stack[t] # << >>
    BY <1>0 DEF PopTimemory, Places
  <1> DEFINE n == Len(bundles[t])
             top == stack[t][Len(stack[t])]
  <1>2. /\ pc'[t] = "user" /\ Len(stack[t]) \in Nat \ {0}
        /\ Len(stack'[t]) = Len(stack[t]) - 1
        /\ \A i \in 1 .. Len(stack[t]) - 1 : stack'[t][i] = stack[t][i]
        /\ \/ /\ bundles'[t] = bundles[t]
              /\ \/ ProfilePopDisabled(t)
                 \/ \A i \in 1 .. n : bundles[t][i].name # top
           \/ \E k \in 1 .. n :
                 /\ bundles[t][k].name = top
                 /\ \A i \in 1 .. n : bundles[t][i].name = top => i <= k
                 /\ Len(bundles'[t]) = n - 1
                 /\ n \in Nat \ {0}
                 /\ \A i \in 1 .. n - 1 :
                       bundles'[t][i] = IF i < k THEN bundles[t][i] ELSE bundles[t][i + 1]
    BY <1>0, <1>1, PopTimemoryEffect
  <1>3. CASE bundles[t] = << >>
    BY <1>0, <1>1, <1>2, <1>3
  <1>4. CASE bundles[t] # << >>
    <2>1. n \in Nat \ {0} /\ n \in 1 .. n
      BY <1>0, <1>4
    <2>2. BundleTop(t) = Len(stack[t])
      BY <1>1 DEF BundleTop
    <2>3. bundles[t][n].depth = BundleTop(t) - n + n
          /\ bundles[t][n].name = stack[t][bundles[t][n].depth]
      BY <2>1 DEF BundlesOn, Stacked
    <2>4. bundles[t][n].depth = Len(stack[t]) /\ bundles[t][n].name = top
      BY <1>2, <2>1, <2>2, <2>3
    <2>5. PICK k \in 1 .. n :
             /\ \A i \in 1 .. n : bundles[t][i].name = top => i <= k
             /\ Len(bundles'[t]) = n - 1
             /\ \A i \in 1 .. n - 1 :
                   bundles'[t][i] = IF i < k THEN bundles[t][i] ELSE bundles[t][i + 1]
      <3>1. ~ProfilePopDisabled(t)
        BY DEF ProfilePopDisabled
      <3> QED  BY <1>2, <2>1, <2>4, <3>1
    <2>6. k = n
      BY <2>1, <2>4, <2>5
    <2> HIDE DEF n
    <2>7. \A i \in 1 .. n - 1 : bundles'[t][i] = bundles[t][i]
      BY <2>1, <2>5, <2>6
    <2> QED  BY <1>1, <1>2, <1>4, <2>1, <2>4, <2>5, <2>7 DEF n
  <1> QED  BY <1>3, <1>4

(* Bundles that are Stacked: the same, or the last one gone with its call.     *)
LEMMA StackedStay ==
    ASSUME NEW b, NEW c, NEW r, NEW s, NEW n \in Nat, NEW top \in Nat, NEW m,
           Stacked(b, s, n, top), m = n \/ (m = n - 1 /\ n > 0),
           \A i \in 1 .. m : c[i] = b[i],
           \A j \in 1 .. (top - (n - m)) : r[j] = s[j]
    PROVE  Stacked(c, r, m, top - (n - m))
  <1>1. m \in Nat /\ m <= n /\ n - m \in Nat /\ m <= top - (n - m)
    BY DEF Stacked
  <1>2. ASSUME NEW i \in 1 .. m
        PROVE  c[i].depth = top - (n - m) - m + i /\ c[i].name = r[c[i].depth]
    <2>1. i \in 1 .. n /\ c[i] = b[i]
      BY <1>1
    <2>2. b[i].depth = top - n + i /\ b[i].name = s[b[i].depth]
      BY <2>1 DEF Stacked
    <2>3. top - n + i \in 1 .. (top - (n - m))
      BY <1>1 DEF Stacked
    <2>4. top - (n - m) - m + i = top - n + i
      BY <1>1
    <2> QED  BY <2>1, <2>2, <2>3, <2>4
  <1> QED  BY <1>1, <1>2 DEF Stacked

(* Bundles that are Stacked, and one for the next call.                        *)
LEMMA StackedOneMore ==
    ASSUME NEW b, NEW c, NEW s, NEW n \in Nat, NEW top \in Nat, Stacked(b, s, n, top),
           \A i \in 1 .. n : c[i] = b[i],
           c[n + 1].depth = top + 1, c[n + 1].name = s[top + 1]
    PROVE  Stacked(c, s, n + 1, top + 1)
  <1>1. ASSUME NEW i \in 1 .. n + 1
        PROVE  c[i].depth = top + 1 - (n + 1) + i /\ c[i].name = s[c[i].depth]
    <2>1. CASE i = n + 1
      BY <2>1
    <2>2. CASE i \in 1 .. n
      BY <2>2 DEF Stacked
    <2> QED  BY <2>1, <2>2
  <1> QED  BY <1>1 DEF Stacked

(* A call pushes the bundle of its name, and removes it when it returns.       *)
LEMMA StepBundlesOn ==
    ASSUME Known, NEW t \in Thread, Region(t), BundlesOn(t)
    PROVE  BundlesOn(t)'
  <1> DEFINE b == bundles[t]
             n == Len(b)
             s == stack[t]
             top == BundleTop(t)
  <1>0. /\ Typed /\ Places(t) /\ state \in {"Init", "Active", "Finalized"}
        /\ Len(s) \in Nat /\ n \in Nat
        /\ s # << >> => Len(s) > 0
        /\ b = << >> <=> n = 0
    BY DEF Known, WindowInv, WindowTypeOK, Typed
  <1>1. /\ state' = state /\ enabled' = enabled /\ settings' = settings
        /\ GoesOffOnce' <=> GoesOffOnce
    BY DEF Region, Call, PushTimemory, PushPerfetto, Return, PopPerfetto, PopTimemory,
           windowVars, GoesOffOnce
  <1>2. SUFFICES ASSUME GoesOffOnce, state # "Finalized", enabled
                 PROVE  Stacked(b, s, n, top)'
    BY <1>1 DEF BundlesOn
  <1>3. Stacked(b, s, n, top)
    BY <1>2 DEF BundlesOn
  <1>4. ASSUME NEW k \in Int, Len(s') \in Nat, top' = k, k >= 0, b' = b, n = 0
        PROVE  Stacked(b, s, n, top)'
    BY <1>4 DEF Stacked
  <1>5. ASSUME b' = b, top' = top, top \in Nat, \A j \in 1 .. top : s'[j] = s[j]
        PROVE  Stacked(b, s, n, top)'
    <2>1. n' = n /\ \A i \in 1 .. n : b'[i] = b[i]
      BY <1>5
    <2>2. \A j \in 1 .. top - (n - n) : s'[j] = s[j]
      BY <1>0, <1>5
    <2>3. top - (n - n) = top
      BY <1>0, <1>5
    <2> HIDE DEF b, s, n, top
    <2>4. Stacked(b', s', n, top - (n - n))
      BY <1>0, <1>3, <1>5, <2>1, <2>2, StackedStay
    <2> QED  BY <1>5, <2>1, <2>3, <2>4
  <1>6. CASE Call(t)
    <2>1. /\ b' = b /\ Len(s') = Len(s) + 1 /\ pc[t] = "user"
          /\ pc'[t] = (IF state = "Active" THEN "pushTimemory" ELSE "user")
          /\ \A j \in 1 .. Len(s) : s'[j] = s[j]
      BY <1>0, <1>2, <1>6, CallEffect
    <2>2. CASE state = "Active"
      <3>1. top' = top /\ top = Len(s)
        BY <1>0, <2>1, <2>2 DEF BundleTop
      <3> QED  BY <1>0, <1>5, <2>1, <3>1
    <2>3. CASE state = "Init"
      <3>1. top' = Len(s) + 1 /\ n = 0
        BY <1>0, <2>1, <2>3 DEF BundleTop, Places
      <3> QED  BY <1>0, <1>4, <2>1, <3>1
    <2> QED  BY <1>0, <1>2, <2>2, <2>3
  <1>7. CASE PushTimemory(t)
    <2>1. pc[t] = "pushTimemory" /\ s # << >>
      BY <1>0, <1>7 DEF PushTimemory, Places
    <2>2. /\ pc'[t] = "pushPerfetto" /\ s' = s
          /\ Len(b') = n + 1 /\ \A i \in 1 .. n : b'[i] = b[i]
          /\ b'[n + 1].depth = Len(s) /\ b'[n + 1].name = s[Len(s)]
      BY <1>0, <1>2, <1>7, <2>1, PushTimemoryEffect
    <2>3. top + 1 = Len(s) /\ top \in Nat /\ top' = top + 1
      BY <1>0, <2>1, <2>2 DEF BundleTop
    <2>4. b'[n + 1].depth = top + 1 /\ b'[n + 1].name = s[top + 1]
      BY <2>2, <2>3
    <2>5. Stacked(b', s, n + 1, top + 1)
      <3> HIDE DEF b, s, n, top
      <3> QED  BY <1>0, <1>3, <2>2, <2>3, <2>4, StackedOneMore
    <2> QED  BY <2>2, <2>3, <2>5
  <1>8. CASE PushPerfetto(t)
    <2>1. pc[t] = "pushPerfetto" /\ pc'[t] = "user" /\ s' = s /\ b' = b
      BY <1>0, <1>8, PushPerfettoEffect
    <2>2. top' = top /\ top \in Nat
      BY <1>0, <2>1 DEF BundleTop
    <2> QED  BY <1>5, <2>1, <2>2
  <1>9. CASE Return(t)
    <2>1. /\ b' = b /\ pc[t] = "user"
          /\ ~Ignored(t) => s' = s /\ pc'[t] = "popPerfetto"
          /\ Ignored(t) => pc'[t] = "user" /\ Len(s') = Len(s) - 1
          /\ Len(s) > 0
      BY <1>0, <1>9, ReturnEffect
    <2>2. CASE Ignored(t)
      <3>1. state = "Init"
        BY <1>0, <1>2, <2>2 DEF Ignored, CategoryPopDisabled
      <3>2. top' = Len(s) - 1 /\ n = 0
        BY <1>0, <2>1, <2>2, <3>1 DEF BundleTop, Places
      <3> QED  BY <1>0, <1>4, <2>1, <2>2, <3>2
    <2>3. CASE ~Ignored(t)
      <3>1. top' = top /\ top \in Nat
        BY <1>0, <2>1, <2>3 DEF BundleTop
      <3> QED  BY <1>5, <2>1, <2>3, <3>1
    <2> QED  BY <2>2, <2>3
  <1>10. CASE PopPerfetto(t)
    <2>1. pc[t] = "popPerfetto" /\ pc'[t] = "popTimemory" /\ s' = s /\ b' = b
      BY <1>0, <1>10, PopPerfettoEffect
    <2>2. top' = top /\ top \in Nat
      BY <1>0, <2>1 DEF BundleTop
    <2> QED  BY <1>5, <2>1, <2>2
  <1>11. CASE PopTimemory(t)
    <2>1. /\ Len(s) \in Nat \ {0} /\ pc[t] = "popTimemory" /\ pc'[t] = "user"
          /\ Len(s') = Len(s) - 1 /\ \A j \in 1 .. Len(s) - 1 : s'[j] = s[j]
          /\ b = << >> => b' = b
          /\ b # << >> =>
                /\ Len(b') = n - 1
                /\ \A i \in 1 .. n - 1 : b'[i] = b[i]
      BY <1>2, <1>11, LastBundle
    <2>2. top = Len(s) /\ top' = top - 1 /\ top \in Nat \ {0}
      BY <2>1 DEF BundleTop
    <2>3. CASE b = << >>
      BY <1>0, <1>4, <2>1, <2>2, <2>3
    <2>4. CASE b # << >>
      <3>1. n > 0 /\ top - (n - (n - 1)) = top - 1 /\ n' = n - 1 /\ top \in Nat
        BY <1>0, <2>1, <2>2, <2>4
      <3>2. \A j \in 1 .. top - (n - (n - 1)) : s'[j] = s[j]
        BY <2>1, <2>2, <3>1
      <3>3. Stacked(b', s', n - 1, top - (n - (n - 1)))
        <4>1. \A i \in 1 .. n - 1 : b'[i] = b[i]
          BY <2>1, <2>4
        <4> HIDE DEF b, s, n, top
        <4> QED  BY <1>0, <1>3, <3>1, <3>2, <4>1, StackedStay
      <3> QED  BY <2>2, <3>1, <3>3
    <2> QED  BY <2>3, <2>4
  <1> QED  BY <1>6, <1>7, <1>8, <1>9, <1>10, <1>11 DEF Region

(* Neither the steps of the windows nor those of the other threads matter.     *)
LEMMA StepOn == OnInv /\ [Next]_vars => OnInv'
  <1> SUFFICES ASSUME OnInv, [Next]_vars PROVE OnInv'
    OBVIOUS
  <1>1. Known /\ Known' /\ Typed /\ WindowInv /\ OffAtEnd
        /\ \A t \in Thread : EventsOn(t) /\ BundlesOn(t)
    BY StepKnown DEF OnInv, Known
  <1>2. SUFFICES ASSUME NEW t \in Thread PROVE (EventsOn(t) /\ BundlesOn(t))'
    BY <1>1 DEF OnInv
  <1>3. CASE WindowNext /\ UNCHANGED regionVars
    <2>1. GoesOffOnce' /\ state' # "Finalized" /\ enabled' =>
              GoesOffOnce /\ state # "Finalized" /\ enabled
      BY <1>1, <1>3, StepOff
    <2>2. UNCHANGED <<events, bundles, stack, pc>>
      BY <1>3 DEF regionVars
    <2>3. EventsOn(t)'
      BY <1>1, <2>1, <2>2 DEF EventsOn, Top
    <2>4. BundlesOn(t)'
      BY <1>1, <2>1, <2>2 DEF BundlesOn, BundleTop
    <2> QED  BY <2>3, <2>4
  <1>4. ASSUME NEW u \in Thread, Region(u) PROVE (EventsOn(t) /\ BundlesOn(t))'
    <2>1. CASE u = t
      BY <1>1, <1>4, <2>1, StepEventsOn, StepBundlesOn
    <2>2. CASE u # t
      <3>1. UNCHANGED windowVars /\ stack'[t] = stack[t] /\ pc'[t] = pc[t]
            /\ bundles'[t] = bundles[t] /\ events'[t] = events[t]
        BY <1>1, <1>4, <2>2, StepOthers
      <3>2. state' = state /\ enabled' = enabled /\ (GoesOffOnce' <=> GoesOffOnce)
        BY <3>1 DEF windowVars, GoesOffOnce
      <3>3. EventsOn(t)'
        BY <1>1, <3>1, <3>2 DEF EventsOn, Top
      <3>4. BundlesOn(t)'
        BY <1>1, <3>1, <3>2 DEF BundlesOn, BundleTop
      <3> QED  BY <3>3, <3>4
    <2> QED  BY <2>1, <2>2
  <1>5. CASE UNCHANGED vars
    <2>1. UNCHANGED <<events, bundles, stack, pc, state, enabled, settings>>
      BY <1>5 DEF vars, windowVars, regionVars
    <2> QED  BY <1>1, <2>1 DEF EventsOn, BundlesOn, Top, BundleTop, GoesOffOnce
  <1> QED  BY <1>3, <1>4, <1>5 DEF Next

(* At the start there are no calls.                                            *)
LEMMA InitOn == Init => OnInv
  <1> SUFFICES ASSUME Init PROVE OnInv
    OBVIOUS
  <1>1. \A t \in Thread : stack[t] = << >> /\ events[t] = << >> /\ bundles[t] = << >>
                          /\ pc[t] = "user"
    BY DEF Init
  <1>2. \A t \in Thread : EventsOn(t) /\ BundlesOn(t)
    <2>1. SUFFICES ASSUME NEW t \in Thread PROVE EventsOn(t) /\ BundlesOn(t)
      OBVIOUS
    <2>2. Len(events[t]) = 0 /\ Len(bundles[t]) = 0 /\ Top(t) = 0 /\ BundleTop(t) = 0
      BY <1>1 DEF Top, BundleTop
    <2> QED  BY <2>2 DEF EventsOn, BundlesOn, Stacked
  <1> QED  BY <1>2, InitKnown DEF OnInv

(* The last event is that of the innermost call, and so is the bundle found.   *)
LEMMA StepEndsItsOwn ==
    ASSUME OnInv, Next, GoesOffOnce, enabled, state # "Finalized", NEW t \in Thread
    PROVE  EndsItsOwn(t)
  <1>1. Known /\ Typed /\ Places(t) /\ EventsOn(t) /\ BundlesOn(t)
        /\ Len(events[t]) \in Nat /\ Len(bundles[t]) \in Nat
    BY DEF OnInv, Known, Typed
  <1>2. ASSUME events'[t] = events[t], bundles'[t] = bundles[t] PROVE EndsItsOwn(t)
    BY <1>1, <1>2 DEF EndsItsOwn
  <1>3. CASE WindowNext /\ UNCHANGED regionVars
    BY <1>2, <1>3 DEF regionVars
  <1>4. ASSUME NEW u \in Thread, Region(u), u # t PROVE EndsItsOwn(t)
    BY <1>1, <1>2, <1>4, StepOthers
  <1>5. ASSUME Region(t) PROVE EndsItsOwn(t)
    <2>1. CASE Call(t)
      BY <1>1, <1>2, <2>1, CallEffect
    <2>2. CASE PushTimemory(t)
      <3>1. stack[t] # << >>
        BY <1>1, <2>2 DEF PushTimemory, Places
      <3>2. events'[t] = events[t] /\ Len(bundles'[t]) = Len(bundles[t]) + 1
        BY <1>1, <2>2, <3>1, PushTimemoryEffect
      <3> QED  BY <1>1, <3>2 DEF EndsItsOwn
    <2>3. CASE PushPerfetto(t)
      <3>1. bundles'[t] = bundles[t] /\ Len(events'[t]) = Len(events[t]) + 1
        BY <1>1, <2>3, PushPerfettoEffect
      <3> QED  BY <1>1, <3>1 DEF EndsItsOwn
    <2>4. CASE Return(t)
      BY <1>1, <1>2, <2>4, ReturnEffect
    <2>5. CASE PopPerfetto(t)
      <3>1. /\ pc[t] = "popPerfetto" /\ bundles'[t] = bundles[t]
            /\ events[t] = << >> => events'[t] = events[t]
        BY <1>1, <2>5, PopPerfettoEffect DEF TracingPopDisabled
      <3>2. CASE events[t] = << >>
        BY <1>2, <3>1, <3>2
      <3>3. CASE events[t] # << >>
        <4>1. Len(events[t]) \in 1 .. Len(events[t]) /\ Top(t) = Len(stack[t])
              /\ Len(stack[t]) \in Nat
          BY <1>1, <3>1, <3>3 DEF Top, Typed
        <4>2. events[t][Len(events[t])] = Top(t) - Len(events[t]) + Len(events[t])
          BY <1>1, <4>1 DEF EventsOn
        <4>3. Last(events[t]) = Len(stack[t])
          BY <1>1, <4>1, <4>2 DEF Last
        <4> QED  BY <1>1, <3>1, <4>3 DEF EndsItsOwn
      <3> QED  BY <3>2, <3>3
    <2>6. CASE PopTimemory(t)
      <3>1. pc[t] = "popTimemory" /\ stack[t] # << >>
        BY <1>1, <2>6 DEF PopTimemory, Places
      <3>2. events'[t] = events[t]
        BY <1>1, <2>6, <3>1, PopTimemoryEffect
      <3>3. CASE bundles[t] = << >>
        BY <1>1, <1>2, <2>6, <3>2, <3>3, LastBundle
      <3>4. CASE bundles[t] # << >>
        <4> DEFINE n == Len(bundles[t])
        <4>1. /\ bundles[t][n].depth = Len(stack[t])
              /\ n \in Nat \ {0} /\ Len(bundles'[t]) = n - 1
              /\ \A i \in 1 .. n - 1 : bundles'[t][i] = bundles[t][i]
          BY <1>1, <2>6, <3>4, LastBundle
        <4>2. Typed'
          BY <1>1, <2>6, <3>1, PopTimemoryEffect
        <4>3. DOMAIN bundles[t] = 1 .. n /\ DOMAIN bundles'[t] = 1 .. n - 1
          BY <1>1, <4>1, <4>2 DEF Typed
        <4>4. ASSUME NEW i \in 1 .. n,
                     ~ \E j \in 1 .. n - 1 : bundles'[t][j] = bundles[t][i]
              PROVE  bundles[t][i].depth = Len(stack[t])
          <5>1. i = n
            <6> HIDE DEF n
            <6>1. ~(i \in 1 .. n - 1)
              BY <4>1, <4>4
            <6> QED  BY <4>1, <6>1
          <5> QED  BY <4>1, <5>1
        <4>5. ~(Len(events'[t]) < Len(events[t]))
          BY <1>1, <3>2
        <4>6. \A i \in DOMAIN bundles[t] :
                 (~ \E j \in DOMAIN bundles'[t] : bundles'[t][j] = bundles[t][i])
                 => bundles[t][i].depth = Len(stack[t])
          BY <4>3, <4>4
        <4> QED  BY <4>5, <4>6 DEF EndsItsOwn
      <3> QED  BY <3>3, <3>4
    <2> QED  BY <1>5, <2>1, <2>2, <2>3, <2>4, <2>5, <2>6 DEF Region
  <1> QED  BY <1>3, <1>4, <1>5 DEF Next

(* While a category that goes off once is on, a call ends its own region only, *)
(* for any settings, threads, names and depths.                                *)
THEOREM OwnRegionsEnd == Spec => EndsOnlyItsOwnWhileOn
  <1>1. OnInv /\ [Next]_vars =>
            [GoesOffOnce /\ enabled /\ state # "Finalized" =>
                \A t \in Thread : EndsItsOwn(t)]_vars
    BY StepEndsItsOwn
  <1> QED  BY <1>1, InitOn, StepOn, PTL DEF Spec, EndsOnlyItsOwnWhileOn

-----------------------------------------------------------------------------
(* The regions implement RegionTrace                                           *)

(* A sequence that is not empty is its front and its last element.             *)
LEMMA FrontAppend ==
    ASSUME NEW S, NEW s \in Seq(S), NEW c \in S
    PROVE  /\ Front(Append(s, c)) = s
           /\ s # << >> => Append(Front(s), Last(s)) = s
  <1>1. Front(Append(s, c)) = s
    <2> DEFINE a == Append(s, c)
    <2>1. /\ a \in Seq(S) /\ a # << >> /\ Len(a) = Len(s) + 1
          /\ \A i \in 1 .. Len(s) : a[i] = s[i]
      BY AppendOf
    <2> HIDE DEF a
    <2>2. Front(a) \in Seq(S) /\ Len(Front(a)) = Len(s)
          /\ \A i \in 1 .. Len(s) : Front(a)[i] = a[i]
      BY <2>1, FrontOf
    <2> QED  BY <2>1, <2>2 DEF a
  <1>2. ASSUME s # << >> PROVE Append(Front(s), Last(s)) = s
    <2> DEFINE f == Front(s)
    <2>1. /\ f \in Seq(S) /\ Len(f) = Len(s) - 1 /\ Len(s) \in Nat \ {0}
          /\ \A i \in 1 .. Len(s) - 1 : f[i] = s[i]
          /\ Last(s) = s[Len(s)] /\ Last(s) \in S
      BY <1>2, FrontOf
    <2> HIDE DEF f
    <2> QED  BY <2>1 DEF f
  <1> QED  BY <1>1, <1>2

(* The elements of a sequence, with one more and without the last.             *)
LEMMA ElementsOf ==
    ASSUME NEW S, NEW s \in Seq(S), NEW r \in Seq(S)
    PROVE  /\ Len(r) = Len(s) + 1 /\ (\A i \in 1 .. Len(s) : r[i] = s[i]) =>
                 ToSet(r) = ToSet(s) \cup {r[Len(s) + 1]}
           /\ Len(r) = Len(s) - 1 /\ (\A i \in 1 .. Len(s) - 1 : r[i] = s[i]) =>
                 /\ ToSet(r) \subseteq ToSet(s)
                 /\ (\A i \in 1 .. Len(s) - 1 : s[i] # s[Len(s)]) =>
                       ToSet(r) = ToSet(s) \ {s[Len(s)]}
  <1> USE DEF ToSet
  <1>1. /\ DOMAIN r = 1 .. Len(r) /\ DOMAIN s = 1 .. Len(s)
        /\ Len(s) \in Nat /\ Len(r) \in Nat
    OBVIOUS
  <1>2. ASSUME Len(r) = Len(s) + 1, \A i \in 1 .. Len(s) : r[i] = s[i]
        PROVE  ToSet(r) = ToSet(s) \cup {r[Len(s) + 1]}
    <2>1. 1 .. Len(r) = (1 .. Len(s)) \cup {Len(s) + 1}
      BY <1>1, <1>2
    <2> QED  BY <1>1, <1>2, <2>1
  <1>3. ASSUME Len(r) = Len(s) - 1, \A i \in 1 .. Len(s) - 1 : r[i] = s[i]
        PROVE  /\ ToSet(r) \subseteq ToSet(s)
               /\ (\A i \in 1 .. Len(s) - 1 : s[i] # s[Len(s)]) =>
                     ToSet(r) = ToSet(s) \ {s[Len(s)]}
    <2>1. 1 .. Len(s) = (1 .. Len(r)) \cup {Len(s)}
      BY <1>1, <1>3
    <2> QED  BY <1>1, <1>3, <2>1
  <1> QED  BY <1>2, <1>3

(* What the calls are to RegionTrace: as many as there should be events.       *)
LEMMA CallsOf ==
    ASSUME Typed, NEW t \in Thread, Places(t)
    PROVE  Calls(t) \in Seq(Name) /\ Len(Calls(t)) = Top(t) /\ Top(t) \in Nat
  <1>1. stack[t] \in Seq(Name) /\ Len(stack[t]) \in Nat
    BY DEF Typed
  <1>2. CASE pc[t] \in {"pushTimemory", "pushPerfetto", "popTimemory"}
    <2>1. stack[t] # << >>
      BY <1>2 DEF Places
    <2> QED  BY <1>1, <1>2, <2>1, FrontOf DEF Calls, Top
  <1>3. CASE ~(pc[t] \in {"pushTimemory", "pushPerfetto", "popTimemory"})
    BY <1>1, <1>3 DEF Calls, Top
  <1> QED  BY <1>2, <1>3

Stutters(t) == Calls(t)' = Calls(t) /\ Open(t)' = Open(t)
Enters(t) ==
    /\ \E n \in Name : Calls(t)' = Append(Calls(t), n)
    /\ Open(t)' = Open(t) \/ Open(t)' = Open(t) \cup {Len(Calls(t)) + 1}
Leaves(t) ==
    /\ Calls(t) # << >> /\ Calls(t)' = Front(Calls(t))
    /\ \/ Open(t)' = Open(t) \ {Len(Calls(t))}
       \/ ~Profiling /\ Open(t)' \subseteq Open(t)

(* What each operation of a thread is to RegionTrace.                          *)
LEMMA StepTraced ==
    ASSUME OnInv, GoesOffOnce, NEW t \in Thread, Region(t)
    PROVE  Stutters(t) \/ Enters(t) \/ Leaves(t)
  <1>1. /\ Known /\ Typed /\ Places(t) /\ EventsOn(t)
        /\ state \in {"Init", "Active", "Finalized"}
    BY DEF OnInv, Known, WindowInv, WindowTypeOK
  <1>2. /\ stack[t] \in Seq(Name) /\ Len(stack[t]) \in Nat /\ Len(events[t]) \in Nat
        /\ events[t] \in Seq(Nat)
    BY <1>1 DEF Typed
  <1>3. CASE Call(t)
    <2>1. /\ events'[t] = events[t] /\ pc[t] = "user"
          /\ pc'[t] = (IF enabled /\ state = "Active" THEN "pushTimemory" ELSE "user")
      BY <1>1, <1>3, CallEffect
    <2>2. PICK n \in Name : stack'[t] = Append(stack[t], n)
      BY <1>1, <1>3, CallEffect
    <2>3. Calls(t) = stack[t] /\ Open(t)' = Open(t)
      BY <2>1 DEF Calls, Open
    <2>4. CASE enabled /\ state = "Active"
      <3>1. Calls(t)' = Front(Append(stack[t], n))
        BY <2>1, <2>2, <2>4 DEF Calls
      <3>2. Calls(t)' = stack[t]
        BY <1>2, <3>1, FrontAppend
      <3> QED  BY <2>3, <3>2 DEF Stutters
    <2>5. CASE ~(enabled /\ state = "Active")
      <3>1. Calls(t)' = Append(stack[t], n)
        BY <2>1, <2>2, <2>5 DEF Calls
      <3> QED  BY <2>3, <3>1 DEF Enters
    <2> QED  BY <2>4, <2>5
  <1>4. CASE PushTimemory(t)
    <2>1. pc[t] = "pushTimemory" /\ stack[t] # << >>
      BY <1>1, <1>4 DEF PushTimemory, Places
    <2>2. pc'[t] = "pushPerfetto" /\ stack'[t] = stack[t] /\ events'[t] = events[t]
      BY <1>1, <1>4, <2>1, PushTimemoryEffect
    <2> QED  BY <2>1, <2>2 DEF Stutters, Calls, Open
  <1>5. CASE PushPerfetto(t)
    <2>1. /\ pc[t] = "pushPerfetto" /\ pc'[t] = "user" /\ stack'[t] = stack[t]
          /\ ~enabled => events'[t] = events[t]
          /\ enabled => /\ Len(events'[t]) = Len(events[t]) + 1
                        /\ \A i \in 1 .. Len(events[t]) : events'[t][i] = events[t][i]
                        /\ events'[t][Len(events[t]) + 1] = Len(stack[t])
          /\ Typed'
      BY <1>1, <1>5, PushPerfettoEffect
    <2>2. stack[t] # << >>
      BY <1>1, <2>1 DEF Places
    <2>3. /\ Calls(t) = Front(stack[t]) /\ Calls(t)' = stack[t]
          /\ Len(Calls(t)) + 1 = Len(stack[t])
      <3>1. Calls(t) = Front(stack[t]) /\ Calls(t)' = stack[t]
        BY <2>1 DEF Calls
      <3> QED  BY <1>2, <2>2, <3>1, FrontOf
    <2>4. Last(stack[t]) \in Name /\ Append(Front(stack[t]), Last(stack[t])) = stack[t]
      BY <1>2, <2>2, FrontOf, FrontAppend
    <2>5. CASE ~enabled
      <3>1. Open(t)' = Open(t)
        BY <2>1, <2>5 DEF Open
      <3> QED  BY <2>3, <2>4, <3>1 DEF Enters
    <2>6. CASE enabled
      <3>1. events'[t] \in Seq(Nat)
        BY <2>1 DEF Typed
      <3>2. Open(t)' = Open(t) \cup {Len(stack[t])}
        <4> DEFINE e == events[t]
                   f == events'[t]
        <4>1. /\ Len(f) = Len(e) + 1 /\ \A i \in 1 .. Len(e) : f[i] = e[i]
              /\ f[Len(e) + 1] = Len(stack[t])
          BY <2>1, <2>6
        <4>2. e \in Seq(Nat) /\ f \in Seq(Nat)
          BY <1>2, <3>1
        <4> HIDE DEF e, f
        <4>3. ToSet(f) = ToSet(e) \cup {f[Len(e) + 1]}
          BY <4>1, <4>2, ElementsOf
        <4> QED  BY <4>1, <4>3 DEF Open, e, f
      <3> QED  BY <2>3, <2>4, <3>2 DEF Enters
    <2> QED  BY <2>5, <2>6
  <1>6. CASE Return(t)
    <2>1. /\ events'[t] = events[t] /\ pc[t] = "user" /\ stack[t] # << >>
          /\ ~Ignored(t) => stack' = stack /\ pc'[t] = "popPerfetto"
          /\ Ignored(t) => stack'[t] = Front(stack[t]) /\ pc'[t] = "user"
      BY <1>1, <1>6, ReturnEffect
    <2>2. Calls(t) = stack[t] /\ Open(t)' = Open(t)
      BY <2>1 DEF Calls, Open
    <2>3. CASE ~Ignored(t)
      <3>1. Calls(t)' = stack[t]
        BY <2>1, <2>3 DEF Calls
      <3> QED  BY <2>2, <3>1 DEF Stutters
    <2>4. CASE Ignored(t)
      <3>1. Calls(t)' = Front(stack[t])
        BY <2>1, <2>4 DEF Calls
      <3>2. CASE Profiling
        <4>1. state = "Init"
          BY <1>1, <2>4, <3>2 DEF Ignored, CategoryPopDisabled, Profiling
        <4>2. Open(t) = {}
          BY <1>1, <4>1 DEF Places, Open, ToSet
        <4> QED  BY <2>1, <2>2, <3>1, <4>2 DEF Leaves
      <3>3. CASE ~Profiling
        BY <2>1, <2>2, <3>1, <3>3 DEF Leaves
      <3> QED  BY <3>2, <3>3
    <2> QED  BY <2>3, <2>4
  <1>7. CASE PopPerfetto(t)
    <2>1. /\ pc[t] = "popPerfetto" /\ pc'[t] = "popTimemory" /\ stack'[t] = stack[t]
          /\ TracingPopDisabled(t) => events'[t] = events[t]
          /\ ~TracingPopDisabled(t) =>
                /\ events[t] = << >> => events'[t] = events[t]
                /\ events[t] # << >> =>
                      /\ Len(events[t]) \in Nat \ {0}
                      /\ Len(events'[t]) = Len(events[t]) - 1
                      /\ \A i \in 1 .. Len(events[t]) - 1 : events'[t][i] = events[t][i]
          /\ Typed'
      BY <1>1, <1>7, PopPerfettoEffect
    <2>2. /\ stack[t] # << >> /\ Calls(t) = stack[t] /\ Calls(t)' = Front(stack[t])
          /\ Top(t) = Len(stack[t])
      BY <1>1, <2>1 DEF Places, Calls, Top
    <2>3. CASE events'[t] = events[t]
      <3>1. Open(t)' = Open(t)
        BY <2>3 DEF Open
      <3>2. CASE Profiling
        <4>1. Open(t) = {}
          <5>1. ~TracingPopDisabled(t)
            BY <3>2 DEF TracingPopDisabled, Profiling
          <5>2. events[t] = << >>
            BY <2>1, <2>3, <5>1
          <5> QED  BY <5>2 DEF Open, ToSet
        <4> QED  BY <2>2, <3>1, <4>1 DEF Leaves
      <3>3. CASE ~Profiling
        BY <2>2, <3>1, <3>3 DEF Leaves
      <3> QED  BY <3>2, <3>3
    <2>4. CASE events'[t] # events[t]
      <3> DEFINE n == Len(events[t])
      <3>1. /\ n \in Nat \ {0} /\ Len(events'[t]) = n - 1
            /\ \A i \in 1 .. n - 1 : events'[t][i] = events[t][i]
        BY <2>1, <2>4
      <3>2. events'[t] \in Seq(Nat)
        BY <2>1 DEF Typed
      <3>3. CASE Profiling
        <4>1. \A i \in 1 .. n : events[t][i] = Len(stack[t]) - n + i
          BY <1>1, <2>2, <3>3 DEF EventsOn, Profiling
        <4>2. /\ events[t][n] = Len(stack[t])
              /\ \A i \in 1 .. n - 1 : events[t][i] # events[t][n]
          <5> HIDE DEF n
          <5>1. events[t][n] = Len(stack[t])
            BY <1>2, <3>1, <4>1
          <5>2. ASSUME NEW i \in 1 .. n - 1 PROVE events[t][i] # events[t][n]
            <6>1. i \in 1 .. n /\ i < n
              BY <3>1
            <6>2. events[t][i] = Len(stack[t]) - n + i
              BY <4>1, <6>1
            <6> QED  BY <1>2, <3>1, <5>1, <6>1, <6>2
          <5> QED  BY <5>1, <5>2
        <4>3. Open(t)' = Open(t) \ {Len(stack[t])}
          <5> DEFINE e == events[t]
                     f == events'[t]
          <5>1. /\ e \in Seq(Nat) /\ f \in Seq(Nat)
                /\ Len(f) = Len(e) - 1 /\ \A i \in 1 .. Len(e) - 1 : f[i] = e[i]
                /\ \A i \in 1 .. Len(e) - 1 : e[i] # e[Len(e)]
                /\ e[Len(e)] = Len(stack[t])
            BY <1>2, <3>1, <3>2, <4>2
          <5> HIDE DEF e, f
          <5>2. ToSet(f) = ToSet(e) \ {e[Len(e)]}
            BY <5>1, ElementsOf
          <5> QED  BY <5>1, <5>2 DEF Open, e, f
        <4> QED  BY <2>2, <4>3 DEF Leaves
      <3>4. CASE ~Profiling
        <4>1. Open(t)' \subseteq Open(t)
          BY <1>2, <3>1, <3>2, ElementsOf DEF Open
        <4> QED  BY <2>2, <3>4, <4>1 DEF Leaves
      <3> QED  BY <3>3, <3>4
    <2> QED  BY <2>3, <2>4
  <1>8. CASE PopTimemory(t)
    <2>1. pc[t] = "popTimemory" /\ stack[t] # << >>
      BY <1>1, <1>8 DEF PopTimemory, Places
    <2>2. events'[t] = events[t] /\ pc'[t] = "user" /\ stack'[t] = Front(stack[t])
      BY <1>1, <1>8, <2>1, PopTimemoryEffect
    <2> QED  BY <2>1, <2>2 DEF Stutters, Calls, Open
  <1> QED  BY <1>3, <1>4, <1>5, <1>6, <1>7, <1>8 DEF Region

(* A step of one thread changes its place in the two functions, and no other.  *)
LEMMA StepPlaces ==
    ASSUME Typed, NEW u \in Thread, Region(u)
    PROVE  /\ Profiling' = Profiling
           /\ TracedCalls[u] = Calls(u) /\ TracedOpen[u] = Open(u)
           /\ TracedCalls' = [TracedCalls EXCEPT ![u] = Calls(u)']
           /\ TracedOpen' = [TracedOpen EXCEPT ![u] = Open(u)']
           /\ Calls(u)' = Calls(u) => TracedCalls' = TracedCalls
           /\ Open(u)' = Open(u) => TracedOpen' = TracedOpen
  <1>1. Profiling' = Profiling
    BY DEF Region, Call, PushTimemory, PushPerfetto, Return, PopPerfetto, PopTimemory,
           windowVars, Profiling
  <1>2. ASSUME NEW t \in Thread, t # u PROVE Calls(t)' = Calls(t) /\ Open(t)' = Open(t)
    BY <1>2, StepOthers DEF Calls, Open, ToSet
  <1>3. /\ TracedCalls = [t \in Thread |-> Calls(t)]
        /\ TracedCalls' = [t \in Thread |-> Calls(t)']
        /\ TracedOpen = [t \in Thread |-> Open(t)]
        /\ TracedOpen' = [t \in Thread |-> Open(t)']
    BY DEF TracedCalls, TracedOpen
  <1>4. /\ TracedCalls' = [TracedCalls EXCEPT ![u] = Calls(u)']
        /\ Calls(u)' = Calls(u) => TracedCalls' = TracedCalls
    BY <1>2, <1>3
  <1>5. /\ TracedOpen' = [TracedOpen EXCEPT ![u] = Open(u)']
        /\ Open(u)' = Open(u) => TracedOpen' = TracedOpen
    BY <1>2, <1>3
  <1> QED  BY <1>1, <1>3, <1>4, <1>5

(* With a category that goes off once, the regions that perfetto records are   *)
(* those of RegionTrace: each ends when its own call returns.                  *)
THEOREM RegionsImplementTrace ==
    ASSUME \A s \in Settings : s.delay = 0 /\ s.periods = << >>
    PROVE  Spec => RegionsTraced
  <1>1. Init => Abstract!Init
    <2> SUFFICES ASSUME Init PROVE Abstract!Init
      OBVIOUS
    <2>1. Profiling = TRUE
      BY DEF Init, WindowInit, Profiling
    <2>2. \A t \in Thread : Calls(t) = << >> /\ Open(t) = {}
      BY DEF Init, Calls, Open, ToSet
    <2> QED  BY <2>1, <2>2 DEF Abstract!Init, TracedCalls, TracedOpen
  <1>2. OnInv /\ [Next]_vars => [Abstract!Next]_Abstract!vars
    <2> SUFFICES ASSUME OnInv, [Next]_vars PROVE [Abstract!Next]_Abstract!vars
      OBVIOUS
    <2>1. GoesOffOnce /\ WindowInv /\ OffAtEnd /\ Typed
      BY DEF OnInv, Known, WindowInv, WindowTypeOK, GoesOffOnce
    <2>2. UNCHANGED regionVars => UNCHANGED <<TracedCalls, TracedOpen>>
      BY DEF regionVars, TracedCalls, TracedOpen, Calls, Open
    <2>3. CASE WindowNext /\ UNCHANGED regionVars
      <3>1. Profiling' => Profiling
        BY <2>1, <2>3, StepOff DEF Profiling
      <3>2. CASE Profiling' = Profiling
        BY <2>2, <2>3, <3>2 DEF Abstract!vars
      <3>3. CASE Profiling' # Profiling
        <4>1. Profiling /\ Profiling' = FALSE
          BY <3>1, <3>3 DEF Profiling
        <4> QED  BY <2>2, <2>3, <4>1 DEF Abstract!Next, Abstract!End
      <3> QED  BY <3>2, <3>3
    <2>4. ASSUME NEW u \in Thread, Region(u) PROVE [Abstract!Next]_Abstract!vars
      <3>1. /\ Profiling' = Profiling
            /\ TracedCalls[u] = Calls(u) /\ TracedOpen[u] = Open(u)
            /\ TracedCalls' = [TracedCalls EXCEPT ![u] = Calls(u)']
            /\ TracedOpen' = [TracedOpen EXCEPT ![u] = Open(u)']
            /\ Calls(u)' = Calls(u) => TracedCalls' = TracedCalls
            /\ Open(u)' = Open(u) => TracedOpen' = TracedOpen
        BY <2>1, <2>4, StepPlaces
      <3>2. CASE Stutters(u)
        BY <3>1, <3>2 DEF Stutters, Abstract!vars
      <3>3. CASE Enters(u)
        <4>1. PICK n \in Name : Calls(u)' = Append(Calls(u), n)
          BY <3>3 DEF Enters
        <4>2. TracedCalls' = [TracedCalls EXCEPT ![u] = Append(TracedCalls[u], n)]
          BY <3>1, <4>1
        <4>3. \/ TracedOpen' = TracedOpen
              \/ TracedOpen' =
                    [TracedOpen EXCEPT ![u] = TracedOpen[u] \cup {Len(TracedCalls[u]) + 1}]
          BY <3>1, <3>3 DEF Enters
        <4>4. Abstract!Call(u)
          BY <3>1, <4>2, <4>3 DEF Abstract!Call, Abstract!Depth
        <4> QED  BY <4>4 DEF Abstract!Next
      <3>4. CASE Leaves(u)
        <4>1. /\ TracedCalls[u] # << >>
              /\ TracedCalls' = [TracedCalls EXCEPT ![u] = Front(TracedCalls[u])]
          BY <3>1, <3>4 DEF Leaves
        <4>2. \/ TracedOpen' =
                    [TracedOpen EXCEPT ![u] = TracedOpen[u] \ {Len(TracedCalls[u])}]
              \/ /\ ~Profiling
                 /\ \E left \in SUBSET TracedOpen[u] :
                       TracedOpen' = [TracedOpen EXCEPT ![u] = left]
          BY <3>1, <3>4 DEF Leaves
        <4>3. Abstract!Return(u)
          BY <3>1, <4>1, <4>2
          DEF Abstract!Return, Abstract!Depth, Abstract!Front, Front
        <4> QED  BY <4>3 DEF Abstract!Next
      <3> QED  BY <2>1, <2>4, <3>2, <3>3, <3>4, StepTraced
    <2>5. CASE UNCHANGED vars
      <3>1. UNCHANGED regionVars /\ Profiling' = Profiling
        BY <2>5 DEF vars, windowVars, Profiling
      <3> QED  BY <2>2, <3>1 DEF Abstract!vars
    <2> QED  BY <2>3, <2>4, <2>5 DEF Next
  <1> QED  BY <1>1, <1>2, InitOn, StepOn, PTL DEF Spec, RegionsTraced, Abstract!Spec

-----------------------------------------------------------------------------
(* When the category goes off, what is still open is ended by its own call.    *)
OffInv == Known /\ \A t \in Thread : Counted(t) /\ EventsOff(t) /\ BundlesOff(t)

(* What both proofs below start from: t counts, and its lengths are naturals.  *)
OffStep(t) ==
    /\ Typed /\ Places(t) /\ state \in {"Init", "Active"}
    /\ stack[t] \in Seq(Name) /\ Len(stack[t]) \in Nat
    /\ Len(events[t]) \in Nat /\ Len(bundles[t]) \in Nat
    /\ stack[t] # << >> <=> Len(stack[t]) > 0
    /\ tracing[t] = Len(events[t]) /\ profile[t] \in Int /\ profile[t] >= Len(bundles[t])
    /\ enabled => Len(events[t]) = Top(t)
    /\ state = "Init" => stack[t] = << >>

(* A return is ignored only by a thread that has nothing open.                 *)
LEMMA IgnoredOff ==
    ASSUME Annotated = {}, NEW t \in Thread, OffStep(t), Ignored(t), stack[t] # << >>
    PROVE  ~enabled /\ Len(events[t]) = 0 /\ Len(bundles[t]) = 0
  <1>1. state = "Active"
    BY DEF OffStep
  <1>2. CategoryPopDisabled(t)
    BY <1>1 DEF Ignored
  <1> QED  BY <1>2 DEF CategoryPopDisabled, OffStep

(* The counts are right: each pop that is not skipped finds its event.         *)
LEMMA StepCounted ==
    ASSUME Annotated = {}, NEW t \in Thread, OffStep(t), Region(t), t \notin early'
    PROVE  /\ tracing'[t] = Len(events'[t]) /\ profile'[t] >= Len(bundles'[t])
           /\ enabled => Len(events'[t]) = Top(t)'
  <1>0. OffStep(t) /\ Typed
    BY DEF OffStep
  <1>1. CASE Call(t)
    <2>1. /\ events'[t] = events[t] /\ bundles'[t] = bundles[t] /\ tracing'[t] = tracing[t]
          /\ profile'[t] = profile[t] /\ Len(stack'[t]) = Len(stack[t]) + 1
          /\ pc[t] = "user" /\ state # "Init"
          /\ pc'[t] = (IF enabled /\ state = "Active" THEN "pushTimemory" ELSE "user")
      BY <1>0, <1>1, CallEffect
    <2>2. enabled => Top(t)' = Top(t)
      BY <1>0, <2>1 DEF Top, OffStep
    <2> QED  BY <1>0, <2>1, <2>2 DEF OffStep
  <1>2. CASE PushTimemory(t)
    <2>1. pc[t] = "pushTimemory" /\ stack[t] # << >>
      BY <1>0, <1>2 DEF PushTimemory, Places, OffStep
    <2>2. /\ events'[t] = events[t] /\ tracing'[t] = tracing[t] /\ stack'[t] = stack[t]
          /\ pc'[t] = "pushPerfetto"
          /\ \/ bundles'[t] = bundles[t] /\ profile'[t] = profile[t]
             \/ Len(bundles'[t]) = Len(bundles[t]) + 1 /\ profile'[t] = profile[t] + 1
      BY <1>0, <1>2, <2>1, PushTimemoryEffect
    <2>3. Top(t)' = Top(t)
      BY <2>1, <2>2 DEF Top
    <2> QED  BY <1>0, <2>2, <2>3 DEF OffStep
  <1>3. CASE PushPerfetto(t)
    <2>1. /\ pc[t] = "pushPerfetto" /\ pc'[t] = "user" /\ stack'[t] = stack[t]
          /\ bundles'[t] = bundles[t] /\ profile'[t] = profile[t]
          /\ ~enabled => events'[t] = events[t] /\ tracing'[t] = tracing[t]
          /\ enabled => /\ Len(events'[t]) = Len(events[t]) + 1
                        /\ tracing'[t] = tracing[t] + 1
      BY <1>0, <1>3, PushPerfettoEffect
    <2>2. Top(t)' = Len(stack[t]) /\ Top(t) = Len(stack[t]) - 1
      BY <2>1 DEF Top
    <2> QED  BY <1>0, <2>1, <2>2 DEF OffStep
  <1>4. CASE Return(t)
    <2>1. /\ events'[t] = events[t] /\ bundles'[t] = bundles[t] /\ tracing'[t] = tracing[t]
          /\ profile'[t] = profile[t] /\ pc[t] = "user" /\ stack[t] # << >>
          /\ ~Ignored(t) => stack' = stack /\ pc'[t] = "popPerfetto"
      BY <1>0, <1>4, ReturnEffect
    <2>2. enabled => Top(t)' = Top(t)
      BY <1>0, <2>1, IgnoredOff DEF Top
    <2> QED  BY <1>0, <2>1, <2>2 DEF OffStep
  <1>5. CASE PopPerfetto(t)
    <2>1. /\ pc[t] = "popPerfetto" /\ pc'[t] = "popTimemory" /\ stack'[t] = stack[t]
          /\ bundles'[t] = bundles[t] /\ profile'[t] = profile[t]
          /\ TracingPopDisabled(t) => events'[t] = events[t] /\ tracing'[t] = tracing[t]
          /\ ~TracingPopDisabled(t) =>
                /\ tracing'[t] = tracing[t] - 1
                /\ events[t] # << >> => Len(events'[t]) = Len(events[t]) - 1
      BY <1>0, <1>5, PopPerfettoEffect
    <2>2. /\ Top(t) = Len(stack[t]) /\ Top(t)' = Top(t) - 1 /\ Len(stack[t]) > 0
      BY <1>0, <2>1 DEF Top, Places, OffStep
    <2>3. CASE TracingPopDisabled(t)
      BY <1>0, <2>1, <2>3 DEF OffStep, TracingPopDisabled
    <2>4. CASE ~TracingPopDisabled(t)
      <3>1. enabled \/ tracing[t] > 0
        BY <1>0, <2>4 DEF OffStep, TracingPopDisabled
      <3>2. Len(events[t]) > 0
        BY <1>0, <2>2, <3>1 DEF OffStep
      <3>3. events[t] # << >>
        BY <3>2
      <3> QED  BY <1>0, <2>1, <2>2, <2>4, <3>3 DEF OffStep
    <2> QED  BY <2>3, <2>4
  <1>6. CASE PopTimemory(t)
    <2>1. pc[t] = "popTimemory" /\ stack[t] # << >>
      BY <1>0, <1>6 DEF PopTimemory, Places, OffStep
    <2>2. /\ events'[t] = events[t] /\ tracing'[t] = tracing[t] /\ profile'[t] = profile[t]
          /\ pc'[t] = "user" /\ Len(stack'[t]) = Len(stack[t]) - 1
          /\ bundles'[t] = bundles[t] \/ Len(bundles'[t]) = Len(bundles[t]) - 1
      BY <1>0, <1>6, <2>1, PopTimemoryEffect
    <2>3. Top(t)' = Top(t)
      BY <2>1, <2>2 DEF Top
    <2> QED  BY <1>0, <2>2, <2>3 DEF OffStep
  <1> QED  BY <1>1, <1>2, <1>3, <1>4, <1>5, <1>6 DEF Region

(* Events that are Below a top: one more, the last gone, and a higher top.     *)
LEMMA BelowOf ==
    ASSUME NEW e, NEW f, NEW n \in Nat, NEW top \in Int, Below(e, n, top),
           \A i \in 1 .. n : e[i] \in Int
    PROVE  /\ (\A i \in 1 .. n : f[i] = e[i]) /\ f[n + 1] = top + 1 =>
                 Below(f, n + 1, top + 1)
           /\ (\A i \in 1 .. n - 1 : f[i] = e[i]) => Below(f, n - 1, top - 1)
           /\ Below(e, n, top + 1)
  <1>1. ASSUME \A i \in 1 .. n : f[i] = e[i], f[n + 1] = top + 1
        PROVE  Below(f, n + 1, top + 1)
    <2>1. ASSUME NEW i \in 1 .. n + 1 PROVE f[i] <= top + 1 - (n + 1 - i)
      <3>1. CASE i = n + 1
        BY <1>1, <3>1
      <3>2. CASE i \in 1 .. n
        BY <1>1, <3>2 DEF Below
      <3> QED  BY <3>1, <3>2
    <2> QED  BY <2>1 DEF Below
  <1>2. ASSUME \A i \in 1 .. n - 1 : f[i] = e[i] PROVE Below(f, n - 1, top - 1)
    <2>1. ASSUME NEW i \in 1 .. n - 1 PROVE f[i] <= top - 1 - (n - 1 - i)
      <3>1. i \in 1 .. n /\ f[i] = e[i]
        BY <1>2
      <3> QED  BY <3>1 DEF Below
    <2> QED  BY <2>1 DEF Below
  <1>3. Below(e, n, top + 1)
    BY DEF Below
  <1> QED  BY <1>1, <1>2, <1>3

(* An event is ended before its call, and those within it, have returned.      *)
LEMMA StepEventsOff ==
    ASSUME Annotated = {}, NEW t \in Thread, OffStep(t), Region(t), t \notin early',
           Below(events[t], Len(events[t]), Top(t))
    PROVE  Below(events[t], Len(events[t]), Top(t))'
  <1> DEFINE e == events[t]
             n == Len(e)
  <1>0. /\ OffStep(t) /\ Typed /\ n \in Nat /\ Top(t) \in Int
        /\ \A i \in 1 .. n : e[i] \in Int
    <2>1. Typed /\ Places(t) /\ n \in Nat
      BY DEF OffStep
    <2>2. e \in Seq(Nat)
      BY <2>1 DEF Typed
    <2> QED  BY <2>1, <2>2, CallsOf
  <1>1. ASSUME e' = e, Top(t)' = Top(t) \/ Top(t)' = Top(t) + 1 \/ n = 0
        PROVE  Below(e, n, Top(t))'
    <2>1. n' = n
      BY <1>1
    <2>2. CASE n = 0
      BY <2>1, <2>2 DEF Below
    <2>3. CASE Top(t)' = Top(t)
      BY <1>1, <2>1, <2>3
    <2>4. CASE Top(t)' = Top(t) + 1
      <3>1. Below(e, n, Top(t) + 1)
        <4> HIDE DEF e, n
        <4> QED  BY <1>0, BelowOf DEF e, n
      <3> QED  BY <1>1, <2>1, <2>4, <3>1
    <2> QED  BY <1>1, <2>2, <2>3, <2>4
  <1>2. CASE Call(t)
    <2>1. /\ e' = e /\ Len(stack'[t]) = Len(stack[t]) + 1 /\ pc[t] = "user"
          /\ pc'[t] = (IF enabled /\ state = "Active" THEN "pushTimemory" ELSE "user")
      BY <1>0, <1>2, CallEffect
    <2>2. Top(t)' = Top(t) \/ Top(t)' = Top(t) + 1
      BY <1>0, <2>1 DEF Top, OffStep
    <2> QED  BY <1>1, <2>1, <2>2
  <1>3. CASE PushTimemory(t)
    <2>1. pc[t] = "pushTimemory" /\ stack[t] # << >>
      BY <1>0, <1>3 DEF PushTimemory, Places, OffStep
    <2>2. e' = e /\ stack'[t] = stack[t] /\ pc'[t] = "pushPerfetto"
      BY <1>0, <1>3, <2>1, PushTimemoryEffect
    <2> QED  BY <1>1, <2>1, <2>2 DEF Top
  <1>4. CASE PushPerfetto(t)
    <2>1. /\ pc[t] = "pushPerfetto" /\ pc'[t] = "user" /\ stack'[t] = stack[t]
          /\ ~enabled => e' = e
          /\ enabled => /\ Len(e') = n + 1 /\ e'[n + 1] = Len(stack[t])
                        /\ \A i \in 1 .. n : e'[i] = e[i]
      BY <1>0, <1>4, PushPerfettoEffect
    <2>2. Top(t)' = Len(stack[t]) /\ Top(t)' = Top(t) + 1
      BY <1>0, <2>1 DEF Top, OffStep
    <2>3. CASE ~enabled
      BY <1>1, <2>1, <2>2, <2>3
    <2>4. CASE enabled
      <3>1. (\A i \in 1 .. n : e'[i] = e[i]) /\ e'[n + 1] = Top(t) + 1 /\ Len(e') = n + 1
        BY <2>1, <2>2, <2>4
      <3>2. Below(e', n + 1, Top(t) + 1)
        <4> HIDE DEF e, n
        <4> QED  BY <1>0, <3>1, BelowOf DEF e, n
      <3> QED  BY <2>2, <3>1, <3>2
    <2> QED  BY <2>3, <2>4
  <1>5. CASE Return(t)
    <2>1. /\ e' = e /\ pc[t] = "user" /\ stack[t] # << >>
          /\ ~Ignored(t) => stack' = stack /\ pc'[t] = "popPerfetto"
      BY <1>0, <1>5, ReturnEffect
    <2>2. Top(t)' = Top(t) \/ n = 0
      BY <1>0, <2>1, IgnoredOff DEF Top
    <2> QED  BY <1>1, <2>1, <2>2
  <1>6. CASE PopPerfetto(t)
    <2>1. /\ pc[t] = "popPerfetto" /\ pc'[t] = "popTimemory" /\ stack'[t] = stack[t]
          /\ TracingPopDisabled(t) => e' = e
          /\ ~TracingPopDisabled(t) =>
                /\ e = << >> => e' = e
                /\ e # << >> => /\ Len(e') = n - 1
                                /\ \A i \in 1 .. n - 1 : e'[i] = e[i]
      BY <1>0, <1>6, PopPerfettoEffect
    <2>2. Top(t)' = Top(t) - 1
      BY <1>0, <2>1 DEF Top, Places, OffStep
    <2>3. CASE TracingPopDisabled(t) \/ e = << >>
      <3>1. e' = e /\ n = 0
        BY <1>0, <2>1, <2>3 DEF TracingPopDisabled, OffStep
      <3> QED  BY <1>1, <3>1
    <2>4. CASE ~TracingPopDisabled(t) /\ e # << >>
      <3>1. Len(e') = n - 1 /\ \A i \in 1 .. n - 1 : e'[i] = e[i]
        BY <2>1, <2>4
      <3>2. Below(e', n - 1, Top(t) - 1)
        <4> HIDE DEF e, n
        <4> QED  BY <1>0, <3>1, BelowOf DEF e, n
      <3> QED  BY <2>2, <3>1, <3>2
    <2> QED  BY <2>3, <2>4
  <1>7. CASE PopTimemory(t)
    <2>1. pc[t] = "popTimemory" /\ stack[t] # << >>
      BY <1>0, <1>7 DEF PopTimemory, Places, OffStep
    <2>2. e' = e /\ pc'[t] = "user" /\ Len(stack'[t]) = Len(stack[t]) - 1
      BY <1>0, <1>7, <2>1, PopTimemoryEffect
    <2> QED  BY <1>1, <2>1, <2>2 DEF Top
  <1> QED  BY <1>2, <1>3, <1>4, <1>5, <1>6, <1>7 DEF Region

(* Bundles that are Nested in the calls s are so in more calls.                *)
LEMMA NestedMore ==
    ASSUME NEW b, NEW c, NEW s, NEW r, NEW n \in Nat, NEW top \in Nat, NEW up \in Nat,
           Nested(b, s, n, top), \A i \in 1 .. n : c[i] = b[i],
           \A j \in 1 .. top : r[j] = s[j], top <= up
    PROVE  Nested(c, r, n, up)
  <1>1. ASSUME NEW i \in 1 .. n
        PROVE  c[i].depth \in 1 .. up /\ c[i].name = r[c[i].depth]
    BY DEF Nested
  <1>2. ASSUME NEW i \in 1 .. n, NEW j \in 1 .. n, i < j PROVE c[i].depth < c[j].depth
    BY <1>2 DEF Nested
  <1> QED  BY <1>1, <1>2 DEF Nested

(* ... and with that of the call on top.                                       *)
Pushed(b, c, s, r, n, top, up) ==
    /\ n \in Nat /\ top \in Nat /\ up \in Nat /\ top < up
    /\ Nested(b, s, n, top) /\ \A i \in 1 .. n : c[i] = b[i]
    /\ \A j \in 1 .. top : r[j] = s[j]
    /\ c[n + 1].depth = up /\ c[n + 1].name = r[up]

LEMMA NestedOneMore ==
    ASSUME NEW b, NEW c, NEW s, NEW r, NEW n, NEW top, NEW up,
           Pushed(b, c, s, r, n, top, up)
    PROVE  Nested(c, r, n + 1, up)
  <1> DEFINE m == n + 1
  <1> USE DEF Pushed
  <1>1. ASSUME NEW i \in 1 .. n
        PROVE  c[i].depth \in 1 .. top /\ c[i].name = r[c[i].depth]
    BY DEF Nested
  <1>2. ASSUME NEW i \in 1 .. n, NEW j \in 1 .. n, i < j PROVE c[i].depth < c[j].depth
    BY <1>2 DEF Nested
  <1>3. ASSUME NEW i \in 1 .. m
        PROVE  c[i].depth \in 1 .. up /\ c[i].name = r[c[i].depth]
    <2>1. CASE i = m
      BY <2>1
    <2>2. CASE i \in 1 .. n
      BY <1>1, <2>2
    <2> QED  BY <2>1, <2>2
  <1>4. ASSUME NEW i \in 1 .. m, NEW j \in 1 .. m, i < j PROVE c[i].depth < c[j].depth
    <2>1. i \in 1 .. n /\ c[i].depth \in 1 .. top
      BY <1>1, <1>4
    <2>2. CASE j = m
      BY <2>1, <2>2
    <2>3. CASE j \in 1 .. n
      BY <1>2, <1>4, <2>1, <2>3
    <2> QED  BY <2>2, <2>3
  <1> QED  BY <1>3, <1>4 DEF Nested

(* The call on top returns, whose name no bundle has: none is its own.         *)
LEMMA NestedNone ==
    ASSUME NEW b, NEW s, NEW r, NEW n \in Nat, NEW top \in Nat \ {0},
           Nested(b, s, n, top), \A j \in 1 .. top - 1 : r[j] = s[j],
           \A i \in 1 .. n : b[i].name # s[top]
    PROVE  Nested(b, r, n, top - 1)
  <1>1. ASSUME NEW i \in 1 .. n PROVE b[i].depth # top
    BY DEF Nested
  <1>2. ASSUME NEW i \in 1 .. n
        PROVE  b[i].depth \in 1 .. top - 1 /\ b[i].name = r[b[i].depth]
    <2>1. b[i].depth \in 1 .. top /\ b[i].name = s[b[i].depth]
      BY DEF Nested
    <2>2. b[i].depth \in 1 .. top - 1
      BY <1>1, <2>1
    <2> QED  BY <2>1, <2>2
  <1> QED  BY <1>2 DEF Nested

(* It returns, and its bundle, the last one of its name, goes.                 *)
LEMMA NestedLess ==
    ASSUME NEW b, NEW c, NEW s, NEW r, NEW n \in Nat, NEW top \in Nat \ {0},
           Nested(b, s, n, top), \A j \in 1 .. top - 1 : r[j] = s[j],
           NEW k \in 1 .. n, \A i \in 1 .. n : b[i].name = s[top] => i <= k,
           \A i \in 1 .. n - 1 : c[i] = IF i < k THEN b[i] ELSE b[i + 1]
    PROVE  Nested(c, r, n - 1, top - 1)
  <1>1. ASSUME NEW i \in 1 .. n, i # k PROVE b[i].depth # top
    <2>1. SUFFICES ASSUME b[i].depth = top PROVE FALSE
      OBVIOUS
    <2>2. b[i].name = s[top]
      BY <2>1 DEF Nested
    <2>3. i < k
      BY <1>1, <2>2
    <2>4. b[i].depth < b[k].depth /\ b[k].depth \in 1 .. top
      BY <2>3 DEF Nested
    <2> QED  BY <2>1, <2>4
  <1> DEFINE place(i) == IF i < k THEN i ELSE i + 1
  <1>2. ASSUME NEW i \in 1 .. n - 1
        PROVE  place(i) \in 1 .. n /\ place(i) # k /\ c[i] = b[place(i)]
    OBVIOUS
  <1>3. ASSUME NEW i \in 1 .. n - 1
        PROVE  c[i].depth \in 1 .. top - 1 /\ c[i].name = r[c[i].depth]
    <2> DEFINE m == place(i)
    <2>1. m \in 1 .. n /\ b[m].depth # top /\ c[i] = b[m]
      <3> HIDE DEF place
      <3> QED  BY <1>1, <1>2
    <2> HIDE DEF m
    <2>2. b[m].depth \in 1 .. top /\ b[m].name = s[b[m].depth]
      BY <2>1 DEF Nested
    <2>3. b[m].depth \in 1 .. top - 1
      BY <2>1, <2>2
    <2> QED  BY <2>1, <2>2, <2>3
  <1>4. ASSUME NEW i \in 1 .. n - 1, NEW j \in 1 .. n - 1, i < j
        PROVE  c[i].depth < c[j].depth
    <2>1. place(i) < place(j)
      BY <1>4
    <2> HIDE DEF place
    <2>2. b[place(i)].depth < b[place(j)].depth
      BY <1>2, <2>1 DEF Nested
    <2> QED  BY <1>2, <2>2
  <1> QED  BY <1>3, <1>4 DEF Nested

(* A bundle is removed before its call has returned.                           *)
LEMMA StepBundlesOff ==
    ASSUME Annotated = {}, NEW t \in Thread, OffStep(t), Region(t), t \notin early',
           Nested(bundles[t], stack[t], Len(bundles[t]), BundleTop(t))
    PROVE  Nested(bundles[t], stack[t], Len(bundles[t]), BundleTop(t))'
  <1> DEFINE b == bundles[t]
             n == Len(b)
             s == stack[t]
             top == BundleTop(t)
  <1>0. /\ OffStep(t) /\ Typed /\ Places(t) /\ n \in Nat /\ top \in Nat /\ Len(s) \in Nat
    <2>1. OffStep(t) /\ Typed /\ Places(t) /\ n \in Nat /\ Len(s) \in Nat
      BY DEF OffStep
    <2>2. top \in Nat
      BY <2>1 DEF BundleTop, Places, OffStep
    <2> QED  BY <2>1, <2>2
  <1>1. ASSUME b' = b, n = 0 PROVE Nested(b, s, n, top)'
    BY <1>1 DEF Nested
  <1>2. ASSUME b' = b, NEW up \in Nat, top' = up, top <= up,
               \A j \in 1 .. top : s'[j] = s[j]
        PROVE  Nested(b, s, n, top)'
    <2>1. Nested(b', s', n, up)
      <3> DEFINE c == b'
                 r == s'
      <3>1. /\ Nested(b, s, n, top) /\ top <= up
            /\ \A i \in 1 .. n : c[i] = b[i]
            /\ \A j \in 1 .. top : r[j] = s[j]
        BY <1>2
      <3> HIDE DEF b, s, n, top, c, r
      <3>2. Nested(c, r, n, up)
        BY <1>0, <3>1, NestedMore
      <3> QED  BY <3>2 DEF c, r
    <2> QED  BY <1>2, <2>1
  <1>3. CASE Call(t)
    <2>1. /\ b' = b /\ Len(s') = Len(s) + 1 /\ pc[t] = "user"
          /\ pc'[t] = (IF enabled /\ state = "Active" THEN "pushTimemory" ELSE "user")
          /\ \A j \in 1 .. Len(s) : s'[j] = s[j]
      BY <1>0, <1>3, CallEffect
    <2>2. top = Len(s) /\ top' \in Nat /\ top <= top'
      BY <1>0, <2>1 DEF BundleTop
    <2> QED  BY <1>2, <2>1, <2>2
  <1>4. CASE PushTimemory(t)
    <2>1. pc[t] = "pushTimemory" /\ s # << >> /\ Len(s) > 0
      BY <1>0, <1>4 DEF PushTimemory, Places, OffStep
    <2>2. /\ pc'[t] = "pushPerfetto" /\ s' = s
          /\ ~enabled => b' = b
          /\ enabled => /\ Len(b') = n + 1 /\ \A i \in 1 .. n : b'[i] = b[i]
                        /\ b'[n + 1].depth = Len(s) /\ b'[n + 1].name = s[Len(s)]
      BY <1>0, <1>4, <2>1, PushTimemoryEffect
    <2>3. top = Len(s) - 1 /\ top' = Len(s)
      BY <2>1, <2>2 DEF BundleTop
    <2>4. CASE ~enabled
      BY <1>0, <1>2, <2>2, <2>3, <2>4
    <2>5. CASE enabled
      <3>1. /\ Len(b') = n + 1 /\ \A i \in 1 .. n : b'[i] = b[i]
            /\ b'[n + 1].depth = Len(s) /\ b'[n + 1].name = s'[Len(s)]
            /\ top < Len(s) /\ \A j \in 1 .. top : s'[j] = s[j]
        BY <1>0, <2>2, <2>3, <2>5
      <3>2. Nested(b', s', n + 1, Len(s))
        <4> DEFINE c == b'
                   r == s'
                   up == Len(s)
        <4>1. Pushed(b, c, s, r, n, top, up)
          BY <1>0, <3>1 DEF Pushed
        <4> HIDE DEF b, s, n, top, c, r, up
        <4>2. Nested(c, r, n + 1, up)
          BY <4>1, NestedOneMore
        <4> QED  BY <4>2 DEF c, r, up
      <3> QED  BY <2>3, <3>1, <3>2
    <2> QED  BY <2>4, <2>5
  <1>5. CASE PushPerfetto(t)
    <2>1. pc[t] = "pushPerfetto" /\ pc'[t] = "user" /\ s' = s /\ b' = b
      BY <1>0, <1>5, PushPerfettoEffect
    <2>2. top' = top
      BY <2>1 DEF BundleTop
    <2> QED  BY <1>0, <1>2, <2>1, <2>2
  <1>6. CASE Return(t)
    <2>1. /\ b' = b /\ pc[t] = "user" /\ s # << >>
          /\ ~Ignored(t) => s' = s /\ pc'[t] = "popPerfetto"
      BY <1>0, <1>6, ReturnEffect
    <2>2. CASE Ignored(t)
      BY <1>0, <1>1, <2>1, <2>2, IgnoredOff
    <2>3. CASE ~Ignored(t)
      <3>1. top' = top
        BY <2>1, <2>3 DEF BundleTop
      <3> QED  BY <1>0, <1>2, <2>1, <2>3, <3>1
    <2> QED  BY <2>2, <2>3
  <1>7. CASE PopPerfetto(t)
    <2>1. pc[t] = "popPerfetto" /\ pc'[t] = "popTimemory" /\ s' = s /\ b' = b
      BY <1>0, <1>7, PopPerfettoEffect
    <2>2. top' = top
      BY <2>1 DEF BundleTop
    <2> QED  BY <1>0, <1>2, <2>1, <2>2
  <1>8. CASE PopTimemory(t)
    <2>1. pc[t] = "popTimemory" /\ s # << >>
      BY <1>0, <1>8 DEF PopTimemory, Places, OffStep
    <2>2. /\ pc'[t] = "user" /\ Len(s) \in Nat \ {0} /\ Len(s') = Len(s) - 1
          /\ \A j \in 1 .. Len(s) - 1 : s'[j] = s[j]
          /\ \/ /\ b' = b
                /\ \/ ProfilePopDisabled(t)
                   \/ \A i \in 1 .. n : b[i].name # s[Len(s)]
             \/ \E k \in 1 .. n :
                   /\ \A i \in 1 .. n : b[i].name = s[Len(s)] => i <= k
                   /\ Len(b') = n - 1
                   /\ \A i \in 1 .. n - 1 : b'[i] = IF i < k THEN b[i] ELSE b[i + 1]
      BY <1>0, <1>8, <2>1, PopTimemoryEffect
    <2>3. top = Len(s) /\ top' = top - 1
      BY <2>1, <2>2 DEF BundleTop
    <2>4. CASE b' = b /\ ProfilePopDisabled(t)
      <3>1. n = 0
        BY <1>0, <2>4 DEF ProfilePopDisabled, OffStep
      <3> QED  BY <1>1, <2>4, <3>1
    <2>5. CASE b' = b /\ \A i \in 1 .. n : b[i].name # s[top]
      <3>1. top \in Nat \ {0} /\ \A j \in 1 .. top - 1 : s'[j] = s[j]
        BY <2>2, <2>3
      <3>2. Nested(b, s', n, top - 1)
        <4> DEFINE r == s'
        <4>1. /\ Nested(b, s, n, top) /\ \A i \in 1 .. n : b[i].name # s[top]
              /\ \A j \in 1 .. top - 1 : r[j] = s[j]
          BY <2>5, <3>1
        <4> HIDE DEF b, s, n, top, r
        <4>2. Nested(b, r, n, top - 1)
          BY <1>0, <3>1, <4>1, NestedNone
        <4> QED  BY <4>2 DEF r
      <3> QED  BY <2>3, <2>5, <3>2
    <2>6. ASSUME NEW k \in 1 .. n, \A i \in 1 .. n : b[i].name = s[top] => i <= k,
                 Len(b') = n - 1,
                 \A i \in 1 .. n - 1 : b'[i] = IF i < k THEN b[i] ELSE b[i + 1]
          PROVE  Nested(b, s, n, top)'
      <3>1. top \in Nat \ {0} /\ \A j \in 1 .. top - 1 : s'[j] = s[j]
        BY <2>2, <2>3
      <3>2. Nested(b', s', n - 1, top - 1)
        <4> DEFINE c == b'
                   r == s'
        <4>1. /\ Nested(b, s, n, top) /\ \A j \in 1 .. top - 1 : r[j] = s[j]
              /\ \A i \in 1 .. n : b[i].name = s[top] => i <= k
              /\ \A i \in 1 .. n - 1 : c[i] = IF i < k THEN b[i] ELSE b[i + 1]
          BY <2>6, <3>1
        <4> HIDE DEF b, s, n, top, c, r
        <4>2. Nested(c, r, n - 1, top - 1)
          BY <1>0, <2>6, <3>1, <4>1, NestedLess
        <4> QED  BY <4>2 DEF c, r
      <3> QED  BY <2>3, <2>6, <3>2
    <2> QED  BY <2>2, <2>3, <2>4, <2>5, <2>6
  <1> QED  BY <1>3, <1>4, <1>5, <1>6, <1>7, <1>8 DEF Region

(* Neither the steps of the windows nor those of the other threads matter.     *)
LEMMA StepOffInv == Annotated = {} /\ OffInv /\ [Next]_vars => OffInv'
  <1> SUFFICES ASSUME Annotated = {}, OffInv, [Next]_vars PROVE OffInv'
    OBVIOUS
  <1>1. Known /\ Known' /\ Typed /\ WindowInv /\ OffAtEnd
        /\ \A t \in Thread : Places(t) /\ Counted(t) /\ EventsOff(t) /\ BundlesOff(t)
    BY StepKnown DEF OffInv, Known
  <1>2. SUFFICES ASSUME NEW t \in Thread
                 PROVE  (Counted(t) /\ EventsOff(t) /\ BundlesOff(t))'
    BY <1>1 DEF OffInv
  <1>3. ASSUME UNCHANGED <<events, bundles, stack, pc, tracing, profile, early>>,
               GoesOffOnce' /\ state' # "Finalized" => GoesOffOnce /\ state # "Finalized",
               GoesOffOnce' /\ state' # "Finalized" /\ enabled' => enabled
        PROVE  (Counted(t) /\ EventsOff(t) /\ BundlesOff(t))'
    <2>1. Counted(t)'
      BY <1>1, <1>3 DEF Counted, Top
    <2>2. EventsOff(t)'
      BY <1>1, <1>3 DEF EventsOff, Top
    <2>3. BundlesOff(t)'
      BY <1>1, <1>3 DEF BundlesOff, BundleTop
    <2> QED  BY <2>1, <2>2, <2>3
  <1>4. CASE WindowNext /\ UNCHANGED regionVars
    <2>1. UNCHANGED <<events, bundles, stack, pc, tracing, profile, early>>
      BY <1>4 DEF regionVars
    <2>2. /\ GoesOffOnce' /\ state' # "Finalized" => GoesOffOnce /\ state # "Finalized"
          /\ GoesOffOnce' /\ state' # "Finalized" /\ enabled' => enabled
      BY <1>1, <1>4, StepOff
    <2> QED  BY <1>3, <2>1, <2>2
  <1>5. ASSUME NEW u \in Thread, Region(u)
        PROVE  (Counted(t) /\ EventsOff(t) /\ BundlesOff(t))'
    <2>1. UNCHANGED windowVars
      BY <1>5 DEF Region, Call, PushTimemory, PushPerfetto, Return, PopPerfetto, PopTimemory
    <2>2. state' = state /\ enabled' = enabled /\ (GoesOffOnce' <=> GoesOffOnce)
      BY <2>1 DEF windowVars, GoesOffOnce
    <2>3. CASE u # t
      <3>1. /\ stack'[t] = stack[t] /\ pc'[t] = pc[t] /\ bundles'[t] = bundles[t]
            /\ events'[t] = events[t] /\ profile'[t] = profile[t]
            /\ tracing'[t] = tracing[t] /\ (t \in early' <=> t \in early)
        BY <1>1, <1>5, <2>3, StepOthers
      <3>2. Counted(t)'
        BY <1>1, <2>2, <3>1 DEF Counted, Top
      <3>3. EventsOff(t)'
        BY <1>1, <2>2, <3>1 DEF EventsOff, Top
      <3>4. BundlesOff(t)'
        BY <1>1, <2>2, <3>1 DEF BundlesOff, BundleTop
      <3> QED  BY <3>2, <3>3, <3>4
    <2>4. CASE u = t
      <3>1. SUFFICES ASSUME GoesOffOnce, state # "Finalized", t \notin early'
                     PROVE  (Counted(t) /\ EventsOff(t) /\ BundlesOff(t))'
        BY <2>2 DEF Counted, EventsOff, BundlesOff
      <3>2. t \notin early
        BY <1>5, <2>4, <3>1 DEF Region, Call, PushTimemory, PushPerfetto, Return, PopPerfetto,
                                PopTimemory
      <3>3. /\ tracing[t] = Len(events[t]) /\ profile[t] >= Len(bundles[t])
            /\ enabled => Len(events[t]) = Top(t)
            /\ Below(events[t], Len(events[t]), Top(t))
            /\ Nested(bundles[t], stack[t], Len(bundles[t]), BundleTop(t))
        BY <1>1, <3>1, <3>2 DEF Counted, EventsOff, BundlesOff
      <3>4. OffStep(t)
        <4>1. /\ Typed /\ Places(t) /\ state \in {"Init", "Active"}
              /\ state = "Init" => stack[t] = << >>
          BY <1>1, <3>1, <3>2 DEF WindowInv, WindowTypeOK, Places
        <4>2. /\ stack[t] \in Seq(Name) /\ Len(stack[t]) \in Nat
              /\ Len(events[t]) \in Nat /\ Len(bundles[t]) \in Nat
              /\ stack[t] # << >> <=> Len(stack[t]) > 0
              /\ profile[t] \in Int
          BY <1>1 DEF Typed
        <4> QED  BY <3>3, <4>1, <4>2 DEF OffStep
      <3>5. Counted(t)'
        BY <1>5, <2>2, <2>4, <3>1, <3>4, StepCounted DEF Counted
      <3>6. EventsOff(t)'
        BY <1>5, <2>4, <3>1, <3>3, <3>4, StepEventsOff DEF EventsOff
      <3>7. BundlesOff(t)'
        BY <1>5, <2>4, <3>1, <3>3, <3>4, StepBundlesOff DEF BundlesOff
      <3> QED  BY <3>5, <3>6, <3>7
    <2> QED  BY <2>3, <2>4
  <1>6. CASE UNCHANGED vars
    <2>1. UNCHANGED <<events, bundles, stack, pc, tracing, profile, early>>
          /\ state' = state /\ enabled' = enabled /\ settings' = settings
      BY <1>6 DEF vars, windowVars, regionVars
    <2> QED  BY <1>3, <2>1 DEF GoesOffOnce
  <1> QED  BY <1>4, <1>5, <1>6 DEF Next

(* At the start there are no calls, no events and no bundles.                  *)
LEMMA InitOff == Init => OffInv
  <1> SUFFICES ASSUME Init PROVE OffInv
    OBVIOUS
  <1>1. SUFFICES ASSUME NEW t \in Thread PROVE Counted(t) /\ EventsOff(t) /\ BundlesOff(t)
    BY InitKnown DEF OffInv
  <1>2. Len(events[t]) = 0 /\ Len(bundles[t]) = 0 /\ Top(t) = 0 /\ BundleTop(t) = 0
        /\ tracing[t] = 0 /\ profile[t] = 0
    BY DEF Init, Top, BundleTop
  <1> QED  BY <1>2 DEF Counted, EventsOff, BundlesOff, Below, Nested

(* When the category goes off at the end of the duration, no backend is left   *)
(* with a region of a call that has returned.  Where there are category        *)
(* regions, it is: the stop of those is not even looked at once it is off.     *)
THEOREM NoneLeftOpen ==
    ASSUME Annotated = {}
    PROVE  Spec => []WindowEndsRegions
  <1>1. OffInv => WindowEndsRegions
    <2> SUFFICES ASSUME OffInv, GoesOffOnce, state = "Active", NEW t \in Thread \ early
                 PROVE  NothingLeft(t)
      BY DEF WindowEndsRegions
    <2>1. /\ Typed /\ Below(events[t], Len(events[t]), Top(t))
          /\ Nested(bundles[t], stack[t], Len(bundles[t]), BundleTop(t))
      BY DEF OffInv, Known, EventsOff, BundlesOff
    <2>2. /\ Len(stack[t]) \in Nat /\ Top(t) <= Len(stack[t]) /\ Top(t) \in Int
          /\ BundleTop(t) <= Len(stack[t]) /\ BundleTop(t) \in Int
      BY <2>1 DEF Typed, Top, BundleTop
    <2>3. /\ DOMAIN events[t] = 1 .. Len(events[t]) /\ Len(events[t]) \in Nat
          /\ DOMAIN bundles[t] = 1 .. Len(bundles[t])
          /\ \A i \in 1 .. Len(events[t]) : events[t][i] \in Nat
      BY <2>1 DEF Typed
    <2>4. ASSUME NEW i \in 1 .. Len(events[t]) PROVE events[t][i] <= Len(stack[t])
      BY <2>1, <2>2, <2>3 DEF Below
    <2>5. ASSUME NEW i \in 1 .. Len(bundles[t]) PROVE bundles[t][i].depth <= Len(stack[t])
      <3>1. bundles[t][i].depth \in 1 .. BundleTop(t)
        BY <2>1 DEF Nested
      <3> QED  BY <2>2, <3>1
    <2> QED  BY <2>3, <2>4, <2>5 DEF NothingLeft
  <1>2. OffInv /\ [Next]_vars => OffInv'
    BY StepOffInv
  <1> QED  BY <1>1, <1>2, InitOff, PTL DEF Spec

-----------------------------------------------------------------------------
(* The handlers of fork(), of any number of threads and forks                  *)
CONSTANTS Forker, MaxForks

VARIABLES samples, prefork_lock, postfork_parent_lock, at_fork, forks

Forks == INSTANCE ForkHandlers

(* A step in the call from the wrapper, or in that from inside of fork().      *)
InWrapper(step, names) == step[2] = Forks!Wrapper /\ step[1] \in names
InAtFork(step, names) == step[2] = Forks!AtFork /\ step[1] \in names

(* The steps that one thread comes to: prefork_setup() does its work in the    *)
(* first call of it, that of the wrapper, and postfork_parent() in the first   *)
(* of its calls, that of pthread_atfork().                                     *)
Steps(step) ==
    \/ InWrapper(step, {"run", "pre", "block", "disable", "lock", "unlock", "post"})
    \/ InAtFork(step, {"pre", "fork", "post", "enable", "unblock", "return", "unset"})

(* The flags say who has done its work: prefork_setup() until the handlers of  *)
(* the fork are through, postfork_parent() from then on.                       *)
FlagsOf(step) ==
    /\ prefork_lock = (InWrapper(step, {"unlock"}) \/ step[2] = Forks!AtFork)
    /\ step[2] = Forks!AtFork /\ step[1] # "unset" => postfork_parent_lock = FALSE
    /\ InAtFork(step, {"unset"}) \/ InWrapper(step, {"post"}) => postfork_parent_lock = TRUE

(* What is off, without windows and until the finalization.                    *)
Unsampled(step) ==
    \/ InWrapper(step, {"disable", "lock", "unlock"})
    \/ InAtFork(step, {"pre", "fork", "post", "enable", "unblock"})
Untraced(step) ==
    \/ InWrapper(step, {"lock", "unlock"})
    \/ InAtFork(step, {"pre", "fork", "post", "enable"})

OffIn(step) ==
    Forks!Specs = << >> /\ state # "Finalized" =>
        samples = ~Unsampled(step) /\ enabled = ~Untraced(step)

(* Where the main thread and the window thread are.                            *)
ForkPlaces ==
    /\ state \in {"Init", "Active", "Finalized"}
    /\ state = "Init" <=> main = "setup"
    /\ state = "Active" <=> main = "run"
    /\ Forks!Specs = << >> => at = "done"

(* All is as a thread at this step has made it.                                *)
Stands(step) ==
    /\ step = <<step[1], step[2]>>
    /\ Steps(step) /\ FlagsOf(step) /\ OffIn(step)

Rest == <<"run", Forks!Wrapper>>
Alone(t) == \A u \in Forker \ {t} : at_fork[u] = Rest

(* Forks do not overlap: a thread begins one when no other is in its own.      *)
ForksApart == \A t, u \in Forker : t = u \/ at_fork[t] = Rest \/ at_fork[u] = Rest

(* A thread whose fork is under way has flags and switches to itself, and all  *)
(* of them are back when there is none.                                        *)
ForkInv ==
    /\ ForkPlaces /\ DOMAIN at_fork = Forker
    /\ \A t \in Forker : Alone(t) => Stands(at_fork[t])
    /\ Forks!NoForkUnderWay => Stands(Rest)

-----------------------------------------------------------------------------
(* Where a step of a handler leads.                                            *)
LEMMA GoOf ==
    ASSUME NEW f \in DOMAIN at_fork, NEW from, NEW to, Forks!Go(f, from, to)
    PROVE  /\ DOMAIN at_fork' = DOMAIN at_fork
           /\ \A u \in DOMAIN at_fork \ {f} : at_fork'[u] = at_fork[u]
           /\ at_fork[f][1] = from /\ at_fork[f][2] \in {1, 2}
           /\ at_fork'[f] = <<to, at_fork[f][2]>>
  <1>1. PICK call \in {1, 2} : at_fork[f] = <<from, call>>
                            /\ at_fork' = [at_fork EXCEPT ![f] = <<to, call>>]
    BY DEF Forks!Go, Forks!Wrapper, Forks!AtFork
  <1> QED  BY <1>1

LEMMA PreparedOf ==
    ASSUME NEW f \in DOMAIN at_fork, NEW from, Forks!Prepared(f, from)
    PROVE  /\ DOMAIN at_fork' = DOMAIN at_fork
           /\ \A u \in DOMAIN at_fork \ {f} : at_fork'[u] = at_fork[u]
           /\ at_fork[f][1] = from /\ at_fork[f][2] \in {1, 2}
           /\ at_fork[f][2] = 1 => at_fork'[f] = <<"pre", 2>>
           /\ at_fork[f][2] = 2 => at_fork'[f] = <<"fork", 2>>
  BY DEF Forks!Prepared, Forks!Wrapper, Forks!AtFork

LEMMA ReturnedOf ==
    ASSUME NEW f \in DOMAIN at_fork, NEW from, Forks!Returned(f, from)
    PROVE  /\ DOMAIN at_fork' = DOMAIN at_fork
           /\ \A u \in DOMAIN at_fork \ {f} : at_fork'[u] = at_fork[u]
           /\ at_fork[f][1] = from /\ at_fork[f][2] \in {1, 2}
           /\ at_fork[f][2] = 2 => at_fork'[f] = <<"post", 1>>
           /\ at_fork[f][2] = 1 => at_fork'[f] = <<"run", 1>>
  BY DEF Forks!Returned, Forks!Wrapper, Forks!AtFork

(* A step of a thread that is alone leaves all as that thread has to make it.  *)
LEMMA ForkKept ==
    ASSUME ForkPlaces, NEW f \in DOMAIN at_fork, Stands(at_fork[f]), Forks!Forking(f)
    PROVE  ForkPlaces' /\ Stands(at_fork[f])'
  <1> DEFINE step == at_fork[f]
  <1>1. UNCHANGED <<settings, state, main, at>>
    BY DEF Forks!Forking, Forks!Fork, Forks!CheckPrefork, Forks!Block, Forks!Disable,
       Forks!LockPrefork, Forks!UnlockPostfork, Forks!RealFork, Forks!CheckPostfork,
       Forks!Enable, Forks!Unblock, Forks!LockPostfork, Forks!UnlockPrefork, Forks!windowVars
  <1>2. Forks!Specs' = Forks!Specs
    BY <1>1 DEF Forks!Specs, Forks!Period
  <1>3. ForkPlaces'
    BY <1>1, <1>2 DEF ForkPlaces
  <1>4. Steps(step) /\ FlagsOf(step) /\ OffIn(step) /\ ForkPlaces
    BY DEF Stands
  <1> SUFFICES /\ step' = <<step'[1], step'[2]>>
               /\ Steps(step') /\ FlagsOf(step)' /\ OffIn(step)'
    BY <1>3 DEF Stands
  <1> HIDE DEF step
  <1> USE DEF Forks!Wrapper, Forks!AtFork, InWrapper, InAtFork, Steps, Untraced, Unsampled,
              FlagsOf, OffIn
  <1> USE <1>1, <1>2, <1>4
  <1>5. CASE Forks!Fork(f)
    <2>1. UNCHANGED <<enabled, samples, prefork_lock, postfork_parent_lock>>
      BY <1>5 DEF Forks!Fork, Forks!lockVars, Forks!windowVars
    <2>2. /\ step[1] = "run" /\ step[2] \in {1, 2}
          /\ step' = <<"pre", step[2]>>
      BY <1>5, GoOf DEF Forks!Fork, step
    <2> QED  BY <2>1, <2>2
  <1>6. CASE Forks!CheckPrefork(f)
    <2>1. UNCHANGED <<enabled, samples, prefork_lock, postfork_parent_lock>>
      BY <1>6 DEF Forks!CheckPrefork, Forks!lockVars, Forks!windowVars
    <2>2. CASE prefork_lock
      <3>1. /\ step[1] = "pre" /\ step[2] \in {1, 2}
            /\ step[2] = 1 => step' = <<"pre", 2>>
            /\ step[2] = 2 => step' = <<"fork", 2>>
        BY <1>6, <2>2, PreparedOf DEF Forks!CheckPrefork, step
      <3>2. step[2] = 2 /\ step' = <<"fork", 2>>
        BY <2>2, <3>1
      <3> QED  BY <2>1, <3>1, <3>2
    <2>3. CASE ~prefork_lock
      <3>1. /\ step[1] = "pre" /\ step[2] \in {1, 2}
            /\ step' = <<"block", step[2]>>
        BY <1>6, <2>3, GoOf DEF Forks!CheckPrefork, step
      <3> QED  BY <2>1, <2>3, <3>1
    <2> QED  BY <2>2, <2>3
  <1>7. CASE Forks!Block(f)
    <2>1. samples' = FALSE /\ UNCHANGED <<enabled, prefork_lock, postfork_parent_lock>>
      BY <1>7 DEF Forks!Block, Forks!lockVars, Forks!windowVars
    <2>2. /\ step[1] = "block" /\ step[2] \in {1, 2}
          /\ step' = <<"disable", step[2]>>
      BY <1>7, GoOf DEF Forks!Block, step
    <2> QED  BY <2>1, <2>2
  <1>8. CASE Forks!Disable(f)
    <2>1. enabled' = FALSE /\ UNCHANGED <<samples, prefork_lock, postfork_parent_lock>>
      BY <1>8 DEF Forks!Disable, Forks!lockVars, Forks!windowVars
    <2>2. /\ step[1] = "disable" /\ step[2] \in {1, 2}
          /\ step' = <<"lock", step[2]>>
      BY <1>8, GoOf DEF Forks!Disable, step
    <2> QED  BY <2>1, <2>2
  <1>9. CASE Forks!LockPrefork(f)
    <2>1. prefork_lock' = TRUE /\ UNCHANGED <<enabled, samples, postfork_parent_lock>>
      BY <1>9 DEF Forks!LockPrefork, Forks!lockVars, Forks!windowVars
    <2>2. /\ step[1] = "lock" /\ step[2] \in {1, 2}
          /\ step' = <<"unlock", step[2]>>
      BY <1>9, GoOf DEF Forks!LockPrefork, step
    <2> QED  BY <2>1, <2>2
  <1>10. CASE Forks!UnlockPostfork(f)
    <2>1. postfork_parent_lock' = FALSE /\ UNCHANGED <<enabled, samples, prefork_lock>>
      BY <1>10 DEF Forks!UnlockPostfork, Forks!lockVars, Forks!windowVars
    <2>2. /\ step[1] = "unlock" /\ step[2] \in {1, 2}
          /\ step[2] = 1 => step' = <<"pre", 2>>
          /\ step[2] = 2 => step' = <<"fork", 2>>
      BY <1>10, PreparedOf DEF Forks!UnlockPostfork, step
    <2> QED  BY <2>1, <2>2
  <1>11. CASE Forks!RealFork(f)
    <2>1. UNCHANGED <<enabled, samples, prefork_lock, postfork_parent_lock>>
      BY <1>11 DEF Forks!RealFork, Forks!lockVars, Forks!windowVars
    <2>2. /\ step[1] = "fork" /\ step[2] \in {1, 2}
          /\ step' = <<"post", step[2]>>
      BY <1>11, GoOf DEF Forks!RealFork, step
    <2> QED  BY <2>1, <2>2
  <1>12. CASE Forks!CheckPostfork(f)
    <2>1. UNCHANGED <<enabled, samples, prefork_lock, postfork_parent_lock>>
      BY <1>12 DEF Forks!CheckPostfork, Forks!lockVars, Forks!windowVars
    <2>2. CASE postfork_parent_lock
      <3>1. /\ step[1] = "post" /\ step[2] \in {1, 2}
            /\ step[2] = 1 => step' = <<"run", 1>>
            /\ step[2] = 2 => step' = <<"post", 1>>
        BY <1>12, <2>2, ReturnedOf DEF Forks!CheckPostfork, step
      <3> QED  BY <2>1, <2>2, <3>1
    <2>3. CASE ~postfork_parent_lock
      <3>1. /\ step[1] = "post" /\ step[2] \in {1, 2}
            /\ step' = <<"enable", step[2]>>
        BY <1>12, <2>3, GoOf DEF Forks!CheckPostfork, step
      <3> QED  BY <2>1, <2>3, <3>1
    <2> QED  BY <2>2, <2>3
  <1>13. CASE Forks!Enable(f)
    <2>1. enabled' = TRUE /\ UNCHANGED <<samples, prefork_lock, postfork_parent_lock>>
      BY <1>13 DEF Forks!Enable, Forks!lockVars, Forks!windowVars
    <2>2. /\ step[1] = "enable" /\ step[2] \in {1, 2}
          /\ step' = <<"unblock", step[2]>>
      BY <1>13, GoOf DEF Forks!Enable, step
    <2> QED  BY <2>1, <2>2
  <1>14. CASE Forks!Unblock(f)
    <2>1. samples' = TRUE /\ UNCHANGED <<enabled, prefork_lock, postfork_parent_lock>>
      BY <1>14 DEF Forks!Unblock, Forks!lockVars, Forks!windowVars
    <2>2. /\ step[1] = "unblock" /\ step[2] \in {1, 2}
          /\ step' = <<"return", step[2]>>
      BY <1>14, GoOf DEF Forks!Unblock, step
    <2> QED  BY <2>1, <2>2
  <1>15. CASE Forks!LockPostfork(f)
    <2>1. postfork_parent_lock' = TRUE /\ UNCHANGED <<enabled, samples, prefork_lock>>
      BY <1>15 DEF Forks!LockPostfork, Forks!lockVars, Forks!windowVars
    <2>2. /\ step[1] = "return" /\ step[2] \in {1, 2}
          /\ step' = <<"unset", step[2]>>
      BY <1>15, GoOf DEF Forks!LockPostfork, step
    <2> QED  BY <2>1, <2>2
  <1>16. CASE Forks!UnlockPrefork(f)
    <2>1. prefork_lock' = FALSE /\ UNCHANGED <<enabled, samples, postfork_parent_lock>>
      BY <1>16 DEF Forks!UnlockPrefork, Forks!lockVars, Forks!windowVars
    <2>2. /\ step[1] = "unset" /\ step[2] \in {1, 2}
          /\ step[2] = 1 => step' = <<"run", 1>>
          /\ step[2] = 2 => step' = <<"post", 1>>
      BY <1>16, ReturnedOf DEF Forks!UnlockPrefork, step
    <2>3. step[2] = 2 /\ step' = <<"post", 1>>
      BY <2>2
    <2> QED  BY <2>1, <2>2, <2>3
  <1> QED
    BY <1>5, <1>6, <1>7, <1>8, <1>9, <1>10, <1>11, <1>12, <1>13, <1>14, <1>15, <1>16
       DEF Forks!Forking

(* ... and to the others.                                                      *)
LEMMA OthersStay ==
    ASSUME NEW f \in DOMAIN at_fork, Forks!Forking(f)
    PROVE  /\ DOMAIN at_fork' = DOMAIN at_fork
           /\ \A u \in DOMAIN at_fork \ {f} : at_fork'[u] = at_fork[u]
           /\ at_fork[f] = Rest => at_fork'[f] # Rest
  <1>1. CASE Forks!Fork(f)
    BY <1>1, GoOf DEF Forks!Fork, Rest
  <1>2. CASE Forks!CheckPrefork(f)
    BY <1>2, GoOf, PreparedOf DEF Forks!CheckPrefork, Rest
  <1>3. CASE Forks!Block(f) \/ Forks!Disable(f) \/ Forks!LockPrefork(f) \/ Forks!RealFork(f)
    BY <1>3, GoOf DEF Forks!Block, Forks!Disable, Forks!LockPrefork, Forks!RealFork, Rest
  <1>4. CASE Forks!UnlockPostfork(f)
    BY <1>4, PreparedOf DEF Forks!UnlockPostfork, Rest
  <1>5. CASE Forks!CheckPostfork(f)
    BY <1>5, GoOf, ReturnedOf DEF Forks!CheckPostfork, Rest
  <1>6. CASE Forks!Enable(f) \/ Forks!Unblock(f) \/ Forks!LockPostfork(f)
    BY <1>6, GoOf DEF Forks!Enable, Forks!Unblock, Forks!LockPostfork, Rest
  <1>7. CASE Forks!UnlockPrefork(f)
    BY <1>7, ReturnedOf DEF Forks!UnlockPrefork, Rest
  <1> QED  BY <1>1, <1>2, <1>3, <1>4, <1>5, <1>6, <1>7 DEF Forks!Forking

(* A thread that forks is alone with the flags and the switches.               *)
LEMMA StepForking ==
    ASSUME ForkInv, ForksApart, ForksApart', NEW f \in Forker, Forks!Forking(f)
    PROVE  ForkInv'
  <1>1. /\ DOMAIN at_fork' = Forker
        /\ \A u \in Forker \ {f} : at_fork'[u] = at_fork[u]
        /\ at_fork[f] # Rest \/ at_fork'[f] # Rest
    BY OthersStay DEF ForkInv
  <1>2. Alone(f)
    BY <1>1 DEF ForksApart, Alone, Rest
  <1>3. ForkPlaces' /\ Stands(at_fork[f])'
    BY <1>2, ForkKept DEF ForkInv
  <1>4. ASSUME NEW t \in Forker, Alone(t)' PROVE Stands(at_fork[t])'
    <2>1. CASE t = f
      BY <1>3, <2>1
    <2>2. CASE t # f
      <3>1. at_fork'[t] = Rest /\ at_fork'[f] = Rest
        BY <1>1, <1>2, <1>4, <2>2 DEF Alone, Rest
      <3> QED  BY <1>3, <3>1
    <2> QED  BY <2>1, <2>2
  <1>5. ASSUME Forks!NoForkUnderWay' PROVE Stands(Rest)'
    <2>1. at_fork'[f] = Rest
      BY <1>5 DEF Forks!NoForkUnderWay, Rest
    <2> QED  BY <1>3, <2>1 DEF Rest
  <1> QED  BY <1>1, <1>3, <1>4, <1>5 DEF ForkInv

(* Nobody else switches them in a program without windows.                     *)
LEMMA StepOther ==
    ASSUME ForkInv, ForkPlaces',
           UNCHANGED <<settings, at_fork, prefork_lock, postfork_parent_lock>>,
           Forks!Specs = << >> /\ state' # "Finalized" =>
               state # "Finalized" /\ UNCHANGED <<enabled, samples>>
    PROVE  ForkInv'
  <1>1. Forks!Specs' = Forks!Specs
    BY DEF Forks!Specs, Forks!Period
  <1>2. ASSUME NEW step, Stands(step) PROVE Stands(step)'
    BY <1>1, <1>2 DEF Stands, Steps, FlagsOf, OffIn, Unsampled, Untraced, InWrapper, InAtFork
  <1>3. ASSUME NEW t \in Forker, Alone(t)' PROVE Stands(at_fork[t])'
    BY <1>2, <1>3 DEF ForkInv, Alone
  <1>4. Forks!NoForkUnderWay' => Stands(Rest)'
    BY <1>2 DEF ForkInv, Forks!NoForkUnderWay
  <1> QED  BY <1>3, <1>4 DEF ForkInv

(* Each step keeps the invariant while forks do not overlap.                   *)
LEMMA StepFork == ForkInv /\ ForksApart /\ ForksApart' /\ [Forks!Next]_(Forks!vars) => ForkInv'
  <1> SUFFICES ASSUME ForkInv, ForksApart, ForksApart', [Forks!Next]_(Forks!vars)
               PROVE  ForkInv'
    OBVIOUS
  <1> USE DEF Forks!forkVars, Forks!lockVars
  <1>0. ASSUME UNCHANGED settings PROVE Forks!Specs' = Forks!Specs
    BY <1>0 DEF Forks!Specs, Forks!Period
  <1>1. CASE \E t \in Forker : Forks!Forking(t)
    BY <1>1, StepForking
  <1>2. CASE Forks!FinalizeBlocked
    <2>1. /\ UNCHANGED <<settings, at, at_fork, prefork_lock, postfork_parent_lock>>
          /\ state' = "Finalized" /\ main' = "finalizing"
      BY <1>2 DEF Forks!FinalizeBlocked, Forks!Finalize
    <2>2. ForkPlaces'
      BY <1>0, <2>1 DEF ForkInv, ForkPlaces
    <2> QED  BY <2>1, <2>2, StepOther
  <1>3. CASE Forks!Window /\ UNCHANGED Forks!forkVars
    <2>1. UNCHANGED <<settings, state, main>> /\ at # "done"
      BY <1>3 DEF Forks!Window, Forks!FirstDisable, Forks!NextSpec, Forks!Begin, Forks!Stage,
         Forks!Wait, Forks!Start, Forks!Collect, Forks!StopCheck, Forks!StopDisable
    <2>2. ForkPlaces' /\ Forks!Specs # << >>
      BY <1>0, <2>1 DEF ForkInv, ForkPlaces
    <2> QED  BY <1>3, <2>1, <2>2, StepOther
  <1>4. CASE Forks!Activate /\ UNCHANGED Forks!forkVars
    <2>1. ForkPlaces'
      BY <1>0, <1>4 DEF Forks!Activate, ForkInv, ForkPlaces
    <2> QED  BY <1>4, <2>1, StepOther DEF Forks!Activate, ForkInv, ForkPlaces
  <1>5. CASE (Forks!EnableCategories \/ Forks!DisableCategories) /\ UNCHANGED Forks!forkVars
    <2>1. /\ UNCHANGED <<settings, state, at>>
          /\ state = "Finalized" /\ main' \in {"output", "done"}
      BY <1>5 DEF Forks!EnableCategories, Forks!DisableCategories, ForkInv, ForkPlaces
    <2>2. ForkPlaces'
      BY <1>0, <2>1 DEF ForkInv, ForkPlaces
    <2> QED  BY <1>5, <2>1, <2>2, StepOther
  <1>6. CASE UNCHANGED Forks!vars
    <2>1. UNCHANGED <<settings, state, main, at, enabled, samples, at_fork, prefork_lock,
                      postfork_parent_lock>>
      BY <1>6 DEF Forks!vars, Forks!windowVars
    <2>2. ForkPlaces'
      BY <1>0, <2>1 DEF ForkInv, ForkPlaces
    <2> QED  BY <2>1, <2>2, StepOther
  <1> QED  BY <1>1, <1>2, <1>3, <1>4, <1>5, <1>6 DEF Forks!Next

LEMMA InitForks == Forks!Init => ForkInv
  <1> SUFFICES ASSUME Forks!Init PROVE ForkInv
    OBVIOUS
  <1>1. DOMAIN at_fork = Forker /\ \A t \in Forker : at_fork[t] = Rest
    BY DEF Forks!Init, Rest
  <1>2. ForkPlaces
    BY DEF ForkPlaces, Forks!Init, Forks!WindowInit
  <1>3. enabled = TRUE /\ samples = TRUE /\ prefork_lock = FALSE
    BY DEF Forks!Init, Forks!WindowInit
  <1>4. Rest[1] = "run" /\ Rest[2] = 1 /\ Rest = <<Rest[1], Rest[2]>>
    BY DEF Rest, Forks!Wrapper
  <1> HIDE DEF Rest
  <1>5. Steps(Rest) /\ OffIn(Rest)
    BY <1>3, <1>4 DEF Steps, OffIn, Unsampled, Untraced, InWrapper, InAtFork,
       Forks!Wrapper, Forks!AtFork
  <1>6. FlagsOf(Rest)
    <2>1. /\ ~InWrapper(Rest, {"unlock"}) /\ ~InWrapper(Rest, {"post"})
          /\ ~InAtFork(Rest, {"unset"}) /\ Rest[2] # Forks!AtFork
      BY <1>4 DEF InWrapper, InAtFork, Forks!Wrapper, Forks!AtFork
    <2> QED  BY <1>3, <2>1 DEF FlagsOf
  <1> QED  BY <1>1, <1>2, <1>4, <1>5, <1>6 DEF ForkInv, Stands

LEMMA ForkInvariant == Forks!Spec /\ []ForksApart => []ForkInv
  BY InitForks, StepFork, PTL DEF Forks!Spec

(* For any number of threads that fork, one at a time, samples and categories  *)
(* are on again when no fork is under way: each of the two handlers does its   *)
(* work once, whichever of the wrapper and pthread_atfork() comes first.       *)
(* Without the hypothesis it is false: forks_overlap.cfg.                      *)
THEOREM ApartRestored == Forks!Spec /\ []ForksApart => []Forks!RestoredAfterForks
  <1>1. ForkInv => Forks!RestoredAfterForks
    <2> SUFFICES ASSUME Stands(Rest), state = "Active", Forks!Specs = << >>
                 PROVE  enabled /\ samples
      BY DEF ForkInv, Forks!RestoredAfterForks
    <2>1. Rest[1] = "run" /\ Rest[2] = 1
      BY DEF Rest, Forks!Wrapper
    <2> QED
      BY <2>1 DEF Stands, OffIn, Unsampled, Untraced, InWrapper, InAtFork,
         Forks!Wrapper, Forks!AtFork
  <1> QED  BY ForkInvariant, <1>1, PTL

(* Without windows, nothing is collected while the process is copied.          *)
THEOREM ApartQuiet ==
    Forks!Spec /\ []ForksApart => [](Forks!Specs = << >> => Forks!QuietWhileForking)
  <1>1. ForkInv /\ ForksApart => (Forks!Specs = << >> => Forks!QuietWhileForking)
    <2> SUFFICES ASSUME ForkInv, ForksApart, Forks!Specs = << >>, state = "Active",
                        NEW t \in Forker, at_fork[t] = <<"fork", Forks!AtFork>>
                 PROVE  ~enabled /\ ~samples
      BY DEF Forks!QuietWhileForking
    <2>1. at_fork[t][1] = "fork" /\ at_fork[t][2] = 2
      BY DEF Forks!AtFork
    <2>2. Alone(t)
      BY <2>1 DEF ForksApart, Alone, Rest
    <2>3. OffIn(at_fork[t])
      BY <2>2 DEF ForkInv, Stands
    <2> QED
      BY <2>1, <2>3 DEF OffIn, Unsampled, Untraced, InWrapper, InAtFork,
         Forks!Wrapper, Forks!AtFork
  <1> QED  BY ForkInvariant, <1>1, PTL
=============================================================================
