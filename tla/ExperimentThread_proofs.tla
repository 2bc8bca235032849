------------------------ MODULE ExperimentThread_proofs ------------------------
(* Proofs about ExperimentThread, for any set of addresses and any number of   *)
(* slots and experiments: the types, that no experiment is left active, and    *)
(* that the history that is saved is complete.                                 *)
EXTENDS ExperimentThread, TLAPS

(* An experiment has an address and a number of its own.                       *)
SelectInv ==
    /\ thread \in {"start", "publish"} => selection # None
    /\ thread \notin {"none", "spawned", "await", "next", "ended", "exited"} => number > 0
    /\ thread \in {"none", "spawned", "await", "next", "select", "pick", "start", "publish",
                   "failed", "record"} => current = None
    /\ main = "start" => thread = "none"
    /\ main \in {"start", "started"} => state # "Finalized"

(* Where the experiment thread may still be when the main thread has gone on:  *)
(* either it has not begun, and will find the profiler finalized, or it has    *)
(* exited.                                                                     *)
SaveInv ==
    /\ completed = "none" => thread \in {"none", "spawned"}
    /\ completed = "set" => thread = "exited"
    /\ main \in {"samplers", "finish", "save", "done"} => state = "Finalized"
    /\ main \in {"save", "done"} /\ ~cutOff =>
         thread \in {"none", "spawned", "await", "next", "ended", "exited"}
    /\ main = "done" /\ ~cutOff => saved = Len(history)

-----------------------------------------------------------------------------
(* The history grows by the number of an experiment.                           *)
LEMMA RecordType ==
    ASSUME NEW S, NEW s \in Seq(S), NEW x \in S, NEW k \in 0 .. Len(s)
    PROVE  Append(s, x) \in Seq(S) /\ k \in 0 .. Len(Append(s, x))
  <1>1. Append(s, x) \in Seq(S) /\ Len(Append(s, x)) = Len(s) + 1 /\ Len(s) \in Nat
    OBVIOUS
  <1> QED  BY <1>1

(* Each action keeps the types.                                                *)
LEMMA StepType == TypeOK /\ SelectInv /\ [Next]_vars => TypeOK'
  <1> SUFFICES ASSUME TypeOK, SelectInv, [Next]_vars PROVE TypeOK'
    OBVIOUS
  <1> USE ExperimentAssumption, AddressAssumption
      DEF TypeOK, SelectInv, Alive, None, sampleVars, expVars, mainVars
  <1>1. CASE Sample
    BY <1>1 DEF Sample
  <1>2. CASE Claim
    BY <1>2 DEF Claim, Increment
  <1>3. CASE Store
    BY <1>3 DEF Store
  <1>4. CASE FirstPoint
    BY <1>4 DEF FirstPoint
  <1>5. CASE TimePasses
    BY <1>5 DEF TimePasses
  <1>6. CASE Begin
    BY <1>6 DEF Begin, GoTo
  <1>7. CASE AwaitPoint
    BY <1>7 DEF AwaitPoint, GoTo
  <1>8. CASE NextExperiment
    BY <1>8 DEF NextExperiment, GoTo
  <1>9. CASE AwaitSample
    BY <1>9 DEF AwaitSample, GoTo
  <1>10. CASE Pick
    BY <1>10 DEF Pick, GoTo, Filled
  <1>11. CASE CheckState
    BY <1>11 DEF CheckState, GoTo
  <1>12. CASE Publish
    BY <1>12 DEF Publish, GoTo
  <1>13. CASE Retry
    BY <1>13 DEF Retry, GoTo
  <1>14. CASE ResetIndex
    BY <1>14 DEF ResetIndex, GoTo
  <1>15. CASE ClearSlots
    BY <1>15 DEF ClearSlots, GoTo
  <1>16. CASE Run
    BY <1>16 DEF Run
  <1>17. CASE Stop
    BY <1>17 DEF Stop, GoTo
  <1>18. CASE Record
    <2> DEFINE S == 1 .. number
    <2>1. history \in Seq(S) /\ number \in S /\ saved \in 0 .. Len(history)
      BY <1>18 DEF Record, GoTo
    <2>2. history' = history \/ history' = Append(history, number)
      BY <1>18 DEF Record
    <2> HIDE DEF S, TypeOK, SelectInv
    <2>3. history' \in Seq(S) /\ saved \in 0 .. Len(history')
      BY <2>1, <2>2, RecordType
    <2> USE DEF S, TypeOK, SelectInv
    <2> QED  BY <1>18, <2>3 DEF Record, GoTo
  <1>19. CASE ProcessSamples
    BY <1>19 DEF ProcessSamples, GoTo
  <1>20. CASE Exit
    BY <1>20 DEF Exit, GoTo
  <1>21. CASE StartExperimenting
    BY <1>21 DEF StartExperimenting, MainGo
  <1>22. CASE Activate
    BY <1>22 DEF Activate, MainGo
  <1>23. CASE Finalize
    BY <1>23 DEF Finalize, MainGo
  <1>24. CASE ShutdownSamplers
    BY <1>24 DEF ShutdownSamplers, MainGo
  <1>25. CASE AwaitThread
    BY <1>25 DEF AwaitThread, MainGo
  <1>26. CASE Save
    BY <1>26 DEF Save, MainGo
  <1>27. CASE UNCHANGED vars
    BY <1>27 DEF vars
  <1> QED  BY <1>1, <1>2, <1>3, <1>4, <1>5, <1>6, <1>7, <1>8, <1>9, <1>10,
              <1>11, <1>12, <1>13, <1>14, <1>15, <1>16, <1>17, <1>18, <1>19,
              <1>20, <1>21, <1>22, <1>23, <1>24, <1>25, <1>26, <1>27
           DEF Next, Handler, Experiments, MainThread

(* Each action keeps the selection of an experiment.                           *)
LEMMA StepSelect == TypeOK /\ SelectInv /\ [Next]_vars => SelectInv'
  <1> SUFFICES ASSUME TypeOK, SelectInv, [Next]_vars PROVE SelectInv'
    OBVIOUS
  <1> USE ExperimentAssumption, AddressAssumption
      DEF TypeOK, SelectInv, Alive, None, sampleVars, expVars, mainVars
  <1>1. CASE Sample
    BY <1>1 DEF Sample
  <1>2. CASE Claim
    BY <1>2 DEF Claim, Increment
  <1>3. CASE Store
    BY <1>3 DEF Store
  <1>4. CASE FirstPoint
    BY <1>4 DEF FirstPoint
  <1>5. CASE TimePasses
    BY <1>5 DEF TimePasses
  <1>6. CASE Begin
    BY <1>6 DEF Begin, GoTo
  <1>7. CASE AwaitPoint
    BY <1>7 DEF AwaitPoint, GoTo
  <1>8. CASE NextExperiment
    BY <1>8 DEF NextExperiment, GoTo
  <1>9. CASE AwaitSample
    BY <1>9 DEF AwaitSample, GoTo
  <1>10. CASE Pick
    BY <1>10 DEF Pick, GoTo, Filled
  <1>11. CASE CheckState
    BY <1>11 DEF CheckState, GoTo
  <1>12. CASE Publish
    BY <1>12 DEF Publish, GoTo
  <1>13. CASE Retry
    BY <1>13 DEF Retry, GoTo
  <1>14. CASE ResetIndex
    BY <1>14 DEF ResetIndex, GoTo
  <1>15. CASE ClearSlots
    BY <1>15 DEF ClearSlots, GoTo
  <1>16. CASE Run
    BY <1>16 DEF Run
  <1>17. CASE Stop
    BY <1>17 DEF Stop, GoTo
  <1>18. CASE Record
    BY <1>18 DEF Record, GoTo
  <1>19. CASE ProcessSamples
    BY <1>19 DEF ProcessSamples, GoTo
  <1>20. CASE Exit
    BY <1>20 DEF Exit, GoTo
  <1>21. CASE StartExperimenting
    BY <1>21 DEF StartExperimenting, MainGo
  <1>22. CASE Activate
    BY <1>22 DEF Activate, MainGo
  <1>23. CASE Finalize
    BY <1>23 DEF Finalize, MainGo
  <1>24. CASE ShutdownSamplers
    BY <1>24 DEF ShutdownSamplers, MainGo
  <1>25. CASE AwaitThread
    BY <1>25 DEF AwaitThread, MainGo
  <1>26. CASE Save
    BY <1>26 DEF Save, MainGo
  <1>27. CASE UNCHANGED vars
    BY <1>27 DEF vars
  <1> QED  BY <1>1, <1>2, <1>3, <1>4, <1>5, <1>6, <1>7, <1>8, <1>9, <1>10,
              <1>11, <1>12, <1>13, <1>14, <1>15, <1>16, <1>17, <1>18, <1>19,
              <1>20, <1>21, <1>22, <1>23, <1>24, <1>25, <1>26, <1>27
           DEF Next, Handler, Experiments, MainThread

(* Each action keeps where the two threads are.                                *)
LEMMA StepSave == TypeOK /\ SelectInv /\ SaveInv /\ [Next]_vars => SaveInv'
  <1> SUFFICES ASSUME TypeOK, SelectInv, SaveInv, [Next]_vars PROVE SaveInv'
    OBVIOUS
  <1> USE ExperimentAssumption, AddressAssumption
      DEF TypeOK, SaveInv, Alive, None, sampleVars, expVars, mainVars
  <1>1. CASE Sample
    BY <1>1 DEF Sample
  <1>2. CASE Claim
    BY <1>2 DEF Claim, Increment
  <1>3. CASE Store
    BY <1>3 DEF Store
  <1>4. CASE FirstPoint
    BY <1>4 DEF FirstPoint
  <1>5. CASE TimePasses
    BY <1>5 DEF TimePasses
  <1>6. CASE Begin
    BY <1>6 DEF Begin, GoTo
  <1>7. CASE AwaitPoint
    BY <1>7 DEF AwaitPoint, GoTo
  <1>8. CASE NextExperiment
    BY <1>8 DEF NextExperiment, GoTo
  <1>9. CASE AwaitSample
    BY <1>9 DEF AwaitSample, GoTo
  <1>10. CASE Pick
    BY <1>10 DEF Pick, GoTo, Filled
  <1>11. CASE CheckState
    BY <1>11 DEF CheckState, GoTo
  <1>12. CASE Publish
    BY <1>12 DEF Publish, GoTo
  <1>13. CASE Retry
    BY <1>13 DEF Retry, GoTo
  <1>14. CASE ResetIndex
    BY <1>14 DEF ResetIndex, GoTo
  <1>15. CASE ClearSlots
    BY <1>15 DEF ClearSlots, GoTo
  <1>16. CASE Run
    BY <1>16 DEF Run
  <1>17. CASE Stop
    BY <1>17 DEF Stop, GoTo
  <1>18. CASE Record
    BY <1>18 DEF Record, GoTo
  <1>19. CASE ProcessSamples
    BY <1>19 DEF ProcessSamples, GoTo
  <1>20. CASE Exit
    BY <1>20 DEF Exit, GoTo
  <1>21. CASE StartExperimenting
    BY <1>21 DEF StartExperimenting, MainGo, SelectInv
  <1>22. CASE Activate
    BY <1>22 DEF Activate, MainGo
  <1>23. CASE Finalize
    BY <1>23 DEF Finalize, MainGo
  <1>24. CASE ShutdownSamplers
    BY <1>24 DEF ShutdownSamplers, MainGo
  <1>25. CASE AwaitThread
    BY <1>25 DEF AwaitThread, MainGo
  <1>26. CASE Save
    BY <1>26 DEF Save, MainGo
  <1>27. CASE UNCHANGED vars
    BY <1>27 DEF vars
  <1> QED  BY <1>1, <1>2, <1>3, <1>4, <1>5, <1>6, <1>7, <1>8, <1>9, <1>10,
              <1>11, <1>12, <1>13, <1>14, <1>15, <1>16, <1>17, <1>18, <1>19,
              <1>20, <1>21, <1>22, <1>23, <1>24, <1>25, <1>26, <1>27
           DEF Next, Handler, Experiments, MainThread

(* Unless it is an end-to-end one, an experiment becomes active before and     *)
(* inactive at the end of the steps in which it is performed.                  *)
LEMMA StepActive ==
    ASSUME ~EndToEnd
    PROVE  TypeOK /\ SelectInv /\ ActiveIsPerformed /\ [Next]_vars => ActiveIsPerformed'
  <1> SUFFICES ASSUME TypeOK, SelectInv, ActiveIsPerformed, [Next]_vars
               PROVE  ActiveIsPerformed'
    OBVIOUS
  <1> USE DEF TypeOK, SelectInv, ActiveIsPerformed, None, sampleVars, expVars, mainVars
  <1>1. CASE Sample
    BY <1>1 DEF Sample
  <1>2. CASE Claim
    BY <1>2 DEF Claim, Increment
  <1>3. CASE Store
    BY <1>3 DEF Store
  <1>4. CASE FirstPoint
    BY <1>4 DEF FirstPoint
  <1>5. CASE TimePasses
    BY <1>5 DEF TimePasses
  <1>6. CASE Begin
    BY <1>6 DEF Begin, GoTo
  <1>7. CASE AwaitPoint
    BY <1>7 DEF AwaitPoint, GoTo
  <1>8. CASE NextExperiment
    BY <1>8 DEF NextExperiment, GoTo
  <1>9. CASE AwaitSample
    BY <1>9 DEF AwaitSample, GoTo
  <1>10. CASE Pick
    BY <1>10 DEF Pick, GoTo, Filled
  <1>11. CASE CheckState
    BY <1>11 DEF CheckState, GoTo
  <1>12. CASE Publish
    BY <1>12 DEF Publish, GoTo
  <1>13. CASE Retry
    BY <1>13 DEF Retry, GoTo
  <1>14. CASE ResetIndex
    BY <1>14 DEF ResetIndex, GoTo
  <1>15. CASE ClearSlots
    BY <1>15 DEF ClearSlots, GoTo
  <1>16. CASE Run
    BY <1>16 DEF Run
  <1>17. CASE Stop
    BY <1>17 DEF Stop, GoTo
  <1>18. CASE Record
    BY <1>18 DEF Record, GoTo
  <1>19. CASE ProcessSamples
    BY <1>19 DEF ProcessSamples, GoTo
  <1>20. CASE Exit
    BY <1>20 DEF Exit, GoTo
  <1>21. CASE StartExperimenting
    BY <1>21 DEF StartExperimenting, MainGo
  <1>22. CASE Activate
    BY <1>22 DEF Activate, MainGo
  <1>23. CASE Finalize
    BY <1>23 DEF Finalize, MainGo
  <1>24. CASE ShutdownSamplers
    BY <1>24 DEF ShutdownSamplers, MainGo
  <1>25. CASE AwaitThread
    BY <1>25 DEF AwaitThread, MainGo
  <1>26. CASE Save
    BY <1>26 DEF Save, MainGo
  <1>27. CASE UNCHANGED vars
    BY <1>27 DEF vars
  <1> QED  BY <1>1, <1>2, <1>3, <1>4, <1>5, <1>6, <1>7, <1>8, <1>9, <1>10,
              <1>11, <1>12, <1>13, <1>14, <1>15, <1>16, <1>17, <1>18, <1>19,
              <1>20, <1>21, <1>22, <1>23, <1>24, <1>25, <1>26, <1>27
           DEF Next, Handler, Experiments, MainThread

-----------------------------------------------------------------------------
(* No experiment has been tried at the beginning.                              *)
LEMMA InitInv == Init => TypeOK /\ SelectInv /\ SaveInv /\ ActiveIsPerformed
  <1> SUFFICES ASSUME Init PROVE TypeOK /\ SelectInv /\ SaveInv /\ ActiveIsPerformed
    OBVIOUS
  <1> USE ExperimentAssumption, AddressAssumption DEF Init, None
  <1>1. history \in Seq(1 .. number) /\ saved \in 0 .. Len(history)
    OBVIOUS
  <1>2. number \in 0 .. MaxExperiments /\ claimed \in 1 .. Slots /\ idx \in 0 .. 2 * Slots
    OBVIOUS
  <1>3. slots \in [1 .. Slots -> Address \cup {None}]
    OBVIOUS
  <1>4. TypeOK
    BY <1>1, <1>2, <1>3 DEF TypeOK
  <1>5. SelectInv /\ SaveInv /\ ActiveIsPerformed
    BY DEF SelectInv, SaveInv, ActiveIsPerformed
  <1> QED  BY <1>4, <1>5

(* The types; the slot a handler has claimed exists, and an active experiment  *)
(* is the last one that was tried and has an address.                          *)
THEOREM TypeCorrect == Spec => []TypeOK
  <1>1. TypeOK /\ SelectInv /\ [Next]_vars => (TypeOK /\ SelectInv)'
    BY StepType, StepSelect
  <1> QED  BY InitInv, <1>1, PTL DEF Spec

(* Unless the wait for the experiment thread is cut off, the history that the  *)
(* main thread saves is the final one, and the samples are not processed by    *)
(* both threads: the thread has exited, or it has not begun an experiment and  *)
(* finds the profiler finalized.                                               *)
THEOREM HistoryComplete == Spec => []SavesAll
  <1>1. TypeOK /\ SelectInv /\ SaveInv /\ [Next]_vars
          => (TypeOK /\ SelectInv /\ SaveInv)'
    BY StepType, StepSelect, StepSave
  <1>2. SaveInv => SavesAll
    BY DEF SaveInv, SavesAll
  <1> QED  BY InitInv, <1>1, <1>2, PTL DEF Spec

(* When experiments are not end to end, nobody pauses for an experiment that   *)
(* its thread has left, before the finalization.                               *)
THEOREM NotLeftActive == ASSUME ~EndToEnd PROVE Spec => []ActiveIsPerformed
  <1>1. TypeOK /\ SelectInv /\ ActiveIsPerformed /\ [Next]_vars
          => (TypeOK /\ SelectInv /\ ActiveIsPerformed)'
    BY StepType, StepSelect, StepActive
  <1> QED  BY InitInv, <1>1, PTL DEF Spec
=============================================================================
