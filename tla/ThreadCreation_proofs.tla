------------------------- MODULE ThreadCreation_proofs -------------------------
(* Proofs about ThreadCreation, for any set of threads, also an infinite one:  *)
(* the types, with the owners of the locks, and what is left of a thread when  *)
(* it has ended and of the bundles after the shutdown.                         *)
EXTENDS ThreadCreation, FiniteSetTheorems, TLAPS

(* The order of the main thread's steps; signals are sent to finitely many.    *)
OrderInv ==
    /\ main = "run" <=> state # "Finalized"
    /\ isShutdown <=> main \notin {"run", "finalizing"}
    /\ IsFiniteSet(handles)

(* Where a thread is and what has become of its bundle.                        *)
SetupInv == \A t \in Thread :
    /\ bundle[t] = "none" => t \notin bundles
    /\ at[t] \in {"none", "wrap", "start", "init", "offset", "setup", "emplace", "unmanaged"}
         => bundle[t] = "none"
    /\ state = "Init" =>
         bundle[t] = "none" /\ at[t] \notin {"setup", "emplace", "emplaced", "stop"}
    /\ at[t] \in {"erase", "eraseLock", "erasing"} => bundle[t] = "stopped"

Runs == {"created", "running"}

(* Before the finalization a thread on its way out has stopped its bundle.     *)
ForgetInv == state # "Finalized" => \A t \in Thread :
    /\ at[t] \in {"none", "wrap", "gone"} => t \notin handles
    /\ at[t] \in {"exit", "gone"} =>
         t \in aborted \/ (t \notin bundles /\ bundle[t] \notin Runs)

(* Until they are cleared all running bundles are registered, and after that   *)
(* no thread begins its set up.                                                *)
StopInv == \A t \in Thread :
    /\ main \notin {"done", "killed"} /\ (at[t] = "emplaced" \/ bundle[t] \in Runs)
         => t \in bundles
    /\ main = "done" /\ (at[t] \in {"setup", "emplace", "emplaced"} \/ bundle[t] \in Runs)
         => t \in late

-----------------------------------------------------------------------------
(* Each action keeps the types; the signals that are expected are counted.     *)
LEMMA StepType == TypeOK /\ OrderInv /\ [Next]_vars => TypeOK'
  <1> SUFFICES ASSUME TypeOK, OrderInv, [Next]_vars PROVE TypeOK'
    OBVIOUS
  <1> USE ThreadAssumption
      DEF TypeOK,
          threadVars, handleVars, bundleVars, signalVars, mainVars
  <1>1. ASSUME NEW t \in Thread,
               Create(t) \/ Return(t) \/ Abort(t) \/ Step(t) \/ Handler(t) \/ DeliverLate(t)
        PROVE  TypeOK'
    <2>1. CASE Create(t)
      BY <2>1 DEF Create, GoTo
    <2>2. CASE Return(t)
      BY <2>2 DEF Return, GoTo
    <2>3. CASE Abort(t)
      BY <2>3 DEF Abort, GoTo
    <2>4. CASE StoreHandle(t)
      BY <2>4 DEF StoreHandle, GoTo
    <2>5. CASE CheckShutdown(t)
      BY <2>5 DEF CheckShutdown, GoTo
    <2>6. CASE CheckActive(t)
      BY <2>6 DEF CheckActive, GoTo
    <2>7. CASE StoreInternal(t)
      BY <2>7 DEF StoreInternal, GoTo
    <2>8. CASE LockForBundle(t)
      BY <2>8 DEF LockForBundle, GoTo, Acquire
    <2>9. CASE EmplaceBundle(t)
      BY <2>9 DEF EmplaceBundle, GoTo, Release, Become
    <2>10. CASE StartBundle(t)
      BY <2>10 DEF StartBundle, GoTo, Become
    <2>11. CASE CheckStillActive(t)
      BY <2>11 DEF CheckStillActive, GoTo
    <2>12. CASE StopOwnBundle(t)
      BY <2>12 DEF StopOwnBundle, GoTo, Become
    <2>13. CASE CheckErase(t)
      BY <2>13 DEF CheckErase, GoTo
    <2>14. CASE LockForErase(t)
      BY <2>14 DEF LockForErase, GoTo, Acquire
    <2>15. CASE EraseBundle(t)
      BY <2>15 DEF EraseBundle, GoTo, Release
    <2>16. CASE Exit(t)
      BY <2>16 DEF Exit, GoTo
    <2>17. CASE Deliver(t)
      BY <2>17 DEF Deliver, Handle
    <2>18. CASE HandlerShutdown(t)
      BY <2>18 DEF HandlerShutdown, Handle, Become
    <2>19. CASE LoadCount(t)
      BY <2>19 DEF LoadCount, Handle
    <2>20. CASE StoreCount(t)
      BY <2>20 DEF StoreCount, Handle
    <2>21. CASE DeliverLate(t)
      BY <2>21 DEF DeliverLate
    <2> QED  BY <1>1, <2>1, <2>2, <2>3, <2>4, <2>5, <2>6, <2>7, <2>8, <2>9,
                <2>10, <2>11, <2>12, <2>13, <2>14, <2>15, <2>16, <2>17, <2>18,
                <2>19, <2>20, <2>21
             DEF Step, Handler
  <1>2. CASE Activate
    BY <1>2 DEF Activate, MainGo
  <1>3. CASE Finalize
    BY <1>3 DEF Finalize, MainGo
  <1>4. CASE BeginShutdown
    BY <1>4 DEF BeginShutdown, MainGo
  <1>5. CASE LockHandles
    BY <1>5 DEF LockHandles, MainGo, Acquire
  <1>6. CASE Signal
    <2>1. Cardinality(handles \ internal) \in Nat
      BY FS_Difference, FS_CardinalityType DEF OrderInv
    <2> QED  BY <1>6, <2>1 DEF Signal, MainGo
  <1>7. CASE WaitForHandlers
    BY <1>7 DEF WaitForHandlers, MainGo, Release
  <1>8. CASE LockBundles
    BY <1>8 DEF LockBundles, MainGo, Acquire
  <1>9. CASE ClearBundles
    BY <1>9 DEF ClearBundles, MainGo, Release, SettingUp
  <1>10. CASE UNCHANGED vars
    BY <1>10 DEF vars
  <1> QED  BY <1>1, <1>2, <1>3, <1>4, <1>5, <1>6, <1>7, <1>8, <1>9, <1>10
           DEF Next, Shutdown

(* Each action keeps the order, and adds at most one handle.                   *)
LEMMA StepOrder == TypeOK /\ OrderInv /\ [Next]_vars => OrderInv'
  <1> SUFFICES ASSUME TypeOK, OrderInv, [Next]_vars PROVE OrderInv'
    OBVIOUS
  <1> USE ThreadAssumption
      DEF TypeOK, OrderInv,
          threadVars, handleVars, bundleVars, signalVars, mainVars
  <1>1. ASSUME NEW t \in Thread,
               Create(t) \/ Return(t) \/ Abort(t) \/ Step(t) \/ Handler(t) \/ DeliverLate(t)
        PROVE  OrderInv'
    <2>1. CASE Create(t)
      BY <2>1 DEF Create, GoTo
    <2>2. CASE Return(t)
      BY <2>2 DEF Return, GoTo
    <2>3. CASE Abort(t)
      BY <2>3 DEF Abort, GoTo
    <2>4. CASE StoreHandle(t)
      BY <2>4, FS_AddElement DEF StoreHandle, GoTo
    <2>5. CASE CheckShutdown(t)
      BY <2>5 DEF CheckShutdown, GoTo
    <2>6. CASE CheckActive(t)
      BY <2>6 DEF CheckActive, GoTo
    <2>7. CASE StoreInternal(t)
      BY <2>7 DEF StoreInternal, GoTo
    <2>8. CASE LockForBundle(t)
      BY <2>8 DEF LockForBundle, GoTo, Acquire
    <2>9. CASE EmplaceBundle(t)
      BY <2>9 DEF EmplaceBundle, GoTo, Release, Become
    <2>10. CASE StartBundle(t)
      BY <2>10 DEF StartBundle, GoTo, Become
    <2>11. CASE CheckStillActive(t)
      BY <2>11 DEF CheckStillActive, GoTo
    <2>12. CASE StopOwnBundle(t)
      BY <2>12 DEF StopOwnBundle, GoTo, Become
    <2>13. CASE CheckErase(t)
      BY <2>13 DEF CheckErase, GoTo
    <2>14. CASE LockForErase(t)
      BY <2>14 DEF LockForErase, GoTo, Acquire
    <2>15. CASE EraseBundle(t)
      BY <2>15 DEF EraseBundle, GoTo, Release
    <2>16. CASE Exit(t)
      BY <2>16, FS_RemoveElement DEF Exit, GoTo
    <2>17. CASE Deliver(t)
      BY <2>17 DEF Deliver, Handle
    <2>18. CASE HandlerShutdown(t)
      BY <2>18 DEF HandlerShutdown, Handle, Become
    <2>19. CASE LoadCount(t)
      BY <2>19 DEF LoadCount, Handle
    <2>20. CASE StoreCount(t)
      BY <2>20 DEF StoreCount, Handle
    <2>21. CASE DeliverLate(t)
      BY <2>21 DEF DeliverLate
    <2> QED  BY <1>1, <2>1, <2>2, <2>3, <2>4, <2>5, <2>6, <2>7, <2>8, <2>9,
                <2>10, <2>11, <2>12, <2>13, <2>14, <2>15, <2>16, <2>17, <2>18,
                <2>19, <2>20, <2>21
             DEF Step, Handler
  <1>2. CASE Activate
    BY <1>2 DEF Activate, MainGo
  <1>3. CASE Finalize
    BY <1>3 DEF Finalize, MainGo
  <1>4. CASE BeginShutdown
    BY <1>4 DEF BeginShutdown, MainGo
  <1>5. CASE LockHandles
    BY <1>5 DEF LockHandles, MainGo, Acquire
  <1>6. CASE Signal
    BY <1>6 DEF Signal, MainGo
  <1>7. CASE WaitForHandlers
    BY <1>7 DEF WaitForHandlers, MainGo, Release
  <1>8. CASE LockBundles
    BY <1>8 DEF LockBundles, MainGo, Acquire
  <1>9. CASE ClearBundles
    BY <1>9 DEF ClearBundles, MainGo, Release, SettingUp
  <1>10. CASE UNCHANGED vars
    BY <1>10 DEF vars
  <1> QED  BY <1>1, <1>2, <1>3, <1>4, <1>5, <1>6, <1>7, <1>8, <1>9, <1>10
           DEF Next, Shutdown

(* A bundle is made in the step from emplace to emplaced and nowhere else; a   *)
(* handler changes nothing, because it finds isShutdown set.                   *)
LEMMA StepSetup == TypeOK /\ OrderInv /\ SetupInv /\ [Next]_vars => SetupInv'
  <1> SUFFICES ASSUME TypeOK, OrderInv, SetupInv, [Next]_vars PROVE SetupInv'
    OBVIOUS
  <1> USE ThreadAssumption
      DEF TypeOK, OrderInv, SetupInv,
          threadVars, handleVars, bundleVars, signalVars, mainVars
  <1>1. ASSUME NEW t \in Thread,
               Create(t) \/ Return(t) \/ Abort(t) \/ Step(t) \/ Handler(t) \/ DeliverLate(t)
        PROVE  SetupInv'
    <2>1. CASE Create(t)
      BY <2>1 DEF Create, GoTo
    <2>2. CASE Return(t)
      BY <2>2 DEF Return, GoTo
    <2>3. CASE Abort(t)
      BY <2>3 DEF Abort, GoTo
    <2>4. CASE StoreHandle(t)
      BY <2>4 DEF StoreHandle, GoTo
    <2>5. CASE CheckShutdown(t)
      BY <2>5 DEF CheckShutdown, GoTo
    <2>6. CASE CheckActive(t)
      BY <2>6 DEF CheckActive, GoTo
    <2>7. CASE StoreInternal(t)
      BY <2>7 DEF StoreInternal, GoTo
    <2>8. CASE LockForBundle(t)
      BY <2>8 DEF LockForBundle, GoTo, Acquire
    <2>9. CASE EmplaceBundle(t)
      BY <2>9 DEF EmplaceBundle, GoTo, Release, Become
    <2>10. CASE StartBundle(t)
      BY <2>10 DEF StartBundle, GoTo, Become
    <2>11. CASE CheckStillActive(t)
      BY <2>11 DEF CheckStillActive, GoTo
    <2>12. CASE StopOwnBundle(t)
      BY <2>12 DEF StopOwnBundle, GoTo, Become
    <2>13. CASE CheckErase(t)
      BY <2>13 DEF CheckErase, GoTo
    <2>14. CASE LockForErase(t)
      BY <2>14 DEF LockForErase, GoTo, Acquire
    <2>15. CASE EraseBundle(t)
      BY <2>15 DEF EraseBundle, GoTo, Release
    <2>16. CASE Exit(t)
      BY <2>16 DEF Exit, GoTo
    <2>17. CASE Deliver(t)
      BY <2>17 DEF Deliver, Handle
    <2>18. CASE HandlerShutdown(t)
      BY <2>18 DEF HandlerShutdown, Handle, Become
    <2>19. CASE LoadCount(t)
      BY <2>19 DEF LoadCount, Handle
    <2>20. CASE StoreCount(t)
      BY <2>20 DEF StoreCount, Handle
    <2>21. CASE DeliverLate(t)
      BY <2>21 DEF DeliverLate
    <2> QED  BY <1>1, <2>1, <2>2, <2>3, <2>4, <2>5, <2>6, <2>7, <2>8, <2>9,
                <2>10, <2>11, <2>12, <2>13, <2>14, <2>15, <2>16, <2>17, <2>18,
                <2>19, <2>20, <2>21
             DEF Step, Handler
  <1>2. CASE Activate
    BY <1>2 DEF Activate, MainGo
  <1>3. CASE Finalize
    BY <1>3 DEF Finalize, MainGo
  <1>4. CASE BeginShutdown
    BY <1>4 DEF BeginShutdown, MainGo
  <1>5. CASE LockHandles
    BY <1>5 DEF LockHandles, MainGo, Acquire
  <1>6. CASE Signal
    BY <1>6 DEF Signal, MainGo
  <1>7. CASE WaitForHandlers
    BY <1>7 DEF WaitForHandlers, MainGo, Release
  <1>8. CASE LockBundles
    BY <1>8 DEF LockBundles, MainGo, Acquire
  <1>9. CASE ClearBundles
    BY <1>9 DEF ClearBundles, MainGo, Release, SettingUp
  <1>10. CASE UNCHANGED vars
    BY <1>10 DEF vars
  <1> QED  BY <1>1, <1>2, <1>3, <1>4, <1>5, <1>6, <1>7, <1>8, <1>9, <1>10
           DEF Next, Shutdown

(* A thread that returns stops and removes its bundle before it exits, and one *)
(* that has no bundle has nothing to remove.                                   *)
LEMMA StepForget ==
    TypeOK /\ OrderInv /\ SetupInv /\ ForgetInv /\ [Next]_vars => ForgetInv'
  <1> SUFFICES ASSUME TypeOK, OrderInv, SetupInv, ForgetInv, [Next]_vars
               PROVE  ForgetInv'
    OBVIOUS
  <1> USE ThreadAssumption
      DEF TypeOK, OrderInv, SetupInv, ForgetInv, Runs,
          threadVars, handleVars, bundleVars, signalVars, mainVars
  <1>1. ASSUME NEW t \in Thread,
               Create(t) \/ Return(t) \/ Abort(t) \/ Step(t) \/ Handler(t) \/ DeliverLate(t)
        PROVE  ForgetInv'
    <2>1. CASE Create(t)
      BY <2>1 DEF Create, GoTo
    <2>2. CASE Return(t)
      BY <2>2 DEF Return, GoTo
    <2>3. CASE Abort(t)
      BY <2>3 DEF Abort, GoTo
    <2>4. CASE StoreHandle(t)
      BY <2>4 DEF StoreHandle, GoTo
    <2>5. CASE CheckShutdown(t)
      BY <2>5 DEF CheckShutdown, GoTo
    <2>6. CASE CheckActive(t)
      BY <2>6 DEF CheckActive, GoTo
    <2>7. CASE StoreInternal(t)
      BY <2>7 DEF StoreInternal, GoTo
    <2>8. CASE LockForBundle(t)
      BY <2>8 DEF LockForBundle, GoTo, Acquire
    <2>9. CASE EmplaceBundle(t)
      BY <2>9 DEF EmplaceBundle, GoTo, Release, Become
    <2>10. CASE StartBundle(t)
      BY <2>10 DEF StartBundle, GoTo, Become
    <2>11. CASE CheckStillActive(t)
      BY <2>11 DEF CheckStillActive, GoTo
    <2>12. CASE StopOwnBundle(t)
      BY <2>12 DEF StopOwnBundle, GoTo, Become
    <2>13. CASE CheckErase(t)
      BY <2>13 DEF CheckErase, GoTo
    <2>14. CASE LockForErase(t)
      BY <2>14 DEF LockForErase, GoTo, Acquire
    <2>15. CASE EraseBundle(t)
      BY <2>15 DEF EraseBundle, GoTo, Release
    <2>16. CASE Exit(t)
      BY <2>16 DEF Exit, GoTo
    <2>17. CASE Deliver(t)
      BY <2>17 DEF Deliver, Handle
    <2>18. CASE HandlerShutdown(t)
      BY <2>18 DEF HandlerShutdown, Handle, Become
    <2>19. CASE LoadCount(t)
      BY <2>19 DEF LoadCount, Handle
    <2>20. CASE StoreCount(t)
      BY <2>20 DEF StoreCount, Handle
    <2>21. CASE DeliverLate(t)
      BY <2>21 DEF DeliverLate
    <2> QED  BY <1>1, <2>1, <2>2, <2>3, <2>4, <2>5, <2>6, <2>7, <2>8, <2>9,
                <2>10, <2>11, <2>12, <2>13, <2>14, <2>15, <2>16, <2>17, <2>18,
                <2>19, <2>20, <2>21
             DEF Step, Handler
  <1>2. CASE Activate
    BY <1>2 DEF Activate, MainGo
  <1>3. CASE Finalize
    BY <1>3 DEF Finalize, MainGo
  <1>4. CASE BeginShutdown
    BY <1>4 DEF BeginShutdown, MainGo
  <1>5. CASE LockHandles
    BY <1>5 DEF LockHandles, MainGo, Acquire
  <1>6. CASE Signal
    BY <1>6 DEF Signal, MainGo
  <1>7. CASE WaitForHandlers
    BY <1>7 DEF WaitForHandlers, MainGo, Release
  <1>8. CASE LockBundles
    BY <1>8 DEF LockBundles, MainGo, Acquire
  <1>9. CASE ClearBundles
    BY <1>9 DEF ClearBundles, MainGo, Release, SettingUp
  <1>10. CASE UNCHANGED vars
    BY <1>10 DEF vars
  <1> QED  BY <1>1, <1>2, <1>3, <1>4, <1>5, <1>6, <1>7, <1>8, <1>9, <1>10
           DEF Next, Shutdown

(* A bundle is removed by its thread, which has stopped it, or by the          *)
(* shutdown, which stops it then.                                              *)
LEMMA StepStop ==
    TypeOK /\ OrderInv /\ SetupInv /\ StopInv /\ [Next]_vars => StopInv'
  <1> SUFFICES ASSUME TypeOK, OrderInv, SetupInv, StopInv, [Next]_vars
               PROVE  StopInv'
    OBVIOUS
  <1> USE ThreadAssumption
      DEF TypeOK, OrderInv, SetupInv, StopInv, Runs,
          threadVars, handleVars, bundleVars, signalVars, mainVars
  <1>1. ASSUME NEW t \in Thread,
               Create(t) \/ Return(t) \/ Abort(t) \/ Step(t) \/ Handler(t) \/ DeliverLate(t)
        PROVE  StopInv'
    <2>1. CASE Create(t)
      BY <2>1 DEF Create, GoTo
    <2>2. CASE Return(t)
      BY <2>2 DEF Return, GoTo
    <2>3. CASE Abort(t)
      BY <2>3 DEF Abort, GoTo
    <2>4. CASE StoreHandle(t)
      BY <2>4 DEF StoreHandle, GoTo
    <2>5. CASE CheckShutdown(t)
      BY <2>5 DEF CheckShutdown, GoTo
    <2>6. CASE CheckActive(t)
      BY <2>6 DEF CheckActive, GoTo
    <2>7. CASE StoreInternal(t)
      BY <2>7 DEF StoreInternal, GoTo
    <2>8. CASE LockForBundle(t)
      BY <2>8 DEF LockForBundle, GoTo, Acquire
    <2>9. CASE EmplaceBundle(t)
      BY <2>9 DEF EmplaceBundle, GoTo, Release, Become
    <2>10. CASE StartBundle(t)
      BY <2>10 DEF StartBundle, GoTo, Become
    <2>11. CASE CheckStillActive(t)
      BY <2>11 DEF CheckStillActive, GoTo
    <2>12. CASE StopOwnBundle(t)
      BY <2>12 DEF StopOwnBundle, GoTo, Become
    <2>13. CASE CheckErase(t)
      BY <2>13 DEF CheckErase, GoTo
    <2>14. CASE LockForErase(t)
      BY <2>14 DEF LockForErase, GoTo, Acquire
    <2>15. CASE EraseBundle(t)
      BY <2>15 DEF EraseBundle, GoTo, Release
    <2>16. CASE Exit(t)
      BY <2>16 DEF Exit, GoTo
    <2>17. CASE Deliver(t)
      BY <2>17 DEF Deliver, Handle
    <2>18. CASE HandlerShutdown(t)
      BY <2>18 DEF HandlerShutdown, Handle, Become
    <2>19. CASE LoadCount(t)
      BY <2>19 DEF LoadCount, Handle
    <2>20. CASE StoreCount(t)
      BY <2>20 DEF StoreCount, Handle
    <2>21. CASE DeliverLate(t)
      BY <2>21 DEF DeliverLate
    <2> QED  BY <1>1, <2>1, <2>2, <2>3, <2>4, <2>5, <2>6, <2>7, <2>8, <2>9,
                <2>10, <2>11, <2>12, <2>13, <2>14, <2>15, <2>16, <2>17, <2>18,
                <2>19, <2>20, <2>21
             DEF Step, Handler
  <1>2. CASE Activate
    BY <1>2 DEF Activate, MainGo
  <1>3. CASE Finalize
    BY <1>3 DEF Finalize, MainGo
  <1>4. CASE BeginShutdown
    BY <1>4 DEF BeginShutdown, MainGo
  <1>5. CASE LockHandles
    BY <1>5 DEF LockHandles, MainGo, Acquire
  <1>6. CASE Signal
    BY <1>6 DEF Signal, MainGo
  <1>7. CASE WaitForHandlers
    BY <1>7 DEF WaitForHandlers, MainGo, Release
  <1>8. CASE LockBundles
    BY <1>8 DEF LockBundles, MainGo, Acquire
  <1>9. CASE ClearBundles
    BY <1>9 DEF ClearBundles, MainGo, Release, SettingUp
  <1>10. CASE UNCHANGED vars
    BY <1>10 DEF vars
  <1> QED  BY <1>1, <1>2, <1>3, <1>4, <1>5, <1>6, <1>7, <1>8, <1>9, <1>10
           DEF Next, Shutdown

-----------------------------------------------------------------------------
Inv == TypeOK /\ OrderInv /\ SetupInv /\ ForgetInv /\ StopInv

(* No thread has been created at the beginning.                                *)
LEMMA InitInv == Init => Inv
  <1> SUFFICES ASSUME Init PROVE Inv
    OBVIOUS
  <1> USE ThreadAssumption DEF Init
  <1>1. TypeOK
    BY DEF TypeOK
  <1>2. OrderInv
    BY FS_EmptySet DEF OrderInv
  <1>3. SetupInv /\ ForgetInv /\ StopInv
    BY DEF SetupInv, ForgetInv, StopInv, Runs
  <1> QED  BY <1>1, <1>2, <1>3 DEF Inv

(* The parts of the invariant hold together.                                   *)
LEMMA Invariant == Spec => []Inv
  <1>1. Inv /\ [Next]_vars => Inv'
    BY StepType, StepOrder, StepSetup, StepForget, StepStop DEF Inv
  <1> QED  BY InitInv, <1>1, PTL DEF Spec

(* The types; each lock is owned by exactly the thread that is between taking  *)
(* and releasing it, and handlers run only once the shutdown has signalled.    *)
THEOREM TypeCorrect == Spec => []TypeOK
  <1>1. Inv => TypeOK
    BY DEF Inv
  <1> QED  BY Invariant, <1>1, PTL

(* A thread that ends while the profiler is active leaves no handle behind,    *)
(* which a signal might be sent to, and no bundle unless it left its routine   *)
(* with pthread_exit().                                                        *)
THEOREM Forgotten == Spec => []EndedThreadsAreForgotten
  <1>1. Inv => EndedThreadsAreForgotten
    BY DEF Inv, TypeOK, ForgetInv, Runs, EndedThreadsAreForgotten
  <1> QED  BY Invariant, <1>1, PTL

(* After the shutdown only the bundle of a thread that was in its set up when  *)
(* the bundles were cleared may still run.                                     *)
THEOREM Stopped == Spec => []MeasurementsStopped
  <1>1. Inv => MeasurementsStopped
    BY DEF Inv, StopInv, Runs, MeasurementsStopped
  <1> QED  BY Invariant, <1>1, PTL
=============================================================================
