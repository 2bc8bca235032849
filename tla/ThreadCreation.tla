--------------------------- MODULE ThreadCreation ---------------------------
(* The wrapper of pthread_create: every thread of the program starts in        *)
(* wrapper::wrap(), which notes its handle and, in operator()(), gives it a    *)
(* bundle of measurements; both are removed when the thread ends.  At the      *)
(* finalization shutdown() sends a signal to the threads that are left, waits  *)
(* a second for their handlers, and stops the remaining bundles itself.        *)
(*                                                                             *)
(* A thread stands for its handle and its index: neither is used again.  The   *)
(* parent's wait for its child, which is limited, and the state of the thread  *)
(* are left out.                                                               *)
EXTENDS Integers, FiniteSets

CONSTANTS
    Thread,        \* threads that are created
    NoThread       \* the owner of a lock that is free

Main == "main"     \* the main thread, as the owner of a lock

ASSUME ThreadAssumption == Main \notin Thread /\ NoThread \notin Thread \cup {Main}

VARIABLES
    state,         \* get_state()
    isShutdown,    \* *is_shutdown
    at,            \* where a thread is
    offset,        \* threads that omnitrace itself has started
    aborted,       \* history: threads that left their routine with pthread_exit()
    handles,       \* native_handles
    internal,      \* internal_native_handles
    handlesLock,   \* owner of native_handles_mutex
    bundles,       \* threads with an entry in *bundles
    bundlesLock,   \* owner of *bundles_mutex
    bundle,        \* what has become of a thread's bundle
    handler,       \* the signal of a thread, and where its handler is
    delivered,     \* shutdown_signals_delivered
    held,          \* the count that a handler has loaded
    expected,      \* _expected_shutdown_signals_delivered
    main,          \* where the main thread is
    late           \* history: threads in their set up when the bundles were cleared

threadVars == <<at, offset, aborted>>
handleVars == <<handles, internal, handlesLock>>
bundleVars == <<bundles, bundlesLock, bundle>>
signalVars == <<handler, delivered, held, expected>>
mainVars == <<state, isShutdown, main, late>>
vars == <<threadVars, handleVars, bundleVars, signalVars, mainVars>>

Init ==
    /\ state = "Init" /\ isShutdown = FALSE /\ main = "run" /\ late = {}
    /\ at = [t \in Thread |-> "none"] /\ offset = {} /\ aborted = {}
    /\ handles = {} /\ internal = {} /\ handlesLock = NoThread
    /\ bundles = {} /\ bundlesLock = NoThread
    /\ bundle = [t \in Thread |-> "none"]
    /\ handler = [t \in Thread |-> "none"] /\ delivered = 0 /\ expected = 0
    /\ held = [t \in Thread |-> 0]

-----------------------------------------------------------------------------
(* The thread, while no handler runs on top of it                              *)

GoTo(t, from, to) ==
    /\ at[t] = from /\ handler[t] \in {"none", "pending", "done"} /\ main # "killed"
    /\ at' = [at EXCEPT ![t] = to]

Become(t, value) == bundle' = [bundle EXCEPT ![t] = value]

Acquire(lock, owner) == lock = NoThread /\ lock' = owner
Release(lock, owner) == lock = owner /\ lock' = NoThread

(* pthread_create_gotcha::operator(): the program creates a thread, from the   *)
(* main thread or from one of its own, or omnitrace does.  The wrapper is      *)
(* taken out before the threads are shut down.                                 *)
Create(t) ==
    /\ GoTo(t, "none", "wrap")
    /\ main \in {"run", "finalizing"}
    /\ \E internally \in BOOLEAN :
         offset' = IF internally \/ state # "Active" THEN offset \cup {t} ELSE offset
    /\ UNCHANGED <<aborted, handleVars, bundleVars, signalVars, mainVars>>

(* wrap(): stores the handle, under the lock.                                  *)
StoreHandle(t) ==
    /\ GoTo(t, "wrap", "start")
    /\ handlesLock = NoThread
    /\ handles' = handles \cup {t}
    /\ UNCHANGED <<offset, aborted, internal, handlesLock, bundleVars, signalVars,
                   mainVars>>

(* wrapper::operator(): after the shutdown the routine runs by itself.         *)
CheckShutdown(t) ==
    /\ GoTo(t, "start", IF isShutdown THEN "unmanaged" ELSE "init")
    /\ UNCHANGED <<offset, aborted, handleVars, bundleVars, signalVars, mainVars>>

(* _active is computed once, for all of the set up.                            *)
CheckActive(t) ==
    /\ GoTo(t, "init", IF t \in offset THEN "offset"
                       ELSE IF state = "Active" THEN "setup" ELSE "run")
    /\ UNCHANGED <<offset, aborted, handleVars, bundleVars, signalVars, mainVars>>

StoreInternal(t) ==
    /\ GoTo(t, "offset", "run")
    /\ handlesLock = NoThread
    /\ internal' = internal \cup {t}
    /\ UNCHANGED <<offset, aborted, handles, handlesLock, bundleVars, signalVars,
                   mainVars>>

LockForBundle(t) ==
    /\ GoTo(t, "setup", "emplace")
    /\ Acquire(bundlesLock, t)
    /\ UNCHANGED <<offset, aborted, handleVars, bundles, bundle, signalVars, mainVars>>

(* Mutant: the lock lives as long as the function.                             *)
EmplaceLocked(t) ==
    /\ GoTo(t, "emplace", "emplaced")
    /\ bundles' = bundles \cup {t}
    /\ Become(t, "created")
    /\ UNCHANGED <<offset, aborted, handleVars, bundlesLock, signalVars, mainVars>>

EmplaceBundle(t) ==
    /\ GoTo(t, "emplace", "emplaced")
    /\ bundles' = bundles \cup {t}
    /\ Become(t, "created")
    /\ Release(bundlesLock, t)
    /\ UNCHANGED <<offset, aborted, handleVars, signalVars, mainVars>>

StartBundle(t) ==
    /\ GoTo(t, "emplaced", "run")
    /\ Become(t, "running")
    /\ UNCHANGED <<offset, aborted, handleVars, bundles, bundlesLock, signalVars,
                   mainVars>>

(* The routine of the program returns ...                                      *)
Return(t) ==
    /\ \/ GoTo(t, "run", IF state = "Finalized" THEN "exit" ELSE "destroy")
       \/ GoTo(t, "unmanaged", "exit")
    /\ UNCHANGED <<offset, aborted, handleVars, bundleVars, signalVars, mainVars>>

(* ... or ends its thread.                                                     *)
Abort(t) ==
    /\ GoTo(t, "run", "exit") \/ GoTo(t, "unmanaged", "exit")
    /\ aborted' = aborted \cup {t}
    /\ UNCHANGED <<offset, handleVars, bundleVars, signalVars, mainVars>>

(* _dtor: looks at the state again; only a thread with an index goes on.       *)
CheckStillActive(t) ==
    /\ GoTo(t, "destroy", IF bundle[t] # "none" /\ state = "Active"
                          THEN "stop" ELSE "exit")
    /\ UNCHANGED <<offset, aborted, handleVars, bundleVars, signalVars, mainVars>>

(* Its own pointer to the bundle is used without the lock.                     *)
StopOwnBundle(t) ==
    /\ GoTo(t, "stop", "erase")
    /\ Become(t, "stopped")
    /\ UNCHANGED <<offset, aborted, handleVars, bundles, bundlesLock, signalVars,
                   mainVars>>

(* shutdown(tid): nothing is left to do once shutdown() has begun.             *)
CheckErase(t) ==
    /\ GoTo(t, "erase", IF isShutdown THEN "exit" ELSE "eraseLock")
    /\ UNCHANGED <<offset, aborted, handleVars, bundleVars, signalVars, mainVars>>

LockForErase(t) ==
    /\ GoTo(t, "eraseLock", "erasing")
    /\ Acquire(bundlesLock, t)
    /\ UNCHANGED <<offset, aborted, handleVars, bundles, bundle, signalVars, mainVars>>

EraseBundle(t) ==
    /\ GoTo(t, "erasing", "exit")
    /\ bundles' = bundles \ {t}
    /\ Release(bundlesLock, t)
    /\ UNCHANGED <<offset, aborted, handleVars, bundle, signalVars, mainVars>>

(* Mutant: without _remover, only the end of wrap() removes the handle, where  *)
(* the thread is compared with itself (lines 336-340).                         *)
ExitKeepsHandle(t) ==
    /\ GoTo(t, "exit", "gone")
    /\ UNCHANGED <<offset, aborted, handleVars, bundleVars, signalVars, mainVars>>

(* _remover, a destructor of the thread: the handle is removed unless the      *)
(* profiler is finalized.  A signal that is still pending is lost.             *)
Exit(t) ==
    /\ GoTo(t, "exit", "gone")
    /\ \/ state = "Finalized" /\ UNCHANGED handles
       \/ state # "Finalized" /\ handlesLock = NoThread /\ handles' = handles \ {t}
    /\ UNCHANGED <<offset, aborted, internal, handlesLock, bundleVars, signalVars,
                   mainVars>>

Step(t) ==
    \/ StoreHandle(t) \/ CheckShutdown(t) \/ CheckActive(t) \/ StoreInternal(t)
    \/ LockForBundle(t) \/ EmplaceBundle(t) \/ StartBundle(t) \/ CheckStillActive(t)
    \/ StopOwnBundle(t) \/ CheckErase(t) \/ LockForErase(t) \/ EraseBundle(t) \/ Exit(t)

-----------------------------------------------------------------------------
(* pthread_create_gotcha_shutdown_handler()                                    *)
Handle(t, from, to) ==
    /\ at[t] \notin {"none", "gone"} /\ main # "killed"
    /\ handler[t] = from /\ handler' = [handler EXCEPT ![t] = to]

(* The signal interrupts the thread.                                           *)
Deliver(t) ==
    /\ Handle(t, "pending", "shutdown") /\ main = "wait"
    /\ UNCHANGED <<threadVars, handleVars, bundleVars, delivered, held, expected, mainVars>>

(* Mutant: shutdown(tid) takes the lock before it looks at is_shutdown.        *)
HandlerShutdownLocks(t) ==
    /\ Handle(t, "shutdown", "count")
    /\ bundlesLock = NoThread
    /\ UNCHANGED <<threadVars, handleVars, bundleVars, delivered, held, expected, mainVars>>

(* shutdown(tid) would remove the bundle of the thread under the lock, but it   *)
(* returns at once when is_shutdown is set, as it is by then ...               *)
HandlerShutdown(t) ==
    /\ Handle(t, "shutdown", "count")
    /\ \/ isShutdown /\ UNCHANGED <<bundles, bundle>>
       \/ /\ ~isShutdown /\ bundlesLock = NoThread
          /\ bundles' = bundles \ {t}
          /\ Become(t, IF t \in bundles THEN "stopped" ELSE bundle[t])
    /\ UNCHANGED <<threadVars, handleVars, bundlesLock, delivered, held, expected, mainVars>>

(* ... then ++shutdown_signals_delivered, which is neither atomic ...          *)
LoadCount(t) ==
    /\ Handle(t, "count", "store")
    /\ held' = [held EXCEPT ![t] = delivered]
    /\ UNCHANGED <<threadVars, handleVars, bundleVars, delivered, expected, mainVars>>

(* ... nor protected.                                                          *)
StoreCount(t) ==
    /\ Handle(t, "store", "done")
    /\ delivered' = held[t] + 1
    /\ UNCHANGED <<threadVars, handleVars, bundleVars, held, expected, mainVars>>

(* Once the wait is over the former handler is installed again: by default a   *)
(* signal that comes late ends the process.                                    *)
DeliverLate(t) ==
    /\ at[t] \notin {"none", "gone"} /\ handler[t] = "pending"
    /\ main \in {"lockBundles", "clear", "done"} /\ main' = "killed"
    /\ UNCHANGED <<state, isShutdown, late, threadVars, handleVars, bundleVars, signalVars>>

Handler(t) == Deliver(t) \/ HandlerShutdown(t) \/ LoadCount(t) \/ StoreCount(t)

-----------------------------------------------------------------------------
(* The main thread: the finalization as far as threads see it                  *)
MainGo(from, to) == main = from /\ main' = to

Activate ==
    /\ MainGo("run", "run") /\ state = "Init"
    /\ state' = "Active"
    /\ UNCHANGED <<isShutdown, late, threadVars, handleVars, bundleVars, signalVars>>

Finalize ==
    /\ MainGo("run", "finalizing") /\ state = "Active"
    /\ state' = "Finalized"
    /\ UNCHANGED <<isShutdown, late, threadVars, handleVars, bundleVars, signalVars>>

(* shutdown(), after the wrapper has been taken out, also installs the handler.*)
BeginShutdown ==
    /\ MainGo("finalizing", "lock")
    /\ isShutdown' = TRUE
    /\ UNCHANGED <<state, late, threadVars, handleVars, bundleVars, signalVars>>

LockHandles ==
    /\ MainGo("lock", "kill")
    /\ Acquire(handlesLock, Main)
    /\ UNCHANGED <<state, isShutdown, late, threadVars, handles, internal, bundleVars,
                   signalVars>>

(* The signals are sent to all handles except the internal ones.               *)
Signal ==
    /\ MainGo("kill", "wait")
    /\ LET to == handles \ internal
       IN /\ handler' = [t \in Thread |-> IF t \in to THEN "pending" ELSE handler[t]]
          /\ expected' = Cardinality(to)
    /\ UNCHANGED <<state, isShutdown, late, threadVars, handleVars, bundleVars, delivered,
                   held>>

(* It waits, with the lock, until all have counted or twenty attempts have     *)
(* failed, which may always happen, and restores the former handler.           *)
WaitForHandlers ==
    /\ MainGo("wait", "lockBundles")
    /\ Release(handlesLock, Main)
    /\ UNCHANGED <<state, isShutdown, late, threadVars, handles, internal, bundleVars,
                   signalVars>>

LockBundles ==
    /\ MainGo("lockBundles", "clear")
    /\ Acquire(bundlesLock, Main)
    /\ UNCHANGED <<state, isShutdown, late, threadVars, handleVars, bundles, bundle,
                   signalVars>>

SettingUp == {t \in Thread : at[t] \in {"setup", "emplaced"}}

(* Mutant: the entries are removed without stopping the bundles.               *)
ClearWithoutStop ==
    /\ MainGo("clear", "done")
    /\ bundles' = {}
    /\ late' = SettingUp
    /\ Release(bundlesLock, Main)
    /\ UNCHANGED <<state, isShutdown, threadVars, handleVars, bundle, signalVars>>

(* It stops the bundles that are left, and clears them.                        *)
ClearBundles ==
    /\ MainGo("clear", "done")
    /\ bundle' = [t \in Thread |-> IF t \in bundles THEN "stopped" ELSE bundle[t]]
    /\ bundles' = {}
    /\ late' = SettingUp
    /\ Release(bundlesLock, Main)
    /\ UNCHANGED <<state, isShutdown, threadVars, handleVars, signalVars>>

Shutdown ==
    \/ BeginShutdown \/ LockHandles \/ Signal \/ WaitForHandlers \/ LockBundles
    \/ ClearBundles

Next ==
    \/ \E t \in Thread : Create(t) \/ Return(t) \/ Abort(t) \/ Step(t) \/ Handler(t)
    \/ \E t \in Thread : DeliverLate(t)
    \/ Activate \/ Finalize \/ Shutdown

Spec == Init /\ [][Next]_vars

(* All threads are scheduled, also while they hold a lock, and signals arrive. *)
(* Neither the finalization nor the end of a routine has to come.              *)
FairSpec ==
    /\ Spec /\ WF_vars(Shutdown)
    /\ \A t \in Thread : WF_vars(Step(t)) /\ WF_vars(Handler(t))

-----------------------------------------------------------------------------
(* The types; locks are held exactly in the steps that need them, and only a   *)
(* thread that the shutdown has signalled is interrupted.                      *)
TypeOK ==
    /\ state \in {"Init", "Active", "Finalized"} /\ isShutdown \in BOOLEAN
    /\ at \in [Thread -> {"none", "wrap", "start", "init", "offset", "setup", "emplace",
                          "emplaced", "run", "unmanaged", "destroy", "stop", "erase",
                          "eraseLock", "erasing", "exit", "gone"}]
    /\ {offset, aborted, handles, internal, bundles, late} \subseteq SUBSET Thread
    /\ bundle \in [Thread -> {"none", "created", "running", "stopped"}]
    /\ handler \in [Thread -> {"none", "pending", "shutdown", "count", "store", "done"}]
    /\ held \in [Thread -> Nat] /\ delivered \in Nat /\ expected \in Nat
    /\ main \in {"run", "finalizing", "lock", "kill", "wait", "lockBundles", "clear",
                 "done", "killed"}
    /\ handlesLock = IF main \in {"kill", "wait"} THEN Main ELSE NoThread
    /\ \A t \in Thread : bundlesLock = t <=> at[t] \in {"emplace", "erasing"}
    /\ main # "killed" => (bundlesLock = Main <=> main = "clear")
    /\ \A t \in Thread : handler[t] # "none" =>
         main \in {"wait", "lockBundles", "clear", "done", "killed"}

(* A thread that ends while the profiler is active leaves nothing behind: no   *)
(* handle that a later shutdown would send a signal to, and, unless it was     *)
(* ended by pthread_exit() in the middle of its routine, no bundle.            *)
EndedThreadsAreForgotten ==
    state # "Finalized" =>
        \A t \in Thread : at[t] = "gone" =>
            /\ t \notin handles
            /\ t \notin aborted => t \notin bundles /\ bundle[t] \in {"none", "stopped"}

(* The shutdown "stops any remaining dangling bundles" (line 445): after it a  *)
(* bundle still runs only if its thread was between the check of the state and *)
(* the start of the bundle when the bundles were cleared.                      *)
MeasurementsStopped ==
    main = "done" =>
        \A t \in Thread : bundle[t] \in {"created", "running"} => t \in late

(* The shutdown ends, whatever locks the threads hold when its signals         *)
(* interrupt them: handlers do not wait for locks.  Only a late signal may end *)
(* the process before.                                                         *)
ShutdownReturns == main = "lock" ~> main \in {"done", "killed"}

(* The shutdown does not end the process: no signal is left when the former    *)
(* handler is restored.                                                        *)
SignalsHandled == main # "killed"

(* When the wait is over and no handler is on its way, the number of signals   *)
(* delivered is the expected one (line 432).                                   *)
AllDelivered ==
    main = "lockBundles" /\ (\A t \in Thread : handler[t] \in {"none", "done"}) =>
        delivered = expected
=============================================================================
