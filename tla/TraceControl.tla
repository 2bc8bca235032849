---------------------------- MODULE TraceControl ----------------------------
(* Turning the tracing of threads on and off: the entry points of              *)
(* libomnitrace-dl, which stand between the instrumentation and the library.   *)
(* A thread that is stopped counts the calls and the returns it does not       *)
(* forward, to start again when it leaves the function that was stopped in.    *)
(*                                                                             *)
(* The library is seen through its counters of forwarded pushes and pops,      *)
(* which it compares when it finalizes.  User regions are not modelled: they   *)
(* are forwarded whatever a thread's status.                                   *)
EXTENDS Integers, SequencesExt

CONSTANTS
    Thread,         \* application threads
    First,          \* the one that exists from the start
    InitEnabled,    \* OMNITRACE_INIT_ENABLED: "on" or "off"
    Disciplined,    \* threads whose functions start the tracing again that they
                    \* have stopped, before they return
    MaxDepth,       \* bound: calls on the stack of a thread
    MaxStops,       \* bound: times a disciplined thread stops the tracing
    MaxLooseStops,  \* bound: times any other thread does
    MaxCount        \* bound: count of a thread

ASSUME ControlAssumption ==
    /\ First \in Thread
    /\ InitEnabled \in {"on", "off"} /\ Disciplined \subseteq Thread
    /\ MaxDepth \in Nat /\ MaxStops \in Nat /\ MaxLooseStops \in Nat /\ MaxCount \in Nat

VARIABLES
    inited, finied, active,   \* get_inited(), get_finied(), get_active()
    enabled,                  \* get_enabled()
    threadEnabled,            \* get_thread_enabled(): "unset" until its first use
    count,                    \* get_thread_count()
    lead,                     \* push_count() - pop_count() of the library, by thread
    stack,                    \* stack[t]: the calls t is in
    born,                     \* enabled at the creation of t; "unborn", or "own" once
                              \* t has changed its status by itself
    stoppedIn,                \* depth of the call that stopped t, 0 outside of all
                              \* instrumented functions, or Running
    stops                     \* how often t has stopped the tracing

phase == <<inited, finied, active>>
history == <<born, stoppedIn, stops>>
vars == <<phase, enabled, threadEnabled, count, lead, stack, history>>

Running == -1

(* The value of a flag.                                                        *)
Status == {"on", "off"}

(* A call of an instrumented function: `kind` says which entry point records   *)
(* it (category regions are those of the Python profiler), `forwarded` that    *)
(* its push reached the library.                                               *)
Kind == {"trace", "category"}
Calls == [kind : Kind, forwarded : BOOLEAN]

Init ==
    /\ inited = FALSE /\ finied = FALSE /\ active = FALSE
    /\ enabled = InitEnabled
    /\ threadEnabled = [t \in Thread |-> "unset"]
    /\ count = [t \in Thread |-> 0]
    /\ lead = [t \in Thread |-> 0]
    /\ stack = [t \in Thread |-> << >>]
    /\ born = [t \in Thread |-> IF t = First THEN InitEnabled ELSE "unborn"]
    /\ stoppedIn = [t \in Thread |-> Running]
    /\ stops = [t \in Thread |-> 0]

Depth(t) == Len(stack[t])

(* The thread_local flag is a copy of the global one, taken at its first use.  *)
StatusOf(t) == IF threadEnabled[t] = "unset" THEN enabled ELSE threadEnabled[t]
IsEnabled(t) == StatusOf(t) = "on"
Touch(t) == threadEnabled' = [threadEnabled EXCEPT ![t] = StatusOf(t)]

-----------------------------------------------------------------------------
(* Mutant: the initialization is not remembered.                               *)
InitializeForgotten ==
    /\ \A t \in Thread : stack[t] = << >>
    /\ ~(inited /\ (finied \/ active))
    /\ active' = TRUE
    /\ UNCHANGED <<inited, finied, enabled, threadEnabled, count, lead, stack, history>>

(* omnitrace_init(), which omnitrace_main() calls before main(), when no       *)
(* instrumented function runs, and omnitrace_finalize()                        *)
Initialize ==
    /\ \A t \in Thread : stack[t] = << >>
    /\ ~(inited /\ (finied \/ active))
    /\ inited' = TRUE /\ active' = TRUE
    /\ UNCHANGED <<finied, enabled, threadEnabled, count, lead, stack, history>>

FinalizeTrace ==
    /\ ~(inited /\ finied) /\ ~(finied /\ ~active)
    /\ active' = FALSE /\ finied' = TRUE
    /\ UNCHANGED <<inited, enabled, threadEnabled, count, lead, stack, history>>

Create(t) ==
    /\ born[t] = "unborn"
    /\ born' = [born EXCEPT ![t] = enabled]
    /\ UNCHANGED <<phase, enabled, threadEnabled, count, lead, stack, stoppedIn, stops>>

-----------------------------------------------------------------------------
(* omnitrace_push_trace(), omnitrace_push_region() and                         *)
(* omnitrace_push_category_region()                                            *)
Enter(t, kind, forwarded) ==
    stack' = [stack EXCEPT ![t] = Append(@, [kind |-> kind, forwarded |-> forwarded])]

Lead(t, n) == lead' = [lead EXCEPT ![t] = @ + n]

(* Mutant: a call that is not forwarded is not counted.                        *)
PushUncounted(t) ==
    /\ born[t] # "unborn" /\ Depth(t) < MaxDepth /\ count[t] < MaxCount
    /\ \E kind \in Kind :
          /\ Enter(t, kind, active /\ IsEnabled(t))
          /\ Lead(t, IF active /\ IsEnabled(t) /\ kind = "trace" THEN 1 ELSE 0)
    /\ IF active THEN Touch(t) ELSE UNCHANGED threadEnabled
    /\ UNCHANGED <<phase, enabled, count, history>>

(* Mutant: the library is called whatever the status of the thread.            *)
PushForwarded(t) ==
    /\ born[t] # "unborn" /\ Depth(t) < MaxDepth /\ count[t] < MaxCount
    /\ \E kind \in Kind :
          /\ Enter(t, kind, active)
          /\ Lead(t, IF active /\ kind = "trace" THEN 1 ELSE 0)
    /\ IF active
       THEN Touch(t) /\ count' = IF IsEnabled(t) THEN count ELSE [count EXCEPT ![t] = @ + 1]
       ELSE UNCHANGED <<threadEnabled, count>>
    /\ UNCHANGED <<phase, enabled, history>>

Push(t) ==
    /\ born[t] # "unborn" /\ Depth(t) < MaxDepth /\ count[t] < MaxCount
    /\ \E kind \in Kind :
          /\ Enter(t, kind, active /\ IsEnabled(t))
          /\ Lead(t, IF active /\ IsEnabled(t) /\ kind = "trace" THEN 1 ELSE 0)
    /\ IF active
       THEN Touch(t) /\ count' = IF IsEnabled(t) THEN count ELSE [count EXCEPT ![t] = @ + 1]
       ELSE UNCHANGED <<threadEnabled, count>>
    /\ UNCHANGED <<phase, enabled, history>>

(* A function that stopped the tracing, or stopped it again, may return only   *)
(* when it has started it.                                                     *)
MayReturn(t) == t \in Disciplined => stoppedIn[t] # Depth(t)

(* A return ends the stop of the function that is left.                        *)
LeaveCall(t) ==
    /\ stack' = [stack EXCEPT ![t] = Front(@)]
    /\ stoppedIn' = [stoppedIn EXCEPT ![t] = IF @ = Depth(t) THEN Running ELSE @]
    /\ UNCHANGED stops

(* Returning from a category region raises the count once more; returning from *)
(* any other call lowers it, and finds out that the function to leave is the   *)
(* one that was stopped in.                                                    *)
Uncount(t) ==
    IF Last(stack[t]).kind = "category"
    THEN /\ count' = [count EXCEPT ![t] = @ + 1] /\ Touch(t) /\ UNCHANGED born
    ELSE /\ count' = [count EXCEPT ![t] = @ - 1]
         /\ IF count[t] = 0
            THEN /\ threadEnabled' = [threadEnabled EXCEPT ![t] = "on"]
                 /\ born' = [born EXCEPT ![t] = "own"]
            ELSE Touch(t) /\ UNCHANGED born

(* omnitrace_pop_trace(), omnitrace_pop_region() and                           *)
(* omnitrace_pop_category_region()                                             *)
Pop(t) ==
    /\ stack[t] # << >> /\ MayReturn(t) /\ count[t] \in -MaxCount .. MaxCount
    /\ LeaveCall(t)
    /\ IF ~active THEN UNCHANGED <<threadEnabled, count, lead, born>>
       ELSE IF IsEnabled(t)
       THEN /\ Lead(t, IF Last(stack[t]).kind = "trace" THEN -1 ELSE 0)
            /\ Touch(t) /\ UNCHANGED <<count, born>>
       ELSE Uncount(t) /\ UNCHANGED lead
    /\ UNCHANGED <<phase, enabled>>

-----------------------------------------------------------------------------
(* omnitrace_user_{start,stop}_trace_dl() set the global flag as well,         *)
(* omnitrace_user_{start,stop}_thread_trace_dl() only that of the thread.      *)
SetStatus(t, value) ==
    /\ born[t] # "unborn"
    /\ threadEnabled' = [threadEnabled EXCEPT ![t] = value]
    /\ enabled' \in {enabled, value}
    /\ born' = [born EXCEPT ![t] = "own"]
    /\ UNCHANGED <<phase, count, lead, stack>>

UserStart(t) ==
    /\ t \in Disciplined => stoppedIn[t] \in {Running, Depth(t)}
    /\ SetStatus(t, "on")
    /\ stoppedIn' = [stoppedIn EXCEPT ![t] = Running]
    /\ UNCHANGED stops

UserStop(t) ==
    /\ stops[t] < (IF t \in Disciplined THEN MaxStops ELSE MaxLooseStops)
    /\ SetStatus(t, "off")
    /\ stoppedIn' = [stoppedIn EXCEPT ![t] = IF @ = Running THEN Depth(t) ELSE @]
    /\ stops' = [stops EXCEPT ![t] = @ + 1]

Step(t) == Create(t) \/ Push(t) \/ Pop(t) \/ UserStart(t) \/ UserStop(t)

Next == Initialize \/ FinalizeTrace \/ \E t \in Thread : Step(t)

Spec == Init /\ [][Next]_vars

-----------------------------------------------------------------------------
TypeOK ==
    /\ inited \in BOOLEAN /\ finied \in BOOLEAN /\ active \in BOOLEAN
    /\ active => inited
    /\ enabled \in Status
    /\ threadEnabled \in [Thread -> Status \cup {"unset"}]
    /\ count \in [Thread -> Int]
    /\ lead \in [Thread -> Int]
    /\ stack \in [Thread -> Seq(Calls)]
    /\ born \in [Thread -> Status \cup {"unborn", "own"}]
    /\ stoppedIn \in [Thread -> {Running} \cup 0 .. MaxDepth]
    /\ stops \in [Thread -> Nat]

(* Tracing that was stopped on a thread stays stopped until the thread starts  *)
(* it or leaves the function that stopped it (user.h:60: "Disable tracing on   *)
(* this specific thread"): the returns of the functions called meanwhile do    *)
(* not start it again.                                                         *)
StoppedStaysStopped ==
    \A t \in Thread : stoppedIn[t] # Running => threadEnabled[t] = "off"

(* When all its calls have returned, the library has seen as many pops as      *)
(* pushes of a thread that starts the tracing where it has stopped it: no      *)
(* measurement is left open.                                                   *)
MeasurementsEnded ==
    active => \A t \in Disciplined : stack[t] = << >> => lead[t] <= 0

(* Whatever the program does, the finalization, which pops once for main if    *)
(* there are more pushes than pops, leaves nothing open: more than that "means *)
(* not every measurement was ended" (library.cpp:980).                         *)
FinalizesEnded ==
    active /\ (\A t \in Thread : stack[t] = << >>) => FoldFunction(+, 0, lead) <= 1

(* Stopping or starting the tracing of a thread is the thread's own: another   *)
(* is affected only if it is created later (user.h:49: "this thread and all    *)
(* subsequently created threads").                                             *)
OnlySubsequentThreads ==
    \A t \in Thread :
        born[t] \in Status /\ threadEnabled[t] # "unset" => threadEnabled[t] = born[t]
=============================================================================
