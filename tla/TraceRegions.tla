---------------------------- MODULE TraceRegions ----------------------------
(* Instrumented regions: the application threads call and return from          *)
(* instrumented functions; category_region::start() and stop() record them in  *)
(* two backends while the window thread of TraceWindow switches their category *)
(* on and off and the main thread finalizes.                                   *)
(*                                                                             *)
(* The backends differ in how they find the region to end: perfetto ends the   *)
(* innermost open event of the thread, timemory the last bundle of that name.  *)
(* Both re-read the category, so that it may change in the middle of a call.   *)
EXTENDS TraceWindow

CONSTANTS
    Thread,       \* application threads
    Name,         \* names of the instrumented functions
    Annotated,    \* names of those recorded as category regions (regions.cpp)
    EarlyCalls,   \* a thread may call one before the profiler is active
    MaxDepth,     \* bound: calls on the stack of a thread
    MaxRegions    \* bound: regions that a thread records

ASSUME RegionAssumption ==
    /\ Annotated \subseteq Name
    /\ EarlyCalls \in BOOLEAN
    /\ MaxDepth \in Nat /\ MaxRegions \in Nat

VARIABLES
    stack,        \* stack[t]: the names of the functions t is in
    pc,           \* pc[t]: what t does next inside omnitrace
    bundles,      \* instrumentation_bundles: name and depth of the call that pushed it
    events,       \* open track events: depth of the call that began it
    profile,      \* category_stack.profile
    tracing,      \* category_stack.tracing
    early         \* history: threads that called one before the profiler was active

regionVars == <<stack, pc, bundles, events, profile, tracing, early>>
vars == <<windowVars, regionVars>>

-----------------------------------------------------------------------------
Init ==
    /\ WindowInit
    /\ stack = [t \in Thread |-> << >>]
    /\ pc = [t \in Thread |-> "user"]
    /\ bundles = [t \in Thread |-> << >>]
    /\ events = [t \in Thread |-> << >>]
    /\ profile = [t \in Thread |-> 0]
    /\ tracing = [t \in Thread |-> 0]
    /\ early = {}

Goto(t, where) == pc' = [pc EXCEPT ![t] = where]
Leave(t) == stack' = [stack EXCEPT ![t] = Front(@)] /\ Goto(t, "user")

(* The guards of tracing.hpp.                                                  *)
CategoryPopDisabled(t) == ~enabled /\ profile[t] + tracing[t] <= 0

(* Mutant: a pop is skipped whenever the category is disabled.                 *)
UncountedPopDisabled(t) == ~enabled

TracingPopDisabled(t) == ~enabled /\ tracing[t] <= 0
ProfilePopDisabled(t) == ~enabled /\ profile[t] <= 0

-----------------------------------------------------------------------------
(* category_region::start(): nothing happens while the category is disabled,   *)
(* before the profiler is active and once it is finalized.                     *)
Call(t) ==
    /\ pc[t] = "user" /\ Len(stack[t]) < MaxDepth /\ profile[t] < MaxRegions
    /\ EarlyCalls \/ state # "Init"
    /\ \E n \in Name : stack' = [stack EXCEPT ![t] = Append(@, n)]
    /\ IF enabled /\ state = "Active" THEN Goto(t, "pushTimemory") ELSE UNCHANGED pc
    /\ early' = IF state = "Init" THEN early \cup {t} ELSE early
    /\ UNCHANGED <<windowVars, bundles, events, profile, tracing>>

PushTimemory(t) ==
    /\ pc[t] = "pushTimemory"
    /\ IF enabled
       THEN /\ bundles' = [bundles EXCEPT ![t] =
                  Append(@, [name |-> Last(stack[t]), depth |-> Len(stack[t])])]
            /\ profile' = [profile EXCEPT ![t] = @ + 1]
       ELSE UNCHANGED <<bundles, profile>>
    /\ Goto(t, "pushPerfetto")
    /\ UNCHANGED <<windowVars, early, stack, events, tracing>>

(* Mutant: the push is counted although the category went off meanwhile.       *)
PushPerfettoCounted(t) ==
    /\ pc[t] = "pushPerfetto"
    /\ tracing' = [tracing EXCEPT ![t] = @ + 1]
    /\ events' = IF enabled THEN [events EXCEPT ![t] = Append(@, Len(stack[t]))] ELSE events
    /\ Goto(t, "user")
    /\ UNCHANGED <<windowVars, early, stack, bundles, profile>>

PushPerfetto(t) ==
    /\ pc[t] = "pushPerfetto"
    /\ IF enabled
       THEN /\ events' = [events EXCEPT ![t] = Append(@, Len(stack[t]))]
            /\ tracing' = [tracing EXCEPT ![t] = @ + 1]
       ELSE UNCHANGED <<events, tracing>>
    /\ Goto(t, "user")
    /\ UNCHANGED <<windowVars, early, stack, bundles, profile>>

(* category_region::stop().  A category region is not even looked at while the *)
(* category is disabled; all are ignored when the profiler is not active.      *)
Ignored(t) ==
    \/ CategoryPopDisabled(t)
    \/ ~enabled /\ Last(stack[t]) \in Annotated
    \/ state # "Active"

Return(t) ==
    /\ pc[t] = "user" /\ stack[t] # << >>
    /\ IF Ignored(t) THEN Leave(t) ELSE Goto(t, "popPerfetto") /\ UNCHANGED stack
    /\ UNCHANGED <<windowVars, early, bundles, events, profile, tracing>>

(* Mutant: the event that began first.                                         *)
PopFirstPerfetto(t) ==
    /\ pc[t] = "popPerfetto"
    /\ IF TracingPopDisabled(t) THEN UNCHANGED <<events, tracing>>
       ELSE /\ tracing' = [tracing EXCEPT ![t] = @ - 1]
            /\ events' = [events EXCEPT ![t] = IF @ = << >> THEN @ ELSE Tail(@)]
    /\ Goto(t, "popTimemory")
    /\ UNCHANGED <<windowVars, early, stack, bundles, profile>>

(* TRACE_EVENT_END ends the innermost event; perfetto drops it if there is none *)
PopPerfetto(t) ==
    /\ pc[t] = "popPerfetto"
    /\ IF TracingPopDisabled(t) THEN UNCHANGED <<events, tracing>>
       ELSE /\ tracing' = [tracing EXCEPT ![t] = @ - 1]
            /\ events' = [events EXCEPT ![t] = IF @ = << >> THEN @ ELSE Front(@)]
    /\ Goto(t, "popTimemory")
    /\ UNCHANGED <<windowVars, early, stack, bundles, profile>>

(* Mutant: the first bundle of the name.                                       *)
PopFirstTimemory(t) ==
    /\ pc[t] = "popTimemory"
    /\ LET same == {i \in DOMAIN bundles[t] : bundles[t][i].name = Last(stack[t])}
       IN  IF ProfilePopDisabled(t) \/ same = {} THEN UNCHANGED bundles
           ELSE bundles' = [bundles EXCEPT ![t] = RemoveAt(@, Min(same))]
    /\ Leave(t)
    /\ UNCHANGED <<windowVars, early, events, profile, tracing>>

(* get_timemory(): the last bundle of this name.  The profile count is not     *)
(* decremented.                                                                *)
PopTimemory(t) ==
    /\ pc[t] = "popTimemory"
    /\ LET same == {i \in DOMAIN bundles[t] : bundles[t][i].name = Last(stack[t])}
       IN  IF ProfilePopDisabled(t) \/ same = {} THEN UNCHANGED bundles
           ELSE bundles' = [bundles EXCEPT ![t] = RemoveAt(@, Max(same))]
    /\ Leave(t)
    /\ UNCHANGED <<windowVars, early, events, profile, tracing>>

Region(t) ==
    \/ Call(t) \/ PushTimemory(t) \/ PushPerfetto(t)
    \/ Return(t) \/ PopPerfetto(t) \/ PopTimemory(t)

Next ==
    \/ WindowNext /\ UNCHANGED regionVars
    \/ \E t \in Thread : Region(t)

Spec == Init /\ [][Next]_vars

-----------------------------------------------------------------------------
(* Types; a thread records and ends regions only inside a call, nothing is      *)
(* recorded before the profiler is active, and the counts that let a pop pass  *)
(* though the category is off stand for regions that the backends really have, *)
(* although the category may go off between the check, the push and the count. *)
TypeOK ==
    /\ stack \in [Thread -> Seq(Name)]
    /\ pc \in [Thread -> {"user", "pushTimemory", "pushPerfetto", "popPerfetto",
                          "popTimemory"}]
    /\ bundles \in [Thread -> Seq([name : Name, depth : Nat])]
    /\ events \in [Thread -> Seq(Nat)]
    /\ early \subseteq Thread
    /\ profile \in [Thread -> Int] /\ tracing \in [Thread -> Int]
    /\ \A t \in Thread :
          /\ pc[t] # "user" => stack[t] # << >>
          /\ state = "Init" => pc[t] = "user" /\ bundles[t] = << >> /\ events[t] = << >>
          /\ Len(bundles[t]) <= profile[t] /\ tracing[t] <= Len(events[t])

(* No backend still has a region that a call of t which has returned began.    *)
NothingLeft(t) ==
    /\ \A i \in DOMAIN events[t] : events[t][i] <= Len(stack[t])
    /\ \A i \in DOMAIN bundles[t] : bundles[t][i].depth <= Len(stack[t])

(* A recorded region ends with its call (tracing.hpp:369 and 466: a pop is     *)
(* skipped "if category is disabled and not pushed on this thread").           *)
NoRegionOutlivesItsCall == state = "Active" => \A t \in Thread : NothingLeft(t)

(* The category is on until it goes off at the end of the one window, if any.  *)
GoesOffOnce == settings.delay = 0 /\ settings.periods = << >>

(* A category that goes off at the end of the duration leaves no region open:  *)
(* the calls that were recorded before are ended when they return after it,    *)
(* though both the start and the stop read the category several times.  Calls  *)
(* that began before the profiler was active upset the count.                  *)
WindowEndsRegions ==
    GoesOffOnce /\ state = "Active" => \A t \in Thread \ early : NothingLeft(t)

(* What t ends in this step are regions of the call that returns.              *)
EndsItsOwn(t) ==
    /\ Len(events'[t]) < Len(events[t]) => Last(events[t]) = Len(stack[t])
    /\ Len(bundles'[t]) < Len(bundles[t]) =>
          \A i \in DOMAIN bundles[t] :
              (~ \E j \in DOMAIN bundles'[t] : bundles'[t][j] = bundles[t][i])
              => bundles[t][i].depth = Len(stack[t])

(* A call ends only its own region: the pop of a region that was not pushed    *)
(* while its category was disabled is skipped (tracing.hpp:369 and 466), so    *)
(* that the regions that enclose it go on.                                     *)
EndsOnlyItsOwn == [][\A t \in Thread : EndsItsOwn(t)]_vars

(* The same as long as the category is on: neither backend mistakes another    *)
(* region of the thread, of this name or not, for the one to end.              *)
EndsOnlyItsOwnWhileOn ==
    [][GoesOffOnce /\ enabled /\ state # "Finalized" => \A t \in Thread : EndsItsOwn(t)]_vars

(* The regions as RegionTrace sees them, while the category is on: a call      *)
(* counts once it is recorded, and is over once its event has ended.           *)
Calls(t) ==
    IF pc[t] \in {"pushTimemory", "pushPerfetto", "popTimemory"}
    THEN Front(stack[t]) ELSE stack[t]
Open(t) == ToSet(events[t])

TracedCalls == [t \in Thread |-> Calls(t)]
TracedOpen == [t \in Thread |-> Open(t)]
Profiling == enabled /\ state # "Finalized"

Abstract ==
    INSTANCE RegionTrace WITH
        calls <- TracedCalls, open <- TracedOpen, profiling <- Profiling

(* A region that is recorded ends when its own call returns (RegionTrace).     *)
RegionsTraced == Abstract!Spec
=============================================================================
