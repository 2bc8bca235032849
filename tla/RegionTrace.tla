---------------------------- MODULE RegionTrace ----------------------------
(* What tracing promises about the regions of a thread: a call of an           *)
(* instrumented function may or may not be recorded, but a region that is      *)
(* recorded ends when its own call returns: not before, and never stays open.  *)
(* When profiling is over, the regions still open end in any order, or never.  *)
EXTENDS Naturals, SequencesExt

CONSTANTS Thread, Name

VARIABLES
    calls,       \* calls[t]: the functions on the call stack of t
    open,        \* open[t]: the calls, by depth, whose region is recorded and runs
    profiling    \* FALSE once profiling is over

vars == <<calls, open, profiling>>

Init ==
    /\ calls = [t \in Thread |-> << >>]
    /\ open = [t \in Thread |-> {}]
    /\ profiling = TRUE

(* Depth of the innermost call of t.                                           *)
Depth(t) == Len(calls[t])

Call(t) ==
    /\ \E n \in Name : calls' = [calls EXCEPT ![t] = Append(@, n)]
    /\ \/ UNCHANGED open
       \/ open' = [open EXCEPT ![t] = @ \cup {Depth(t) + 1}]
    /\ UNCHANGED profiling

Return(t) ==
    /\ calls[t] # << >>
    /\ calls' = [calls EXCEPT ![t] = Front(@)]
    /\ \/ open' = [open EXCEPT ![t] = @ \ {Depth(t)}]
       \/ /\ ~profiling
          /\ \E left \in SUBSET open[t] : open' = [open EXCEPT ![t] = left]
    /\ UNCHANGED profiling

End ==
    /\ profiling /\ profiling' = FALSE
    /\ UNCHANGED <<calls, open>>

Next == End \/ \E t \in Thread : Call(t) \/ Return(t)

Spec == Init /\ [][Next]_vars
=============================================================================
