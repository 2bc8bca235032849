--------------------------- MODULE ProgressPoints ---------------------------
(* The progress points of causal profiling: threads complete throughput points *)
(* (mark_progress_point) and latency points (push/pop_progress_point), whose   *)
(* counts are added to a node of the thread and the label; the thread that     *)
(* performs the experiments collects the nodes of all threads at the start and *)
(* at the end of each experiment.                                              *)
(*                                                                             *)
(* Adding to a node is a load and a store, and collecting it a load and a      *)
(* reset; nothing keeps the two apart.  The three counts of a node are loaded  *)
(* and stored together.  Experiments are those of the default mode (not        *)
(* end-to-end).                                                                *)
EXTENDS Integers, SequencesExt

CONSTANTS
    Thread,           \* application threads
    Label,            \* labels of the progress points
    MaxOpen,          \* bound: latency points that a thread is in
    MaxPoints,        \* bound: points that a thread completes
    MaxExperiments    \* bound: experiments

ASSUME PointsAssumption ==
    /\ MaxOpen \in Nat /\ MaxPoints \in Nat /\ MaxExperiments \in Nat

VARIABLES
    bundles,       \* get_progress_bundles() of a thread
    nodes,         \* get_progress_map(): the node of a thread and a label
    adding,        \* the addition that a thread is in: its label and loaded node
    open,          \* labels of the latency points that a thread is in
    nested,        \* history: threads that have been in two latency points at once
    races,         \* history: additions to a node that overlapped its collection
    completed,     \* completed[t][n]: what t has completed, as a node would count it
    phase,         \* of the experiment thread
    pending,       \* nodes that it still has to collect
    reading,       \* the node it has loaded and not yet reset
    initProgress,  \* progress points at start
    finiProgress,  \* progress points at end
    collected,     \* history: all that has been collected from a node
    during,        \* points completed while an experiment runs
    experiments    \* experiments started

threadVars == <<bundles, nodes, adding, open>>
experimentVars == <<phase, pending, reading, initProgress, finiProgress, collected,
                    experiments>>
vars == <<threadVars, experimentVars, nested, races, completed, during>>

-----------------------------------------------------------------------------
Counts == [delta : Nat, arrival : Nat, departure : Nat]
Zero == [delta |-> 0, arrival |-> 0, departure |-> 0]
One == [Zero EXCEPT !.delta = 1]
Arrived == [Zero EXCEPT !.arrival = 1]
Whole == [delta |-> 0, arrival |-> 1, departure |-> 1]

(* progress_point::operator+= and -=                                           *)
Plus(a, b) == [delta |-> a.delta + b.delta, arrival |-> a.arrival + b.arrival,
               departure |-> a.departure + b.departure]
Minus(a, b) == [delta |-> a.delta - b.delta, arrival |-> a.arrival - b.arrival,
                departure |-> a.departure - b.departure]

None == << >>
Nothing == [n \in Label |-> Zero]
Node == Thread \X Label

(* The thread of a node has loaded it and will store its sum.                  *)
AddingTo(e) == adding[e[1]] # None /\ adding[e[1]][1] = e[2]

Init ==
    /\ bundles = [t \in Thread |-> << >>]
    /\ nodes = [e \in Node |-> Zero]
    /\ adding = [t \in Thread |-> None]
    /\ open = [t \in Thread |-> << >>]
    /\ nested = {} /\ races = [e \in Node |-> 0]
    /\ completed = [t \in Thread |-> Nothing]
    /\ phase = "idle" /\ pending = {} /\ reading = None
    /\ initProgress = Nothing /\ finiProgress = Nothing
    /\ collected = [e \in Node |-> Zero]
    /\ during = Nothing
    /\ experiments = 0

-----------------------------------------------------------------------------
(* The application threads                                                     *)

Done(t) == FoldFunction(LAMBDA c, sum : c.delta + c.departure + sum, 0, completed[t])

Ready(t) == adding[t] = None /\ Done(t) < MaxPoints

(* The program has completed a point.                                          *)
Complete(t, n, point) ==
    /\ completed' = [completed EXCEPT ![t][n] = Plus(@, point)]
    /\ during' = IF phase = "running" THEN [during EXCEPT ![n] = Plus(@, point)]
                 ELSE during

(* operation::pop_node: *itr += _obj, whose store is yet to come.              *)
Add(t, n, point) ==
    /\ adding' = [adding EXCEPT ![t] = <<n, Plus(nodes[<<t, n>>], point)>>]
    /\ races' = IF reading = <<t, n>> THEN [races EXCEPT ![reading] = @ + 1] ELSE races

Store(t) ==
    /\ adding[t] # None
    /\ nodes' = [nodes EXCEPT ![<<t, adding[t][1]>>] = adding[t][2]]
    /\ adding' = [adding EXCEPT ![t] = None]
    /\ UNCHANGED <<bundles, open, experimentVars, nested, races, completed, during>>

(* mark_progress_point(): its bundle is popped at once.                        *)
Mark(t) ==
    /\ Ready(t)
    /\ \E n \in Label : Add(t, n, One) /\ Complete(t, n, One)
    /\ UNCHANGED <<bundles, nodes, open, experimentVars, nested>>

(* push_progress_point()                                                       *)
PushPoint(t) ==
    /\ Ready(t) /\ Len(open[t]) < MaxOpen
    /\ \E n \in Label :
          /\ open' = [open EXCEPT ![t] = Append(@, n)]
          /\ bundles' = [bundles EXCEPT ![t] =
                Append(@, [label |-> n, counts |-> Arrived])]
    /\ nested' = IF open[t] = << >> THEN nested ELSE nested \cup {t}
    /\ UNCHANGED <<nodes, adding, experimentVars, races, completed, during>>

(* component_bundle_cache_impl::destroy(reverse_iterator): the distance from   *)
(* the end becomes one from the beginning.                                     *)
Destroy(seq, i) == RemoveAt(seq, Len(seq) - i + 1)

(* pop_progress_point(name): the last bundle of that label is stopped, added   *)
(* to its node and destroyed.  Programs end the latest point first.            *)
PopPoint(t) ==
    /\ adding[t] = None /\ open[t] # << >>
    /\ open' = [open EXCEPT ![t] = Front(@)]
    /\ LET n == Last(open[t])
           same == {i \in DOMAIN bundles[t] : bundles[t][i].label = n}
       IN  /\ Complete(t, n, Whole)
           /\ IF same = {} THEN UNCHANGED <<bundles, adding, races>>
              ELSE LET i == Max(same)
                       stopped == [bundles[t] EXCEPT ![i].counts.departure = @ + 1]
                   IN  /\ Add(t, n, stopped[i].counts)
                       /\ bundles' = [bundles EXCEPT ![t] = Destroy(stopped, i)]
    /\ UNCHANGED <<nodes, experimentVars, nested>>

-----------------------------------------------------------------------------
(* The experiment thread                                                       *)

(* experiment::start() and stop() collect the points; stop() and the output    *)
(* use their difference.                                                       *)
Begin ==
    /\ phase = "idle" /\ experiments < MaxExperiments
    /\ phase' = "starting" /\ pending' = Node
    /\ experiments' = experiments + 1
    /\ initProgress' = Nothing
    /\ during' = Nothing
    /\ UNCHANGED <<threadVars, nested, races, completed, reading, finiProgress, collected>>

End ==
    /\ phase = "running"
    /\ phase' = "stopping" /\ pending' = Node
    /\ finiProgress' = Nothing
    /\ UNCHANGED <<threadVars, nested, races, completed, reading, initProgress, collected,
                   during, experiments>>

(* get_progress_points(): a node is loaded ...                                 *)
Load ==
    /\ reading = None
    /\ \E e \in pending :
          /\ reading' = e
          /\ LET seen(points) == [points EXCEPT ![e[2]] = Plus(@, nodes[e])]
             IN  IF phase = "starting"
                 THEN initProgress' = seen(initProgress) /\ UNCHANGED finiProgress
                 ELSE finiProgress' = seen(finiProgress) /\ UNCHANGED initProgress
          /\ collected' = [collected EXCEPT ![e] = Plus(@, nodes[e])]
          /\ races' = IF AddingTo(e) THEN [races EXCEPT ![e] = @ + 1] ELSE races
    /\ UNCHANGED <<threadVars, nested, completed, phase, pending, during, experiments>>

(* Mutant: the node is left as it is.                                          *)
ResetForgotten ==
    /\ reading # None
    /\ pending' = pending \ {reading} /\ reading' = None
    /\ UNCHANGED <<threadVars, nested, races, completed, phase, initProgress,
                   finiProgress, collected, during, experiments>>

(* ... and reset.                                                              *)
Reset ==
    /\ reading # None
    /\ nodes' = [nodes EXCEPT ![reading] = Zero]
    /\ pending' = pending \ {reading} /\ reading' = None
    /\ UNCHANGED <<bundles, adding, open, nested, races, completed, phase, initProgress,
                   finiProgress, collected, during, experiments>>

(* Mutant: the experiment goes on before all nodes are collected.              *)
CollectedEarly ==
    /\ phase \in {"starting", "stopping"} /\ reading = None
    /\ phase' = IF phase = "starting" THEN "running" ELSE "idle"
    /\ UNCHANGED <<threadVars, nested, races, completed, pending, reading, initProgress,
                   finiProgress, collected, during, experiments>>

Collected ==
    /\ phase \in {"starting", "stopping"} /\ pending = {}
    /\ phase' = IF phase = "starting" THEN "running" ELSE "idle"
    /\ UNCHANGED <<threadVars, nested, races, completed, pending, reading, initProgress,
                   finiProgress, collected, during, experiments>>

Experiments == Begin \/ End \/ Load \/ Reset \/ Collected
Application(t) == Store(t) \/ Mark(t) \/ PushPoint(t) \/ PopPoint(t)

Next == Experiments \/ \E t \in Thread : Application(t)

Spec == Init /\ [][Next]_vars

(* What is written for an experiment.                                          *)
Reported == [n \in Label |-> Minus(finiProgress[n], initProgress[n])]

-----------------------------------------------------------------------------
TypeOK ==
    /\ bundles \in [Thread -> Seq([label : Label, counts : Counts])]
    /\ nodes \in [Node -> Counts]
    /\ adding \in [Thread -> {None} \cup (Label \X Counts)]
    /\ open \in [Thread -> Seq(Label)]
    /\ nested \subseteq Thread /\ races \in [Node -> Nat]
    /\ completed \in [Thread -> [Label -> Counts]]
    /\ phase \in {"idle", "starting", "running", "stopping"}
    /\ pending \in SUBSET Node /\ reading \in {None} \cup Node
    /\ {initProgress, finiProgress, during} \subseteq [Label -> Counts]
    /\ collected \in [Node -> Counts]
    /\ experiments \in 0 .. MaxExperiments
    /\ phase \in {"idle", "running"} => pending = {} /\ reading = None

(* What a node counts, with the addition that its thread is in.                *)
InNode(t, n) ==
    IF reading = <<t, n>> THEN Zero
    ELSE IF AddingTo(<<t, n>>) THEN adding[t][2]
    ELSE nodes[<<t, n>>]

(* The ends of latency points are only counted as such for threads that are in *)
(* one such point at a time (see BundlesMatch); other points always are.       *)
Counted(t, f) == f = "delta" \/ t \notin nested

Missing(t, n, f) == completed[t][n][f] - collected[<<t, n>>][f] - InNode(t, n)[f]

(* Counting is exact but for the race between an addition and a collection of  *)
(* its node: what a thread has completed has been collected, is in the node or *)
(* about to be stored in it, neither lost nor counted twice; and each time an  *)
(* addition and a collection of the node do overlap, at most the one point     *)
(* that is being added is lost.                                                *)
PointsConserved ==
    \A t \in Thread, n \in Label, f \in DOMAIN Zero :
        Counted(t, f) =>
            /\ Missing(t, n, f) <= races[<<t, n>>]
            /\ races[<<t, n>>] = 0 => Missing(t, n, f) = 0

(* The bundles of a thread are those of the latency points that it is in: the  *)
(* end of a point is that of "the matching user defined label" (causal.h:65).  *)
BundlesMatch ==
    \A t \in Thread : [i \in DOMAIN bundles[t] |-> bundles[t][i].label] = open[t]

(* The points reported for an experiment include those completed while it ran: *)
(* their number is that of the "progress points at end" less the "progress     *)
(* points at start" (experiment.hpp:144).                                      *)
ReportsExperiment ==
    phase = "idle" =>
        \A n \in Label : \A f \in DOMAIN Zero : Reported[n][f] >= during[n][f]
=============================================================================
