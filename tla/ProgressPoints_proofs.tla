------------------------ MODULE ProgressPoints_proofs ------------------------
(* Proofs about ProgressPoints, for any set of threads and labels, any nesting *)
(* and any number of points and experiments: the types, and that points are    *)
(* lost or counted twice only where an addition to a node overlaps with its    *)
(* collection, and how many.                                                   *)
EXTENDS ProgressPoints, SequenceTheorems, WellFoundedInduction, TLAPS

-----------------------------------------------------------------------------
(* Counts                                                                      *)

(* Adding counts is associative, and zero is neutral.                          *)
LEMMA PlusProperties ==
    ASSUME NEW a \in Counts, NEW b \in Counts, NEW c \in Counts
    PROVE  /\ Plus(a, b) \in Counts
           /\ Plus(Plus(a, b), c) = Plus(a, Plus(b, c))
           /\ Plus(a, Zero) = a
  BY DEF Counts, Plus, Zero

LEMMA Points == Zero \in Counts /\ One \in Counts /\ Whole \in Counts /\ Arrived \in Counts
  <1>1. Zero \in Counts
    BY DEF Counts, Zero
  <1>2. One = [delta |-> 1, arrival |-> 0, departure |-> 0]
    BY DEF Zero, One
  <1>3. Arrived = [delta |-> 0, arrival |-> 1, departure |-> 0]
    BY DEF Zero, Arrived
  <1> QED  BY <1>1, <1>2, <1>3 DEF Counts, Whole

(* A node is not the absence of one, nor is an addition.                       *)
LEMMA NotNone ==
    /\ \A e \in Node : e # None
    /\ \A a \in Label \X Counts : a # None
  BY DEF Node, None

-----------------------------------------------------------------------------
(* Sequences                                                                   *)

(* A set of naturals has a least element: they are well-founded.               *)
LEMMA LeastOf ==
    ASSUME NEW S \in SUBSET Nat, S # {} PROVE \E n \in S : \A m \in S : n <= m
  <1>1. IsWellFoundedOn(OpToRel(<, Nat), Nat)
    BY NatLessThanWellFounded
  <1>2. PICK n \in S : \A m \in S : ~(<<m, n>> \in OpToRel(<, Nat))
    BY <1>1, WFMin
  <1>3. \A m \in S : ~(m < n)
    BY <1>2 DEF OpToRel
  <1> QED  BY <1>3

(* Max chooses one of a set of indices.                                        *)
LEMMA MaxOf ==
    ASSUME NEW n \in Nat, NEW S \in SUBSET (1 .. n), S # {} PROVE Max(S) \in S
  <1> DEFINE T == {n - i : i \in S}
  <1>1. PICK k \in T : \A m \in T : k <= m
    <2>1. \A i \in S : n - i \in Nat
      OBVIOUS
    <2>2. T \in SUBSET Nat /\ T # {}
      BY <2>1, Zenon
    <2> HIDE DEF T
    <2> QED  BY <2>2, LeastOf
  <1>2. n - k \in S /\ \A m \in S : n - k >= m
    BY <1>1
  <1> QED  BY <1>2 DEF Max

(* A part of a sequence is a sequence of the same elements.                    *)
LEMMA PartOf ==
    ASSUME NEW S, NEW s \in Seq(S), NEW m \in 1 .. Len(s) + 1, NEW n \in 0 .. Len(s)
    PROVE  SubSeq(s, m, n) \in Seq(S)
  <1>1. m \in Int /\ n \in Int /\ \A i \in m .. n : s[i] \in S
    OBVIOUS
  <1> QED  BY <1>1, SubSeqProperties

(* Destroying a bundle of a thread leaves bundles.                             *)
LEMMA DestroyOf ==
    ASSUME NEW S, NEW s \in Seq(S), NEW i \in 1 .. Len(s)
    PROVE  Destroy(s, i) \in Seq(S)
  <1> DEFINE k == Len(s) - i + 1
  <1>1. k \in 1 .. Len(s)
    OBVIOUS
  <1>2. SubSeq(s, 1, k - 1) \in Seq(S) /\ SubSeq(s, k + 1, Len(s)) \in Seq(S)
    BY <1>1, PartOf
  <1>3. SubSeq(s, 1, k - 1) \o SubSeq(s, k + 1, Len(s)) \in Seq(S)
    BY <1>2, ConcatProperties
  <1> QED  BY <1>3 DEF Destroy, RemoveAt

-----------------------------------------------------------------------------
(* The types                                                                   *)
Bundle == [label : Label, counts : Counts]

(* The node that is being read is one that still has to be collected.          *)
Typed == TypeOK /\ (reading # None => reading \in pending)

(* Nothing is counted at the beginning.                                        *)
LEMMA InitType == Init => TypeOK
  <1> SUFFICES ASSUME Init PROVE TypeOK
    OBVIOUS
  <1>1. Nothing \in [Label -> Counts] /\ Zero \in Counts
    BY Points DEF Nothing
  <1>2. experiments \in 0 .. MaxExperiments
    BY PointsAssumption DEF Init
  <1> QED  BY <1>1, <1>2 DEF Init, TypeOK

(* A completed point is counted as such, ...                                   *)
LEMMA CompleteType ==
    ASSUME TypeOK, NEW t \in Thread, NEW n \in Label, NEW point \in Counts,
           Complete(t, n, point)
    PROVE  /\ completed' \in [Thread -> [Label -> Counts]]
           /\ during' \in [Label -> Counts]
           /\ completed'[t][n] = Plus(completed[t][n], point)
           /\ \A u \in Thread, m \in Label :
                 u # t \/ m # n => completed'[u][m] = completed[u][m]
  <1>1. completed \in [Thread -> [Label -> Counts]] /\ during \in [Label -> Counts]
    BY DEF TypeOK
  <1>2. Plus(completed[t][n], point) \in Counts /\ Plus(during[n], point) \in Counts
    BY <1>1, PlusProperties
  <1> QED  BY <1>1, <1>2 DEF Complete

(* ... and its addition to the node begins.                                    *)
LEMMA AddType ==
    ASSUME TypeOK, NEW t \in Thread, NEW n \in Label, NEW point \in Counts,
           Add(t, n, point)
    PROVE  /\ adding' \in [Thread -> {None} \cup (Label \X Counts)]
           /\ adding'[t] = <<n, Plus(nodes[<<t, n>>], point)>>
           /\ \A u \in Thread \ {t} : adding'[u] = adding[u]
           /\ races' \in [Node -> Nat]
           /\ \A e \in Node : races'[e] = IF e = <<t, n>> /\ reading = e
                                         THEN races[e] + 1 ELSE races[e]
  <1>1. adding \in [Thread -> {None} \cup (Label \X Counts)]
    BY DEF TypeOK
  <1>2. nodes[<<t, n>>] \in Counts
    BY DEF TypeOK, Node
  <1>3. Plus(nodes[<<t, n>>], point) \in Counts
    BY <1>2, PlusProperties
  <1>4. races \in [Node -> Nat] /\ <<t, n>> \in Node
    BY DEF TypeOK, Node
  <1> QED  BY <1>1, <1>3, <1>4 DEF Add

(* Popping a point leaves bundles, and adds counts.                            *)
LEMMA PopType == ASSUME TypeOK, NEW t \in Thread, PopPoint(t) PROVE TypeOK'
  <1> DEFINE n == Last(open[t])
             same == {i \in DOMAIN bundles[t] : bundles[t][i].label = n}
             i == Max(same)
             stopped == [bundles[t] EXCEPT ![i].counts.departure = @ + 1]
  <1>1. open[t] \in Seq(Label) /\ open[t] # << >> /\ bundles[t] \in Seq(Bundle)
    BY DEF TypeOK, PopPoint, Bundle
  <1>2. n \in Label
    BY <1>1 DEF Last
  <1>3. Front(open[t]) \in Seq(Label)
    <2>1. 1 \in 1 .. Len(open[t]) + 1 /\ Len(open[t]) - 1 \in 0 .. Len(open[t])
      BY <1>1
    <2> QED  BY <1>1, <2>1, PartOf DEF Front
  <1>4. open' \in [Thread -> Seq(Label)]
    BY <1>3 DEF PopPoint, TypeOK
  <1>5. completed' \in [Thread -> [Label -> Counts]] /\ during' \in [Label -> Counts]
    BY <1>2, Points, CompleteType DEF PopPoint
  <1>6. /\ bundles' \in [Thread -> Seq(Bundle)]
        /\ adding' \in [Thread -> {None} \cup (Label \X Counts)]
        /\ races' \in [Node -> Nat]
    <2>1. CASE same = {}
      BY <2>1 DEF PopPoint, TypeOK, Bundle
    <2>2. CASE same # {}
      <3>1. Len(bundles[t]) \in Nat /\ DOMAIN bundles[t] = 1 .. Len(bundles[t])
        BY <1>1
      <3>2. i \in same
        BY <2>2, <3>1, MaxOf
      <3>3. i \in 1 .. Len(bundles[t]) /\ bundles[t][i] \in Bundle
        <4>1. i \in 1 .. Len(bundles[t])
          BY <3>1, <3>2
        <4> HIDE DEF i
        <4> QED  BY <1>1, <4>1
      <3> HIDE DEF i
      <3>4. [bundles[t][i] EXCEPT !.counts.departure = @ + 1] \in Bundle
        BY <3>3 DEF Bundle, Counts
      <3>6. /\ stopped \in Seq(Bundle) /\ Len(stopped) = Len(bundles[t])
            /\ stopped[i] \in Bundle
        BY <1>1, <3>3, <3>4
      <3>7. Add(t, n, stopped[i].counts)
            /\ bundles' = [bundles EXCEPT ![t] = Destroy(stopped, i)]
        BY <2>2 DEF PopPoint, i
      <3>8. stopped[i].counts \in Counts
        BY <3>6 DEF Bundle
      <3>9. adding' \in [Thread -> {None} \cup (Label \X Counts)] /\ races' \in [Node -> Nat]
        BY <1>2, <3>7, <3>8, AddType
      <3>10. Destroy(stopped, i) \in Seq(Bundle)
        <4> HIDE DEF stopped
        <4> QED  BY <3>3, <3>6, DestroyOf
      <3>11. bundles' \in [Thread -> Seq(Bundle)]
        BY <3>7, <3>10 DEF TypeOK, Bundle
      <3> QED  BY <3>9, <3>11
    <2> QED  BY <2>1, <2>2
  <1>7. UNCHANGED <<nodes, nested, phase, pending, reading, initProgress, finiProgress, collected,
                    experiments>>
    BY DEF PopPoint, experimentVars
  <1> QED  BY <1>4, <1>5, <1>6, <1>7 DEF TypeOK, Bundle

(* Each action keeps the types.                                                *)
LEMMA StepType == Typed /\ [Next]_vars => Typed'
  <1> SUFFICES ASSUME Typed, [Next]_vars PROVE Typed'
    OBVIOUS
  <1> USE DEF Typed, threadVars, experimentVars
  <1>z. Nothing \in [Label -> Counts] /\ Zero \in Counts
    BY Points DEF Nothing
  <1>1. ASSUME NEW t \in Thread, Store(t) PROVE Typed'
    <2>1. adding[t] \in Label \X Counts
      BY <1>1 DEF Store, TypeOK
    <2>2. adding[t][1] \in Label /\ adding[t][2] \in Counts
      BY <2>1
    <2>3. nodes' \in [Node -> Counts]
      BY <1>1, <2>2 DEF Store, TypeOK, Node
    <2>4. adding' \in [Thread -> {None} \cup (Label \X Counts)]
      BY <1>1 DEF Store, TypeOK
    <2> QED  BY <1>1, <2>3, <2>4 DEF Store, TypeOK
  <1>2. ASSUME NEW t \in Thread, Mark(t) PROVE Typed'
    <2>1. PICK n \in Label : Add(t, n, One) /\ Complete(t, n, One)
      BY <1>2 DEF Mark
    <2>2. /\ completed' \in [Thread -> [Label -> Counts]] /\ during' \in [Label -> Counts]
          /\ adding' \in [Thread -> {None} \cup (Label \X Counts)]
          /\ races' \in [Node -> Nat]
      BY <2>1, Points, AddType, CompleteType
    <2> QED  BY <1>2, <2>2 DEF Mark, TypeOK
  <1>3. ASSUME NEW t \in Thread, PushPoint(t) PROVE Typed'
    <2>1. PICK n \in Label :
            /\ open' = [open EXCEPT ![t] = Append(@, n)]
            /\ bundles' = [bundles EXCEPT ![t] = Append(@, [label |-> n, counts |-> Arrived])]
      BY <1>3 DEF PushPoint
    <2> DEFINE b == [label |-> n, counts |-> Arrived]
    <2>2. b \in Bundle
      BY Points DEF Bundle
    <2> HIDE DEF b
    <2>3. open' \in [Thread -> Seq(Label)]
      BY <2>1 DEF TypeOK
    <2>4. Append(bundles[t], b) \in Seq(Bundle)
      BY <2>2, AppendProperties DEF TypeOK, Bundle
    <2>5. bundles' \in [Thread -> Seq(Bundle)]
      BY <2>1, <2>4 DEF TypeOK, Bundle, b
    <2> QED  BY <1>3, <2>3, <2>5 DEF PushPoint, TypeOK, Bundle
  <1>4. ASSUME NEW t \in Thread, PopPoint(t) PROVE Typed'
    BY <1>4, PopType DEF PopPoint
  <1>5. CASE Begin
    <2>1. experiments' \in 0 .. MaxExperiments
      BY <1>5, PointsAssumption DEF Begin, TypeOK
    <2> QED  BY <1>5, <1>z, <2>1 DEF Begin, Typed, TypeOK
  <1>6. CASE End
    BY <1>6, <1>z DEF End, TypeOK
  <1>7. CASE Load
    <2>1. PICK e \in pending :
            /\ reading' = e
            /\ collected' = [collected EXCEPT ![e] = Plus(@, nodes[e])]
            /\ races' = IF AddingTo(e) THEN [races EXCEPT ![e] = @ + 1] ELSE races
            /\ \/ /\ initProgress' = [initProgress EXCEPT ![e[2]] = Plus(@, nodes[e])]
                  /\ UNCHANGED finiProgress
               \/ /\ finiProgress' = [finiProgress EXCEPT ![e[2]] = Plus(@, nodes[e])]
                  /\ UNCHANGED initProgress
      BY <1>7 DEF Load
    <2>2. e \in Node /\ e[2] \in Label /\ nodes[e] \in Counts
      BY DEF TypeOK, Node
    <2>3. collected' \in [Node -> Counts]
      BY <2>1, <2>2, PlusProperties DEF TypeOK
    <2>4. initProgress' \in [Label -> Counts] /\ finiProgress' \in [Label -> Counts]
      <3>1. initProgress \in [Label -> Counts] /\ finiProgress \in [Label -> Counts]
        BY DEF TypeOK
      <3>2. Plus(initProgress[e[2]], nodes[e]) \in Counts /\ Plus(finiProgress[e[2]], nodes[e]) \in Counts
        BY <2>2, <3>1, PlusProperties
      <3> QED  BY <2>1, <2>2, <3>1, <3>2
    <2>5. phase \notin {"idle", "running"} /\ races' \in [Node -> Nat]
      BY <1>7, <2>1, <2>2 DEF Load, TypeOK
    <2> QED  BY <1>7, <2>1, <2>2, <2>3, <2>4, <2>5 DEF Load, TypeOK
  <1>8. CASE Reset
    <2>1. reading \in Node /\ phase \notin {"idle", "running"}
      BY <1>8 DEF Reset, TypeOK
    <2>2. nodes' \in [Node -> Counts]
      BY <1>8, <1>z DEF Reset, TypeOK
    <2> QED  BY <1>8, <2>1, <2>2 DEF Reset, TypeOK
  <1>9. CASE Collected
    BY <1>9 DEF Collected, TypeOK
  <1>10. CASE UNCHANGED vars
    BY <1>10 DEF vars, TypeOK
  <1> QED  BY <1>1, <1>2, <1>3, <1>4, <1>5, <1>6, <1>7, <1>8, <1>9, <1>10
           DEF Next, Experiments, Application

LEMMA TypeInvariant == Spec => []Typed
  <1>1. Init => Typed
    BY InitType DEF Init, Typed
  <1> QED  BY <1>1, StepType, PTL DEF Spec

(* The counts are counts, the points are points, and nothing is left to be     *)
(* collected while an experiment runs and between two of them: whatever the    *)
(* nesting of the points, and whoever adds to a node that is collected.        *)
THEOREM TypeCorrect == Spec => []TypeOK
  BY TypeInvariant, PTL DEF Typed

-----------------------------------------------------------------------------
(* The bundles                                                                 *)

(* The only bundle of a thread that has never been in two latency points is    *)
(* that of the point it is in, as it was when it was pushed.                   *)
OneBundle(t) ==
    \/ open[t] = << >> /\ bundles[t] = << >>
    \/ \E n \in Label : /\ open[t] = <<n>>
                        /\ bundles[t] = <<[label |-> n, counts |-> Arrived]>>

(* The bundle of a latency point, whichever is destroyed, is none of a mark.   *)
Latency == [label : Label, counts : {c \in Counts : c.delta = 0}]

BundleInv ==
    /\ \A t \in Thread \ nested : OneBundle(t)
    /\ bundles \in [Thread -> Seq(Latency)]

LEMMA DestroyOnly == ASSUME NEW x PROVE Destroy(<<x>>, 1) = << >>
  <1> DEFINE s == <<x>>
  <1>1. Len(s) = 1 /\ s \in Seq({x})
    OBVIOUS
  <1>2. SubSeq(s, 1, 0) = << >> /\ SubSeq(s, 2, 1) = << >>
    <2>1. SubSeq(s, 1, 0) \in Seq({x}) /\ Len(SubSeq(s, 1, 0)) = 0
      BY <1>1, SubSeqProperties
    <2>2. SubSeq(s, 2, 1) \in Seq({x}) /\ Len(SubSeq(s, 2, 1)) = 0
      BY <1>1, SubSeqProperties
    <2> QED  BY <2>1, <2>2, EmptySeq
  <1>3. << >> \o << >> = << >>
    OBVIOUS
  <1>4. Destroy(s, 1) = SubSeq(s, 1, 0) \o SubSeq(s, 2, 1)
    BY <1>1 DEF Destroy, RemoveAt
  <1> QED  BY <1>2, <1>3, <1>4

(* The end of a point finds its bundle, and counts a whole point.              *)
LEMMA PopOne ==
    ASSUME TypeOK, NEW t \in Thread, OneBundle(t), PopPoint(t)
    PROVE  /\ open' = [open EXCEPT ![t] = << >>] /\ bundles' = [bundles EXCEPT ![t] = << >>]
           /\ \E n \in Label : Add(t, n, Whole) /\ Complete(t, n, Whole)
  <1>1. PICK n \in Label : /\ open[t] = <<n>>
                           /\ bundles[t] = <<[label |-> n, counts |-> Arrived]>>
    BY DEF OneBundle, PopPoint
  <1> DEFINE same == {i \in DOMAIN bundles[t] : bundles[t][i].label = n}
             stopped == [bundles[t] EXCEPT ![1].counts.departure = @ + 1]
  <1>2. Last(open[t]) = n /\ Front(open[t]) = << >>
    BY <1>1 DEF Last, Front
  <1>3. same = {1}
    BY <1>1
  <1>4. Max(same) = 1
    BY <1>3 DEF Max
  <1>5. stopped = <<[label |-> n, counts |-> Whole]>>
    <2>0. Arrived = [delta |-> 0, arrival |-> 1, departure |-> 0]
      BY DEF Arrived, Zero
    <2>1. [Arrived EXCEPT !.departure = @ + 1] = Whole
      BY <2>0 DEF Whole
    <2> QED  BY <1>1, <2>1
  <1>6. Destroy(stopped, 1) = << >>
    BY <1>5, DestroyOnly
  <1>7. open' = [open EXCEPT ![t] = << >>] /\ Complete(t, n, Whole)
    BY <1>2 DEF PopPoint
  <1>8. Add(t, n, stopped[1].counts) /\ bundles' = [bundles EXCEPT ![t] = Destroy(stopped, 1)]
    BY <1>2, <1>3, <1>4 DEF PopPoint
  <1>9. stopped[1].counts = Whole
    BY <1>5
  <1> QED  BY <1>6, <1>7, <1>8, <1>9

(* The end of a point adds none of a mark, whichever bundle it finds.          *)
LEMMA PopLatency ==
    ASSUME TypeOK, BundleInv, NEW t \in Thread, PopPoint(t)
    PROVE  /\ bundles' \in [Thread -> Seq(Latency)]
           /\ \E n \in Label :
                 /\ Complete(t, n, Whole)
                 /\ \/ UNCHANGED <<adding, races>>
                    \/ \E point \in Counts : point.delta = 0 /\ Add(t, n, point)
  <1> DEFINE n == Last(open[t])
             same == {i \in DOMAIN bundles[t] : bundles[t][i].label = n}
             i == Max(same)
             stopped == [bundles[t] EXCEPT ![i].counts.departure = @ + 1]
  <1>1. open[t] \in Seq(Label) /\ open[t] # << >> /\ bundles[t] \in Seq(Latency)
    BY DEF TypeOK, PopPoint, BundleInv
  <1>2. n \in Label /\ Complete(t, n, Whole)
    <2>1. n \in Label
      BY <1>1 DEF Last
    <2>2. Complete(t, n, Whole)
      BY DEF PopPoint
    <2> QED  BY <2>1, <2>2
  <1>3. CASE same = {}
    <2>1. UNCHANGED <<bundles, adding, races>>
      BY <1>3 DEF PopPoint
    <2> QED  BY <1>2, <2>1 DEF BundleInv
  <1>4. CASE same # {}
    <2>1. Len(bundles[t]) \in Nat /\ DOMAIN bundles[t] = 1 .. Len(bundles[t])
      BY <1>1
    <2>2. i \in same
      BY <1>4, <2>1, MaxOf
    <2>3. i \in 1 .. Len(bundles[t]) /\ bundles[t][i] \in Latency
      <3>1. i \in 1 .. Len(bundles[t])
        BY <2>1, <2>2
      <3> HIDE DEF i
      <3> QED  BY <1>1, <3>1
    <2> HIDE DEF i
    <2>4. [bundles[t][i] EXCEPT !.counts.departure = @ + 1] \in Latency
      BY <2>3 DEF Latency, Counts
    <2>5. /\ stopped \in Seq(Latency) /\ Len(stopped) = Len(bundles[t])
          /\ stopped[i] \in Latency
      BY <1>1, <2>3, <2>4
    <2>6. /\ Add(t, n, stopped[i].counts)
          /\ bundles' = [bundles EXCEPT ![t] = Destroy(stopped, i)]
      BY <1>4 DEF PopPoint, i
    <2>7. stopped[i].counts \in Counts /\ stopped[i].counts.delta = 0
      BY <2>5 DEF Latency
    <2>8. Destroy(stopped, i) \in Seq(Latency)
      <3> HIDE DEF stopped
      <3> QED  BY <2>3, <2>5, DestroyOf
    <2>9. bundles' \in [Thread -> Seq(Latency)]
      BY <2>6, <2>8 DEF BundleInv
    <2> HIDE DEF n, stopped
    <2> QED  BY <1>2, <2>6, <2>7, <2>9
  <1> QED  BY <1>3, <1>4

(* Each action keeps the bundles and the points in line.                       *)
LEMMA StepBundle == Typed /\ BundleInv /\ [Next]_vars => BundleInv'
  <1> SUFFICES ASSUME Typed, BundleInv, [Next]_vars PROVE BundleInv'
    OBVIOUS
  <1>0. TypeOK
    BY DEF Typed
  <1>1. ASSUME NEW t \in Thread, PushPoint(t) PROVE BundleInv'
    <2>1. PICK n \in Label :
            /\ open' = [open EXCEPT ![t] = Append(@, n)]
            /\ bundles' = [bundles EXCEPT ![t] = Append(@, [label |-> n, counts |-> Arrived])]
      BY <1>1 DEF PushPoint
    <2> DEFINE b == [label |-> n, counts |-> Arrived]
    <2>2. b \in Latency
      <3>1. Arrived.delta = 0
        BY DEF Arrived, Zero
      <3> QED  BY <3>1, Points DEF Latency
    <2>3. bundles' \in [Thread -> Seq(Latency)]
      <3> HIDE DEF b
      <3>1. Append(bundles[t], b) \in Seq(Latency)
        BY <2>2, AppendProperties DEF BundleInv
      <3> QED  BY <2>1, <3>1 DEF BundleInv, b
    <2>4. \A u \in Thread \ {t} : open'[u] = open[u] /\ bundles'[u] = bundles[u]
      BY <1>0, <2>1 DEF TypeOK
    <2>5. nested' = IF open[t] = << >> THEN nested ELSE nested \cup {t}
      BY <1>1 DEF PushPoint
    <2>6. ASSUME t \notin nested' PROVE OneBundle(t)'
      <3>1. open[t] = << >> /\ t \notin nested
        BY <2>5, <2>6
      <3>2. \A m \in Label : <<m>> # open[t]
        BY <3>1
      <3>3. bundles[t] = << >>
        BY <3>1, <3>2 DEF BundleInv, OneBundle
      <3>4. open'[t] = <<n>> /\ bundles'[t] = <<[label |-> n, counts |-> Arrived]>>
        BY <1>0, <2>1, <3>1, <3>3 DEF TypeOK
      <3> QED  BY <3>4 DEF OneBundle
    <2>7. ASSUME NEW u \in Thread \ nested', u # t PROVE OneBundle(u)'
      <3>1. OneBundle(u)
        BY <2>5, <2>7 DEF BundleInv
      <3> QED  BY <2>4, <2>7, <3>1 DEF OneBundle
    <2> QED  BY <2>3, <2>6, <2>7 DEF BundleInv
  <1>2. ASSUME NEW t \in Thread, PopPoint(t) PROVE BundleInv'
    <2>1. bundles' \in [Thread -> Seq(Latency)] /\ nested' = nested
      BY <1>0, <1>2, PopLatency DEF PopPoint
    <2>2. \A u \in Thread \ {t} : open'[u] = open[u] /\ bundles'[u] = bundles[u]
      BY <1>0, <1>2 DEF PopPoint, TypeOK
    <2>3. ASSUME t \notin nested PROVE OneBundle(t)'
      <3>1. OneBundle(t)
        BY <2>3 DEF BundleInv
      <3> QED  BY <1>0, <1>2, <3>1, PopOne DEF OneBundle, TypeOK
    <2>4. ASSUME NEW u \in Thread \ nested, u # t PROVE OneBundle(u)'
      <3>1. OneBundle(u)
        BY <2>4 DEF BundleInv
      <3> QED  BY <2>2, <2>4, <3>1 DEF OneBundle
    <2> QED  BY <2>1, <2>3, <2>4 DEF BundleInv
  <1>3. CASE UNCHANGED <<open, bundles, nested>>
    BY <1>3 DEF BundleInv, OneBundle
  <1>4. \A t \in Thread : Store(t) \/ Mark(t) => UNCHANGED <<open, bundles, nested>>
    BY DEF Store, Mark
  <1>5. Experiments \/ UNCHANGED vars => UNCHANGED <<open, bundles, nested>>
    BY DEF Experiments, Begin, End, Load, Reset, Collected, vars, threadVars
  <1> QED  BY <1>1, <1>2, <1>3, <1>4, <1>5 DEF Next, Application

-----------------------------------------------------------------------------
(* The counts                                                                  *)

(* Counts have three fields of naturals, which are added one by one.           *)
LEMMA Fields ==
    ASSUME NEW a \in Counts, NEW b \in Counts, NEW f \in DOMAIN Zero
    PROVE  a[f] \in Nat /\ b[f] \in Nat /\ Plus(a, b)[f] = a[f] + b[f]
  <1>1. f \in {"delta", "arrival", "departure"}
    BY DEF Zero
  <1> QED  BY <1>1 DEF Counts, Plus

(* A point that is completed counts once at most.                              *)
LEMMA OnePoint ==
    ASSUME NEW f \in DOMAIN Zero
    PROVE  One[f] \in {0, 1} /\ Whole[f] \in {0, 1} /\ Zero[f] = 0
  <1>1. f \in {"delta", "arrival", "departure"}
    BY DEF Zero
  <1>2. One = [delta |-> 1, arrival |-> 0, departure |-> 0]
    BY DEF Zero, One
  <1> QED  BY <1>1, <1>2 DEF Zero, Whole

(* What has been completed and not collected is in the node, but for the races *)
(* that there have been; an addition under way has loaded the node before it.  *)
Owed(t, n, f) == completed[t][n][f] - collected[<<t, n>>][f]

Balance(t, n, f) ==
    LET e == <<t, n>> IN
    /\ races[e] = 0 => Missing(t, n, f) = 0
    /\ reading = e => /\ Owed(t, n, f) <= races[e]
                      /\ AddingTo(e) => races[e] >= 1
    /\ reading # e /\ ~AddingTo(e) => Owed(t, n, f) - nodes[e][f] <= races[e]
    /\ reading # e /\ AddingTo(e) => /\ Owed(t, n, f) - adding[t][2][f] <= races[e]
                                     /\ Owed(t, n, f) - nodes[e][f] <= races[e] + 1

CountInv ==
    \A t \in Thread, n \in Label, f \in DOMAIN Zero : Counted(t, f) => Balance(t, n, f)

(* The counts of a field are naturals, and those of the race.                  *)
LEMMA NodeCounts ==
    ASSUME TypeOK, NEW t \in Thread, NEW n \in Label, NEW f \in DOMAIN Zero
    PROVE  /\ <<t, n>> \in Node /\ <<t, n>> # None
           /\ completed[t][n] \in Counts /\ completed[t][n][f] \in Nat
           /\ collected[<<t, n>>] \in Counts /\ collected[<<t, n>>][f] \in Nat
           /\ nodes[<<t, n>>] \in Counts /\ nodes[<<t, n>>][f] \in Nat
           /\ races[<<t, n>>] \in Nat
           /\ adding[t] # None => adding[t][1] \in Label /\ adding[t][2] \in Counts
                                    /\ adding[t][2][f] \in Nat
  <1>1. <<t, n>> \in Node /\ <<t, n>> # None
    BY NotNone DEF Node
  <1>2. /\ completed[t][n] \in Counts /\ collected[<<t, n>>] \in Counts
        /\ nodes[<<t, n>>] \in Counts /\ races[<<t, n>>] \in Nat
    BY <1>1 DEF TypeOK
  <1>3. adding[t] # None => adding[t][1] \in Label /\ adding[t][2] \in Counts
    BY DEF TypeOK
  <1> QED  BY <1>1, <1>2, <1>3, Fields

(* A step that leaves a field of a node and its addition alone.                *)
LEMMA Untouched ==
    ASSUME NEW t \in Thread, NEW n \in Label, NEW f \in DOMAIN Zero, Balance(t, n, f),
           completed'[t][n][f] = completed[t][n][f],
           collected'[<<t, n>>] = collected[<<t, n>>], nodes'[<<t, n>>] = nodes[<<t, n>>],
           races'[<<t, n>>] = races[<<t, n>>], reading' = <<t, n>> <=> reading = <<t, n>>,
           AddingTo(<<t, n>>)' <=> AddingTo(<<t, n>>),
           AddingTo(<<t, n>>) => adding'[t] = adding[t]
    PROVE  Balance(t, n, f)'
  <1>1. Owed(t, n, f)' = Owed(t, n, f)
    BY DEF Owed
  <1>2. InNode(t, n)' = InNode(t, n)
    BY DEF InNode
  <1>3. Missing(t, n, f)' = Missing(t, n, f)
    BY <1>2 DEF Missing
  <1> QED  BY <1>1, <1>3 DEF Balance

(* An addition to a node begins, for a point that has been completed.          *)
LEMMA CountAdd ==
    ASSUME TypeOK, NEW t \in Thread, adding[t] = None, NEW n \in Label,
           NEW point \in Counts, Add(t, n, point), NEW done \in Counts, Complete(t, n, done),
           UNCHANGED <<nodes, collected, reading>>, NEW f \in DOMAIN Zero,
           point[f] = done[f], done[f] \in {0, 1}, Balance(t, n, f)
    PROVE  Balance(t, n, f)'
  <1> DEFINE e == <<t, n>>
  <1>1. /\ adding'[t] = <<n, Plus(nodes[e], point)>> /\ adding'[t] # None
        /\ races'[e] = IF reading = e THEN races[e] + 1 ELSE races[e]
    <2>1. adding'[t] = <<n, Plus(nodes[e], point)>>
      BY AddType
    <2>2. adding'[t] # None
      BY <2>1 DEF None
    <2>3. e \in Node
      BY DEF Node
    <2>4. races'[e] = IF reading = e THEN races[e] + 1 ELSE races[e]
      BY <2>3, AddType
    <2> QED  BY <2>1, <2>2, <2>4
  <1>2. ~AddingTo(e) /\ AddingTo(e)'
    BY <1>1 DEF AddingTo
  <1>3. completed'[t][n][f] = completed[t][n][f] + done[f]
    <2>1. completed'[t][n] = Plus(completed[t][n], done)
      BY CompleteType
    <2>2. completed[t][n] \in Counts
      BY NodeCounts
    <2> QED  BY <2>1, <2>2, Fields
  <1>4. adding'[t][2][f] = nodes[e][f] + point[f]
    BY <1>1, NodeCounts, Fields
  <1>5. CASE reading = e
    <2>1. races'[e] >= 1 /\ races'[e] # 0
      BY <1>1, <1>5, NodeCounts
    <2>2. Owed(t, n, f)' <= races'[e]
      BY <1>1, <1>3, <1>5, NodeCounts DEF Balance, Owed
    <2> QED  BY <1>5, <2>1, <2>2 DEF Balance
  <1>6. CASE reading # e
    <2>1. Owed(t, n, f) - nodes[e][f] <= races[e]
      BY <1>2, <1>6 DEF Balance
    <2>2. Owed(t, n, f)' = Owed(t, n, f) + done[f] /\ Owed(t, n, f) \in Int
      BY <1>3, NodeCounts DEF Owed
    <2>3. races[e] = 0 => Missing(t, n, f)' = 0
      <3>1. Missing(t, n, f) = Owed(t, n, f) - nodes[e][f]
        BY <1>2, <1>6 DEF Missing, Owed, InNode
      <3>2. Missing(t, n, f)' = Owed(t, n, f)' - (nodes[e][f] + point[f])
        BY <1>2, <1>4, <1>6 DEF Missing, Owed, InNode
      <3> QED  BY <2>2, <3>1, <3>2, NodeCounts DEF Balance
    <2>4. Owed(t, n, f)' - adding'[t][2][f] <= races[e]
      BY <1>4, <2>1, <2>2, NodeCounts
    <2>5. Owed(t, n, f)' - nodes[e][f] <= races[e] + 1
      BY <2>1, <2>2, NodeCounts
    <2> QED  BY <1>1, <1>2, <1>6, <2>3, <2>4, <2>5 DEF Balance
  <1> QED  BY <1>5, <1>6

(* It touches no other node.                                                   *)
LEMMA OthersAdd ==
    ASSUME TypeOK, NEW t \in Thread, adding[t] = None, NEW n \in Label,
           NEW point \in Counts, Add(t, n, point), NEW done \in Counts, Complete(t, n, done),
           UNCHANGED <<nodes, collected, reading>>,
           NEW u \in Thread, NEW m \in Label, u # t \/ m # n,
           NEW f \in DOMAIN Zero, Balance(u, m, f)
    PROVE  Balance(u, m, f)'
  <1>1. /\ adding'[t] = <<n, Plus(nodes[<<t, n>>], point)>>
        /\ \A v \in Thread \ {t} : adding'[v] = adding[v]
        /\ races'[<<u, m>>] = races[<<u, m>>]
    BY AddType, NodeCounts
  <1>2. completed'[u][m] = completed[u][m]
    BY CompleteType
  <1>3. AddingTo(<<u, m>>)' <=> AddingTo(<<u, m>>)
    BY <1>1 DEF AddingTo
  <1>4. AddingTo(<<u, m>>) => adding'[u] = adding[u]
    BY <1>1 DEF AddingTo
  <1> QED  BY <1>1, <1>2, <1>3, <1>4, Untouched

(* The addition is stored: the node holds what was about to be.                *)
LEMMA CountStore ==
    ASSUME TypeOK, NEW t \in Thread, Store(t),
           NEW u \in Thread, NEW m \in Label, NEW f \in DOMAIN Zero, Balance(u, m, f)
    PROVE  Balance(u, m, f)'
  <1> DEFINE n == adding[t][1]
             e == <<t, n>>
  <1>1. adding[t] # None /\ n \in Label /\ e \in Node
    BY NodeCounts DEF Store, Node
  <1>2. /\ nodes' = [nodes EXCEPT ![e] = adding[t][2]]
        /\ adding' = [adding EXCEPT ![t] = None]
        /\ UNCHANGED <<completed, collected, reading, races>>
    BY DEF Store, experimentVars
  <1>3. adding'[t] = None /\ \A v \in Thread \ {t} : adding'[v] = adding[v]
    BY <1>2 DEF TypeOK
  <1>4. \A d \in Node : nodes'[d] = IF d = e THEN adding[t][2] ELSE nodes[d]
    BY <1>2 DEF TypeOK
  <1>5. <<u, m>> \in Node
    BY DEF Node
  <1>6. CASE u = t /\ m = n
    <2>1. AddingTo(<<u, m>>) /\ ~AddingTo(<<u, m>>)'
      BY <1>1, <1>3, <1>6 DEF AddingTo
    <2>2. Owed(u, m, f)' = Owed(u, m, f) /\ Owed(u, m, f) \in Int
      BY <1>2, NodeCounts DEF Owed
    <2>3. nodes'[<<u, m>>] = adding[u][2]
      BY <1>1, <1>4, <1>6
    <2>4. InNode(u, m)' = InNode(u, m)
      BY <1>2, <2>1, <2>3 DEF InNode
    <2>5. Missing(u, m, f)' = Missing(u, m, f)
      BY <1>2, <2>4 DEF Missing
    <2> QED  BY <1>2, <2>1, <2>2, <2>3, <2>5 DEF Balance
  <1>7. CASE ~(u = t /\ m = n)
    <2>1. nodes'[<<u, m>>] = nodes[<<u, m>>]
      BY <1>4, <1>5, <1>7
    <2>2. /\ AddingTo(<<u, m>>)' <=> AddingTo(<<u, m>>)
          /\ AddingTo(<<u, m>>) => adding'[u] = adding[u]
      BY <1>3, <1>7 DEF AddingTo
    <2> QED  BY <1>2, <2>1, <2>2, Untouched
  <1> QED  BY <1>6, <1>7

(* A node is loaded: its counts are collected, and it counts no more, ...      *)
LEMMA CountLoad ==
    ASSUME TypeOK, Load,
           NEW u \in Thread, NEW m \in Label, NEW f \in DOMAIN Zero, Balance(u, m, f)
    PROVE  Balance(u, m, f)'
  <1>1. PICK e \in pending :
          /\ reading' = e
          /\ collected' = [collected EXCEPT ![e] = Plus(@, nodes[e])]
          /\ races' = IF AddingTo(e) THEN [races EXCEPT ![e] = @ + 1] ELSE races
    BY DEF Load
  <1>2. reading = None /\ UNCHANGED <<adding, nodes, completed>>
    BY DEF Load, threadVars
  <1>3. e \in Node /\ <<u, m>> \in Node
    BY DEF TypeOK, Node
  <1>4. reading # <<u, m>>
    BY <1>2, NodeCounts
  <1>5. CASE e = <<u, m>>
    <2>1. /\ collected'[e] = Plus(collected[e], nodes[e])
          /\ races'[e] = IF AddingTo(e) THEN races[e] + 1 ELSE races[e]
      BY <1>1, <1>3 DEF TypeOK
    <2>2. collected'[e][f] = collected[e][f] + nodes[e][f]
      BY <1>5, <2>1, NodeCounts, Fields
    <2>3. Owed(u, m, f)' = Owed(u, m, f) - nodes[e][f]
      BY <1>2, <1>5, <2>2, NodeCounts DEF Owed
    <2>4. Owed(u, m, f) \in Int
      BY NodeCounts DEF Owed
    <2>5. CASE AddingTo(e)
      <3>1. Owed(u, m, f) - nodes[e][f] <= races[e] + 1
        BY <1>4, <1>5, <2>5 DEF Balance
      <3>2. races'[e] = races[e] + 1 /\ races[e] \in Nat
        BY <1>5, <2>1, <2>5, NodeCounts
      <3>3. races'[e] >= 1 /\ races'[e] # 0 /\ Owed(u, m, f)' <= races'[e]
        BY <2>3, <3>1, <3>2
      <3> QED  BY <1>1, <1>5, <3>3 DEF Balance
    <2>6. CASE ~AddingTo(e)
      <3>1. ~AddingTo(e)' /\ races'[e] = races[e]
        BY <1>2, <2>1, <2>6 DEF AddingTo
      <3>2. Owed(u, m, f)' <= races[e]
        BY <1>4, <1>5, <2>3, <2>6 DEF Balance
      <3>3. races[e] = 0 => Missing(u, m, f)' = 0
        <4>1. Missing(u, m, f) = Owed(u, m, f) - nodes[e][f]
          BY <1>4, <1>5, <2>6 DEF Missing, Owed, InNode
        <4>2. Missing(u, m, f)' = Owed(u, m, f)' - 0
          BY <1>1, <1>5, OnePoint DEF Missing, Owed, InNode
        <4> QED  BY <1>5, <2>3, <2>4, <4>1, <4>2, NodeCounts DEF Balance
      <3> QED  BY <1>1, <1>5, <3>1, <3>2, <3>3 DEF Balance
    <2> QED  BY <2>5, <2>6
  <1>6. CASE e # <<u, m>>
    <2>1. /\ collected'[<<u, m>>] = collected[<<u, m>>]
          /\ races'[<<u, m>>] = races[<<u, m>>]
      BY <1>1, <1>3, <1>6 DEF TypeOK
    <2>2. AddingTo(<<u, m>>)' <=> AddingTo(<<u, m>>)
      BY <1>2 DEF AddingTo
    <2> QED  BY <1>1, <1>2, <1>4, <1>6, <2>1, <2>2, Untouched
  <1> QED  BY <1>5, <1>6

(* ... and reset, whatever its thread is about to store in it.                 *)
LEMMA CountReset ==
    ASSUME TypeOK, Reset,
           NEW u \in Thread, NEW m \in Label, NEW f \in DOMAIN Zero, Balance(u, m, f)
    PROVE  Balance(u, m, f)'
  <1> DEFINE e == <<u, m>>
  <1>1. reading' = None /\ e # None /\ e \in Node
    BY NodeCounts DEF Reset
  <1>2. /\ nodes' = [nodes EXCEPT ![reading] = Zero]
        /\ UNCHANGED <<adding, completed, collected, races>>
    BY DEF Reset
  <1>3. AddingTo(e)' <=> AddingTo(e)
    BY <1>2 DEF AddingTo
  <1>4. CASE reading = e
    <2>1. nodes'[e] = Zero
      BY <1>1, <1>2, <1>4 DEF TypeOK
    <2>2. Owed(u, m, f)' = Owed(u, m, f) /\ Owed(u, m, f) \in Int
      BY <1>2, NodeCounts DEF Owed
    <2>3. Owed(u, m, f) <= races[e] /\ (AddingTo(e) => races[e] >= 1)
      BY <1>4 DEF Balance
    <2>4. nodes'[e][f] = 0
      BY <2>1, OnePoint
    <2>5. AddingTo(e) => adding[u][2][f] \in Nat
      BY NodeCounts DEF AddingTo
    <2>6. races[e] = 0 => Missing(u, m, f)' = 0
      <3>1. ASSUME races[e] = 0 PROVE Missing(u, m, f)' = 0
        <4>1. ~AddingTo(e) /\ Missing(u, m, f) = 0
          BY <2>3, <3>1 DEF Balance
        <4>2. InNode(u, m) = Zero /\ InNode(u, m)' = Zero
          BY <1>1, <1>3, <1>4, <2>1, <4>1 DEF InNode
        <4> QED  BY <1>2, <4>1, <4>2 DEF Missing
      <3> QED  BY <3>1
    <2>7. Owed(u, m, f)' - nodes'[e][f] <= races[e]
      BY <2>2, <2>3, <2>4, NodeCounts
    <2>8. AddingTo(e) => Owed(u, m, f)' - adding[u][2][f] <= races[e]
      BY <2>2, <2>3, <2>5, NodeCounts
    <2>9. Owed(u, m, f)' - nodes'[e][f] <= races[e] + 1
      BY <2>2, <2>7, <2>4, NodeCounts
    <2> QED  BY <1>1, <1>2, <1>3, <2>6, <2>7, <2>8, <2>9 DEF Balance
  <1>5. CASE reading # e
    <2>1. nodes'[e] = nodes[e]
      BY <1>1, <1>2, <1>5 DEF TypeOK
    <2> QED  BY <1>1, <1>2, <1>3, <1>5, <2>1, Untouched
  <1> QED  BY <1>4, <1>5

(* The end of a latency point, nested or not.                                  *)
LEMMA CountPop ==
    ASSUME TypeOK, BundleInv, NEW t \in Thread, PopPoint(t),
           NEW u \in Thread, NEW m \in Label, NEW f \in DOMAIN Zero,
           Counted(u, f), Balance(u, m, f)
    PROVE  Balance(u, m, f)'
  <1>1. adding[t] = None /\ UNCHANGED <<nodes, collected, reading>>
    BY DEF PopPoint, experimentVars
  <1>2. Whole \in Counts
    BY Points
  <1>3. ASSUME NEW n \in Label, Complete(t, n, Whole), NEW point \in Counts,
               point.delta = Whole.delta, Add(t, n, point), t \notin nested => point = Whole
        PROVE  Balance(u, m, f)'
    <2>1. CASE u = t /\ m = n
      <3>1. point[f] = Whole[f] /\ Whole[f] \in {0, 1}
        BY <1>3, <2>1, OnePoint DEF Counted
      <3> QED  BY <1>1, <1>2, <1>3, <2>1, <3>1, CountAdd
    <2>2. CASE u # t \/ m # n
      BY <1>1, <1>2, <1>3, <2>2, OthersAdd
    <2> QED  BY <2>1, <2>2
  <1>4. CASE t \notin nested
    <2>1. OneBundle(t)
      BY <1>4 DEF BundleInv
    <2>2. PICK n \in Label : Add(t, n, Whole) /\ Complete(t, n, Whole)
      BY <2>1, PopOne
    <2> QED  BY <1>2, <1>3, <2>2
  <1>5. CASE t \in nested
    <2>1. PICK n \in Label :
            /\ Complete(t, n, Whole)
            /\ \/ UNCHANGED <<adding, races>>
               \/ \E point \in Counts : point.delta = 0 /\ Add(t, n, point)
      BY PopLatency
    <2>2. CASE UNCHANGED <<adding, races>>
      <3>1. completed'[u][m][f] = completed[u][m][f]
        <4>1. CASE u = t /\ m = n
          <5>1. f = "delta" /\ Whole[f] = 0
            BY <1>5, <4>1 DEF Counted, Whole
          <5>2. completed'[u][m] = Plus(completed[u][m], Whole)
            BY <1>2, <2>1, <4>1, CompleteType
          <5>3. completed[u][m] \in Counts /\ completed[u][m][f] \in Nat
            BY NodeCounts
          <5>4. completed'[u][m][f] = completed[u][m][f] + Whole[f]
            BY <1>2, <5>2, <5>3, Fields
          <5> QED  BY <5>1, <5>3, <5>4
        <4>2. CASE u # t \/ m # n
          BY <1>2, <2>1, <4>2, CompleteType
        <4> QED  BY <4>1, <4>2
      <3>2. AddingTo(<<u, m>>)' <=> AddingTo(<<u, m>>)
        BY <2>2 DEF AddingTo
      <3> QED  BY <1>1, <2>2, <3>1, <3>2, Untouched
    <2>3. CASE ~UNCHANGED <<adding, races>>
      <3>1. PICK point \in Counts : point.delta = 0 /\ Add(t, n, point)
        BY <2>1, <2>3
      <3>2. Whole.delta = 0
        BY DEF Whole
      <3> QED  BY <1>3, <1>5, <2>1, <3>1, <3>2
    <2> QED  BY <2>2, <2>3
  <1> QED  BY <1>4, <1>5

(* Each action keeps the count.                                                *)
LEMMA StepCount == Typed /\ BundleInv /\ CountInv /\ [Next]_vars => CountInv'
  <1> SUFFICES ASSUME Typed, BundleInv, CountInv, [Next]_vars,
                      NEW u \in Thread, NEW m \in Label, NEW f \in DOMAIN Zero,
                      Counted(u, f)'
               PROVE  Balance(u, m, f)'
    BY DEF CountInv
  <1>0. TypeOK
    BY DEF Typed
  <1>1. Counted(u, f) /\ Balance(u, m, f)
    <2>1. nested \subseteq nested'
      BY DEF Next, Experiments, Application, Begin, End, Load, Reset, Collected, Store,
             Mark, PushPoint, PopPoint, vars
    <2>2. Counted(u, f)
      BY <2>1 DEF Counted
    <2> QED  BY <2>2 DEF CountInv
  <1>2. ASSUME NEW t \in Thread, Mark(t) PROVE Balance(u, m, f)'
    <2>1. PICK n \in Label : Add(t, n, One) /\ Complete(t, n, One)
      BY <1>2 DEF Mark
    <2>2. adding[t] = None /\ UNCHANGED <<nodes, collected, reading>> /\ One \in Counts
      BY <1>2, Points DEF Mark, Ready, experimentVars
    <2>3. CASE u = t /\ m = n
      BY <1>0, <1>1, <2>1, <2>2, <2>3, CountAdd, OnePoint
    <2>4. CASE u # t \/ m # n
      BY <1>0, <1>1, <2>1, <2>2, <2>4, OthersAdd
    <2> QED  BY <2>3, <2>4
  <1>3. CASE UNCHANGED <<nodes, adding, completed, collected, reading, races>>
    <2>1. AddingTo(<<u, m>>)' <=> AddingTo(<<u, m>>)
      BY <1>3 DEF AddingTo
    <2> QED  BY <1>1, <1>3, <2>1, Untouched
  <1>4. \A t \in Thread : PushPoint(t) =>
            UNCHANGED <<nodes, adding, completed, collected, reading, races>>
    BY DEF PushPoint, experimentVars
  <1>5. Begin \/ End \/ Collected \/ UNCHANGED vars =>
            UNCHANGED <<nodes, adding, completed, collected, reading, races>>
    BY DEF Begin, End, Collected, vars, threadVars, experimentVars
  <1> QED  BY <1>0, <1>1, <1>2, <1>3, <1>4, <1>5, CountStore, CountLoad, CountReset, CountPop
           DEF Next, Application, Experiments

(* By any number of threads, over any number of experiments and whatever the   *)
(* nesting of latency points, a point is lost or counted twice only where an   *)
(* addition to a node overlaps with a collection of it; each overlap loses one *)
(* point at most.                                                              *)
THEOREM CountedOnce == Spec => []PointsConserved
  <1>1. Init => BundleInv /\ CountInv
    <2> SUFFICES ASSUME Init PROVE BundleInv /\ CountInv
      OBVIOUS
    <2>1. BundleInv
      BY DEF Init, BundleInv, OneBundle
    <2>2. ASSUME NEW t \in Thread, NEW n \in Label, NEW f \in DOMAIN Zero
          PROVE  Balance(t, n, f)
      <3>1. <<t, n>> \in Node /\ <<t, n>> # None
        BY NotNone DEF Node
      <3>2. /\ completed[t][n] = Zero /\ collected[<<t, n>>] = Zero
            /\ nodes[<<t, n>>] = Zero /\ races[<<t, n>>] = 0
            /\ reading # <<t, n>> /\ ~AddingTo(<<t, n>>)
        BY <3>1 DEF Init, Nothing, AddingTo
      <3>3. Zero[f] = 0
        BY OnePoint
      <3> QED  BY <3>2, <3>3 DEF Balance, Owed, Missing, InNode
    <2> QED  BY <2>1, <2>2 DEF CountInv
  <1>2. Typed /\ BundleInv /\ CountInv /\ [Next]_vars => (BundleInv /\ CountInv)'
    BY StepBundle, StepCount
  <1>3. Typed /\ CountInv => PointsConserved
    <2> SUFFICES ASSUME TypeOK, CountInv, NEW t \in Thread, NEW n \in Label,
                        NEW f \in DOMAIN Zero, Counted(t, f)
                 PROVE  /\ Missing(t, n, f) <= races[<<t, n>>]
                        /\ races[<<t, n>>] = 0 => Missing(t, n, f) = 0
      BY DEF PointsConserved, Typed
    <2>1. Balance(t, n, f)
      BY DEF CountInv
    <2>2. CASE reading = <<t, n>>
      <3>1. Missing(t, n, f) = Owed(t, n, f) - 0
        BY <2>2, OnePoint DEF Missing, Owed, InNode
      <3> QED  BY <2>1, <2>2, <3>1, NodeCounts DEF Balance, Owed
    <2>3. CASE reading # <<t, n>> /\ AddingTo(<<t, n>>)
      BY <2>1, <2>3 DEF Balance, Missing, Owed, InNode
    <2>4. CASE reading # <<t, n>> /\ ~AddingTo(<<t, n>>)
      BY <2>1, <2>4 DEF Balance, Missing, Owed, InNode
    <2> QED  BY <2>2, <2>3, <2>4
  <1> QED  BY <1>1, <1>2, <1>3, TypeInvariant, PTL DEF Spec
=============================================================================
