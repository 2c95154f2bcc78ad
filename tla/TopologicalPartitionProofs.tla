--------------------- MODULE TopologicalPartitionProofs ---------------------
(***************************************************************************)
(* Proofs about TopologicalPartition for every graph, of any size.         *)
(*                                                                         *)
(* The inductive invariant relates the indegree counters to what is        *)
(* already placed: a node's counter is the number of its counted inputs    *)
(* that are in no partition yet, and the queue holds exactly the nodes     *)
(* whose counter is 0 and which are in no partition yet.                   *)
(***************************************************************************)
EXTENDS TopologicalPartition, FiniteSetTheorems, SequenceTheorems, WellFoundedInduction, TLAPS

(* n is somewhere in the sequence of partitions.                           *)
Placed(n) ==
  \E p \in 1 .. Len(partitions) : \E j \in 1 .. Len(partitions[p]) : partitions[p][j] = n

Pending(n) == {m \in CountedInputs(n) : ~Placed(m)}

Indegrees == \A n \in Node : remaining[n] = Cardinality(Pending(n))

QueueIsReady ==
  \A n \in Node : (\E i \in 1 .. Len(queue) : queue[i] = n)
                    <=> ~IsGetAttr(n) /\ ~Placed(n) /\ Pending(n) = {}

QueueDistinct == \A i, j \in 1 .. Len(queue) : queue[i] = queue[j] => i = j

PlacedWasReady == \A n \in Node : Placed(n) => Pending(n) = {}

GetAttrsLast ==
  \A n \in Node : IsGetAttr(n) =>
    /\ queue # <<>> => n \in unplaced
    /\ n \in unplaced => ~Placed(n)
    /\ n \notin unplaced => Placed(n) \/ Users(n) = {}

PlacesDistinct ==
  \A p, q \in 1 .. Len(partitions) :
    \A i \in 1 .. Len(partitions[p]), j \in 1 .. Len(partitions[q]) :
      partitions[p][i] = partitions[q][j] => p = q /\ i = j

IndInv ==
  /\ TypeOK
  /\ Indegrees
  /\ QueueIsReady
  /\ QueueDistinct
  /\ PlacedWasReady
  /\ GetAttrsLast
  /\ PlacesDistinct
  /\ InputsComputedFirst
  /\ TargetClosesPartition

-----------------------------------------------------------------------------
(* The two ways partitions grow.                                           *)

(* What `Assign` leaves in place and what it adds: n ends the last         *)
(* partition, and an empty one follows if n is a target.                   *)
LEMMA AssignEffect ==
  ASSUME partitions \in Seq(Seq(Node)), Len(partitions) >= 1,
         NEW n \in Node, partitions' = Assign(n)
  PROVE  LET k == Len(partitions)
         IN  /\ partitions' \in Seq(Seq(Node))
             /\ Len(partitions') = IF n \in TargetNodes THEN k + 1 ELSE k
             /\ \A q \in 1 .. (k - 1) : partitions'[q] = partitions[q]
             /\ Len(partitions'[k]) = Len(partitions[k]) + 1
             /\ \A i \in 1 .. Len(partitions[k]) : partitions'[k][i] = partitions[k][i]
             /\ partitions'[k][Len(partitions[k]) + 1] = n
             /\ n \in TargetNodes => partitions'[k + 1] = <<>>
<1> DEFINE k     == Len(partitions)
           longer == Append(partitions[k], n)
           grown == [partitions EXCEPT ![k] = longer]
<1>1. k \in Nat /\ k >= 1 /\ partitions[k] \in Seq(Node)
  OBVIOUS
<1>2. /\ longer \in Seq(Node)
      /\ Len(longer) = Len(partitions[k]) + 1
      /\ \A i \in 1 .. Len(partitions[k]) : longer[i] = partitions[k][i]
      /\ longer[Len(partitions[k]) + 1] = n
  BY <1>1
<1> HIDE DEF longer
<1>3. /\ grown \in Seq(Seq(Node))
      /\ Len(grown) = k
      /\ grown[k] = longer
      /\ \A q \in 1 .. (k - 1) : grown[q] = partitions[q]
  BY <1>1, <1>2
<1>4. partitions' = IF n \in TargetNodes THEN Append(grown, <<>>) ELSE grown
  BY DEF Assign, longer
<1> HIDE DEF grown
<1>5. CASE n \in TargetNodes
  <2>1. partitions' = Append(grown, <<>>) /\ <<>> \in Seq(Node)
    BY <1>4, <1>5
  <2>2. /\ partitions' \in Seq(Seq(Node))
        /\ Len(partitions') = k + 1
        /\ \A q \in 1 .. k : partitions'[q] = grown[q]
        /\ partitions'[k + 1] = <<>>
    BY <2>1, <1>1, <1>3
  <2>3. /\ partitions'[k] = longer
        /\ \A q \in 1 .. (k - 1) : partitions'[q] = partitions[q]
    <3>1. k \in 1 .. k /\ \A q \in 1 .. (k - 1) : q \in 1 .. k
      BY <1>1
    <3> QED
      BY <3>1, <2>2, <1>3, Zenon
  <2>4. Len(partitions'[k]) = Len(partitions[k]) + 1
    BY <2>3, <1>2
  <2>5. \A i \in 1 .. Len(partitions[k]) : partitions'[k][i] = partitions[k][i]
    BY <2>3, <1>2
  <2>6. partitions'[k][Len(partitions[k]) + 1] = n
    BY <2>3, <1>2
  <2>7. Len(partitions') = IF n \in TargetNodes THEN k + 1 ELSE k
    BY <2>2, <1>5
  <2>8. n \in TargetNodes => partitions'[k + 1] = <<>>
    BY <2>2
  <2>9. partitions' \in Seq(Seq(Node))
    BY <2>2
  <2>10. \A q \in 1 .. (k - 1) : partitions'[q] = partitions[q]
    BY <2>3
  <2> QED
    BY <2>4, <2>5, <2>6, <2>7, <2>8, <2>9, <2>10
<1>6. CASE n \notin TargetNodes
  BY <1>1, <1>2, <1>3, <1>4, <1>6
<1> QED
  BY <1>5, <1>6

(* Inserting a node at the front of a partition shifts that partition only.*)
LEMMA InsertEffect ==
  ASSUME partitions \in Seq(Seq(Node)), NEW p \in 1 .. Len(partitions),
         NEW n \in Node, partitions' = [partitions EXCEPT ![p] = <<n>> \o @]
  PROVE  /\ partitions' \in Seq(Seq(Node))
         /\ Len(partitions') = Len(partitions)
         /\ \A q \in 1 .. Len(partitions) : q # p => partitions'[q] = partitions[q]
         /\ Len(partitions'[p]) = Len(partitions[p]) + 1
         /\ partitions'[p][1] = n
         /\ \A i \in 1 .. Len(partitions[p]) : partitions'[p][i + 1] = partitions[p][i]
<1> DEFINE longer == <<n>> \o partitions[p]
<1>1. partitions[p] \in Seq(Node) /\ <<n>> \in Seq(Node) /\ Len(<<n>>) = 1
  OBVIOUS
<1>2. /\ longer \in Seq(Node)
      /\ Len(longer) = Len(partitions[p]) + 1
      /\ longer[1] = n
      /\ \A i \in 1 .. Len(partitions[p]) : longer[i + 1] = partitions[p][i]
  BY <1>1
<1> HIDE DEF longer
<1>3. partitions' = [partitions EXCEPT ![p] = longer]
  BY DEF longer
<1> QED
  BY <1>2, <1>3

-----------------------------------------------------------------------------
(* Facts about the graph and about what is placed.                         *)

LEMMA NodesFinite == IsFiniteSet(Node)
BY NAssumption, FS_Interval DEF Node

(* A nonempty set of the numbers up to k has a last one.                   *)
LEMMA LastOfSome ==
  ASSUME NEW k \in Nat, NEW S, S \subseteq 1 .. k, S # {}
  PROVE  \E x \in S : \A y \in S : y <= x
<1> DEFINE Gaps == {k - x : x \in S}
           R    == {ss \in Nat \X Nat : ss[1] < ss[2]}
<1>1. Gaps \subseteq Nat /\ Gaps # {}
  <2>1. ASSUME NEW x \in S PROVE k - x \in Nat
    OBVIOUS
  <2> QED
    BY <2>1
<1>2. IsWellFoundedOn(R, Nat)
  BY NatLessThanWellFounded, Zenon DEF OpToRel
<1>3. PICK least \in Gaps : \A gap \in Gaps : <<gap, least>> \notin R
  <2> HIDE DEF Gaps, R
  <2> QED
    BY <1>1, <1>2, WFMin, Zenon
<1>4. PICK x \in S : least = k - x
  OBVIOUS
<1>5. ASSUME NEW y \in S PROVE y <= x
  <2>1. k - y \in Nat /\ least \in Nat /\ <<k - y, least>> \notin R
    BY <1>1, <1>3
  <2>2. ~(k - y < k - x)
    BY <2>1, <1>4
  <2> QED
    BY <2>2
<1> QED
  BY <1>5

LEMMA PendingFinite ==
  ASSUME IsTraced(graph), NEW n \in Node
  PROVE  IsFiniteSet(Pending(n)) /\ Pending(n) \subseteq Node
<1>1. Pending(n) \subseteq Node
  BY DEF Pending, CountedInputs, IsTraced, Graph
<1> QED
  BY <1>1, NodesFinite, FS_Subset

(* A node that is read is read by later nodes, none of them a get_attr.    *)
LEMMA UsersAreLater ==
  ASSUME IsTraced(graph), NEW n \in Node, NEW u \in Users(n)
  PROVE  u \in Node /\ u # n /\ ~IsGetAttr(u) /\ n < u
BY DEF Users, IsTraced, Graph, IsGetAttr, Node

LEMMA PlacedIsNode ==
  ASSUME partitions \in Seq(Seq(Node)), NEW m, Placed(m)
  PROVE  m \in Node
<1>1. PICK p \in 1 .. Len(partitions) : \E j \in 1 .. Len(partitions[p]) : partitions[p][j] = m
  BY DEF Placed
<1>2. partitions[p] \in Seq(Node)
  BY <1>1
<1> QED
  BY <1>1, <1>2

LEMMA AssignedIsPlaced ==
  ASSUME NEW n PROVE Assigned(n) <=> Placed(n)
BY DEF Assigned, Placed, PartitionsOf, NodesOf

LEMMA AssignPlaces ==
  ASSUME partitions \in Seq(Seq(Node)), Len(partitions) >= 1,
         NEW n \in Node, partitions' = Assign(n), NEW m
  PROVE  Placed(m)' <=> Placed(m) \/ m = n
<1> DEFINE k == Len(partitions)
           l == Len(partitions[k])
<1> k \in Nat /\ k >= 1 /\ partitions[k] \in Seq(Node) /\ l \in Nat
  OBVIOUS
<1>1. /\ Len(partitions') = IF n \in TargetNodes THEN k + 1 ELSE k
      /\ \A q \in 1 .. (k - 1) : partitions'[q] = partitions[q]
      /\ Len(partitions'[k]) = l + 1
      /\ \A i \in 1 .. l : partitions'[k][i] = partitions[k][i]
      /\ partitions'[k][l + 1] = n
      /\ n \in TargetNodes => partitions'[k + 1] = <<>>
  BY AssignEffect
<1>2. ASSUME Placed(m) PROVE Placed(m)'
  <2>0. PICK p \in 1 .. k : \E j \in 1 .. Len(partitions[p]) : partitions[p][j] = m
    BY <1>2 DEF Placed
  <2>1. PICK j \in 1 .. Len(partitions[p]) : partitions[p][j] = m
    BY <2>0
  <2>2. p \in 1 .. Len(partitions') /\ j \in 1 .. Len(partitions'[p]) /\ partitions'[p][j] = m
    <3>1. CASE p = k
      BY <3>1, <2>1, <1>1
    <3>2. CASE p # k
      <4>1. p \in 1 .. (k - 1)
        BY <3>2
      <4>2. partitions'[p] = partitions[p]
        BY <4>1, <1>1, Zenon
      <4> QED
        BY <4>1, <4>2, <2>1, <1>1
    <3> QED
      BY <3>1, <3>2
  <2> QED
    BY <2>2 DEF Placed
<1>3. ASSUME m = n PROVE Placed(m)'
  <2>1. k \in 1 .. Len(partitions') /\ l + 1 \in 1 .. Len(partitions'[k])
    BY <1>1
  <2> QED
    BY <2>1, <1>1, <1>3 DEF Placed
<1>4. ASSUME Placed(m)' PROVE Placed(m) \/ m = n
  <2>0. PICK p \in 1 .. Len(partitions') : \E j \in 1 .. Len(partitions'[p]) : partitions'[p][j] = m
    BY <1>4 DEF Placed
  <2>1. PICK j \in 1 .. Len(partitions'[p]) : partitions'[p][j] = m
    BY <2>0
  <2>2. CASE p \in 1 .. (k - 1)
    <3>1. partitions'[p] = partitions[p]
      BY <2>2, <1>1, Zenon
    <3>2. p \in 1 .. Len(partitions) /\ j \in 1 .. Len(partitions[p]) /\ partitions[p][j] = m
      BY <3>1, <2>1, <2>2
    <3> QED
      BY <3>2 DEF Placed
  <2>3. CASE p = k
    <3>1. j \in 1 .. l \/ j = l + 1
      BY <2>1, <2>3, <1>1
    <3>2. j \in 1 .. l => partitions[k][j] = m
      BY <2>1, <2>3, <1>1
    <3>3. j = l + 1 => m = n
      BY <2>1, <2>3, <1>1
    <3> QED
      BY <3>1, <3>2, <3>3 DEF Placed
  <2>4. CASE p = k + 1
    BY <2>1, <2>4, <1>1
  <2> QED
    BY <2>1, <2>2, <2>3, <2>4, <1>1
<1> QED
  BY <1>2, <1>3, <1>4

LEMMA InsertPlaces ==
  ASSUME partitions \in Seq(Seq(Node)), NEW p \in 1 .. Len(partitions),
         NEW n \in Node, partitions' = [partitions EXCEPT ![p] = <<n>> \o @], NEW m
  PROVE  Placed(m)' <=> Placed(m) \/ m = n
<1> DEFINE l == Len(partitions[p])
<1> partitions[p] \in Seq(Node) /\ l \in Nat
  OBVIOUS
<1>1. /\ Len(partitions') = Len(partitions)
      /\ \A q \in 1 .. Len(partitions) : q # p => partitions'[q] = partitions[q]
      /\ Len(partitions'[p]) = l + 1
      /\ partitions'[p][1] = n
      /\ \A i \in 1 .. l : partitions'[p][i + 1] = partitions[p][i]
  BY InsertEffect
<1>2. ASSUME Placed(m) PROVE Placed(m)'
  <2>0. PICK q \in 1 .. Len(partitions) : \E j \in 1 .. Len(partitions[q]) : partitions[q][j] = m
    BY <1>2 DEF Placed
  <2>1. PICK j \in 1 .. Len(partitions[q]) : partitions[q][j] = m
    BY <2>0
  <2>2. CASE q = p
    <3>1. j + 1 \in 1 .. Len(partitions'[p]) /\ partitions'[p][j + 1] = m
      BY <2>1, <2>2, <1>1
    <3> QED
      BY <3>1, <1>1 DEF Placed
  <2>3. CASE q # p
    <3>1. q \in 1 .. Len(partitions') /\ j \in 1 .. Len(partitions'[q]) /\ partitions'[q][j] = m
      BY <2>1, <2>3, <1>1
    <3> QED
      BY <3>1 DEF Placed
  <2> QED
    BY <2>2, <2>3
<1>3. ASSUME m = n PROVE Placed(m)'
  <2>1. p \in 1 .. Len(partitions') /\ 1 \in 1 .. Len(partitions'[p]) /\ partitions'[p][1] = m
    BY <1>1, <1>3
  <2> QED
    BY <2>1 DEF Placed
<1>4. ASSUME Placed(m)' PROVE Placed(m) \/ m = n
  <2>0. PICK q \in 1 .. Len(partitions') : \E j \in 1 .. Len(partitions'[q]) : partitions'[q][j] = m
    BY <1>4 DEF Placed
  <2>1. PICK j \in 1 .. Len(partitions'[q]) : partitions'[q][j] = m
    BY <2>0
  <2>2. CASE q = p
    <3>1. j = 1 \/ (j - 1 \in 1 .. l /\ j = (j - 1) + 1)
      BY <2>1, <2>2, <1>1
    <3>2. ASSUME j - 1 \in 1 .. l, j = (j - 1) + 1 PROVE partitions[p][j - 1] = m
      BY <3>2, <2>1, <2>2, <1>1
    <3> QED
      BY <3>1, <3>2, <2>1, <2>2, <1>1 DEF Placed
  <2>3. CASE q # p
    <3>1. q \in 1 .. Len(partitions) /\ j \in 1 .. Len(partitions[q]) /\ partitions[q][j] = m
      BY <2>1, <2>3, <1>1
    <3> QED
      BY <3>1 DEF Placed
  <2> QED
    BY <2>2, <2>3
<1> QED
  BY <1>2, <1>3, <1>4

-----------------------------------------------------------------------------
(* The invariant holds initially.                                          *)

LEMMA OrdersCover ==
  ASSUME NEW S, IsFiniteSet(S), NEW s \in Orders(S)
  PROVE  /\ s \in Seq(S)
         /\ \A x : (\E i \in 1 .. Len(s) : s[i] = x) <=> x \in S
         /\ \A i, j \in 1 .. Len(s) : s[i] = s[j] => i = j
<1>1. Cardinality(S) \in Nat
  BY FS_CardinalityType
<1>2. /\ s \in [1 .. Cardinality(S) -> S]
      /\ \A x \in S : \E i \in 1 .. Cardinality(S) : s[i] = x
      /\ \A i, j \in 1 .. Cardinality(S) : s[i] = s[j] => i = j
  BY DEF Orders, Bijection, Injection, Surjection, IsInjective
<1>3. s \in Seq(S) /\ Len(s) = Cardinality(S)
  BY <1>1, <1>2
<1> QED
  BY <1>2, <1>3

LEMMA InitIndInv == Init => IndInv
<1> SUFFICES ASSUME Init PROVE IndInv
  OBVIOUS
<1>1. IsTraced(graph)
  BY GraphsAssumption DEF Init
<1>2. partitions = << <<>> >> /\ Len(partitions) = 1 /\ partitions[1] = <<>>
  BY DEF Init
<1>3. \A m : ~Placed(m)
  BY <1>2 DEF Placed
<1>4. \A n \in Node : Pending(n) = CountedInputs(n)
  BY <1>3 DEF Pending, CountedInputs
<1>5. Indegrees /\ remaining \in [Node -> Nat]
  <2>1. remaining = [n \in Node |-> Cardinality(CountedInputs(n))]
    BY DEF Init
  <2>2. \A n \in Node : Cardinality(Pending(n)) \in Nat
    BY <1>1, PendingFinite, FS_CardinalityType
  <2> QED
    BY <2>1, <2>2, <1>4 DEF Indegrees
<1> DEFINE Entry == {n \in Node : remaining[n] = 0 /\ ~IsGetAttr(n)}
<1>6. queue \in Orders(Entry) /\ IsFiniteSet(Entry)
  BY NodesFinite, FS_Subset DEF Init
<1>7. /\ queue \in Seq(Entry)
      /\ \A x : (\E i \in 1 .. Len(queue) : queue[i] = x) <=> x \in Entry
      /\ QueueDistinct
  BY <1>6, OrdersCover DEF QueueDistinct
<1>8. TypeOK
  <2>1. queue \in Seq(Node)
    BY <1>7
  <2>2. partitions \in Seq(Seq(Node)) /\ Len(partitions) >= 1
    <3>1. <<>> \in Seq(Node)
      OBVIOUS
    <3> QED
      BY <3>1, <1>2
  <2> QED
    BY <2>1, <2>2, <1>1, <1>5 DEF TypeOK, Init
<1>9. QueueIsReady
  <2>1. \A n \in Node : remaining[n] = 0 <=> Pending(n) = {}
    BY <1>1, <1>5, PendingFinite, FS_EmptySet DEF Indegrees
  <2> QED
    BY <2>1, <1>3, <1>7 DEF QueueIsReady
<1>10. PlacedWasReady /\ GetAttrsLast
  BY <1>3 DEF PlacedWasReady, GetAttrsLast, Init
<1>11. PlacesDistinct /\ InputsComputedFirst /\ TargetClosesPartition
  BY <1>2 DEF PlacesDistinct, InputsComputedFirst, TargetClosesPartition
<1> QED
  BY <1>5, <1>7, <1>8, <1>9, <1>10, <1>11 DEF IndInv

-----------------------------------------------------------------------------
(* One iteration of the first loop.                                        *)

LEMMA PopStep == IndInv /\ Pop => IndInv'
<1> SUFFICES ASSUME IndInv, Pop PROVE IndInv'
  OBVIOUS
<1> DEFINE node == Head(queue)
           k    == Len(partitions)
           l    == Len(partitions[k])
<1>1. /\ IsTraced(graph)
      /\ remaining \in [Node -> Nat]
      /\ queue \in Seq(Node) /\ queue # <<>>
      /\ partitions \in Seq(Seq(Node)) /\ k \in Nat /\ k >= 1
      /\ partitions[k] \in Seq(Node) /\ l \in Nat
  BY DEF IndInv, TypeOK, Pop
<1>2. /\ node \in Node /\ Tail(queue) \in Seq(Node)
      /\ Len(queue) \in Nat /\ Len(queue) >= 1 /\ Len(Tail(queue)) = Len(queue) - 1
      /\ queue[1] = node
      /\ \A i \in 1 .. Len(Tail(queue)) : Tail(queue)[i] = queue[i + 1]
  BY <1>1
<1>3. ~IsGetAttr(node) /\ ~Placed(node) /\ Pending(node) = {}
  BY <1>2 DEF IndInv, QueueIsReady
<1>4. /\ partitions' = Assign(node) /\ graph' = graph /\ unplaced' = unplaced
      /\ remaining' = [n \in Node |-> IF n \in Users(node)
                                         THEN remaining[n] - 1 ELSE remaining[n]]
  BY DEF Pop
<1>5. PICK released \in Orders(Released(Users(node), remaining')) :
         queue' = Tail(queue) \o released
  BY DEF Pop
<1>6. \A m : Placed(m)' <=> Placed(m) \/ m = node
  BY <1>1, <1>2, <1>4, AssignPlaces
<1>7. \A n : /\ CountedInputs(n)' = CountedInputs(n)
             /\ IsGetAttr(n)' <=> IsGetAttr(n)
             /\ Users(n)' = Users(n)
  BY <1>4 DEF CountedInputs, IsGetAttr, Users
<1>8. \A n : Pending(n)' = Pending(n) \ {node}
  BY <1>6, <1>7 DEF Pending
<1>9. \A n \in Node : n \in Users(node) <=> node \in Pending(n)
  BY <1>3 DEF Users, Pending, CountedInputs
<1>10. \A n \in Node : IsFiniteSet(Pending(n)) /\ IsFiniteSet(Pending(n)')
  <2> TAKE n \in Node
  <2>1. IsFiniteSet(Pending(n))
    BY <1>1, PendingFinite
  <2> QED
    BY <2>1, <1>8, FS_RemoveElement
<1>11. Indegrees' /\ remaining' \in [Node -> Nat]
  <2>1. ASSUME NEW n \in Node
        PROVE  remaining'[n] = Cardinality(Pending(n)') /\ remaining'[n] \in Nat
    <3>1. remaining[n] = Cardinality(Pending(n)) /\ remaining[n] \in Nat
      BY <1>1 DEF IndInv, Indegrees
    <3>2. Cardinality(Pending(n)') = IF node \in Pending(n)
                                       THEN Cardinality(Pending(n)) - 1
                                       ELSE Cardinality(Pending(n))
      BY <1>8, <1>10, FS_RemoveElement
    <3>3. remaining'[n] = IF node \in Pending(n) THEN remaining[n] - 1 ELSE remaining[n]
      BY <1>4, <1>9
    <3>4. Cardinality(Pending(n)') \in Nat
      BY <1>10, FS_CardinalityType
    <3> QED
      BY <3>1, <3>2, <3>3, <3>4
  <2>2. remaining' = [n \in Node |-> remaining'[n]]
    BY <1>4
  <2> QED
    BY <2>1, <2>2 DEF Indegrees
<1> DEFINE Ready == {u \in Node : node \in Pending(u) /\ Pending(u) \subseteq {node}}
<1>12. /\ released \in Seq(Node)
       /\ \A x : (\E i \in 1 .. Len(released) : released[i] = x) <=> x \in Ready
       /\ \A i, j \in 1 .. Len(released) : released[i] = released[j] => i = j
  <2>1. \A u \in Node : remaining'[u] = 0 <=> Pending(u) \subseteq {node}
    BY <1>8, <1>10, <1>11, FS_EmptySet DEF Indegrees
  <2>2. Released(Users(node), remaining') = Ready
    BY <2>1, <1>9 DEF Released, Users
  <2>3. IsFiniteSet(Ready)
    BY NodesFinite, FS_Subset
  <2>4. Ready \subseteq Node
    OBVIOUS
  <2> HIDE DEF Ready
  <2>5. released \in Orders(Ready)
    BY <1>5, <2>2
  <2>6. /\ released \in Seq(Ready)
        /\ \A x : (\E i \in 1 .. Len(released) : released[i] = x) <=> x \in Ready
        /\ \A i, j \in 1 .. Len(released) : released[i] = released[j] => i = j
    BY <2>3, <2>5, OrdersCover
  <2>7. released \in Seq(Node)
    BY <2>4, <2>6, SeqMonotonic
  <2> QED
    BY <2>6, <2>7
<1> HIDE DEF node, Ready
<1>13. ASSUME NEW u \in Ready
       PROVE  /\ u \in Node /\ ~IsGetAttr(u) /\ ~Placed(u) /\ u # node
              /\ \A i \in 1 .. Len(queue) : queue[i] # u
  <2>1. u \in Node /\ node \in Pending(u)
    BY DEF Ready
  <2>2. u \in Users(node)
    BY <2>1, <1>9
  <2>3. u # node /\ ~IsGetAttr(u)
    BY <2>2, <1>1, <1>2, UsersAreLater
  <2> QED
    BY <2>1, <2>3 DEF IndInv, QueueIsReady, PlacedWasReady
<1>14. queue' \in Seq(Node) /\ Len(queue') = Len(Tail(queue)) + Len(released)
  BY <1>2, <1>5, <1>12
<1>15. /\ \A i \in 1 .. Len(Tail(queue)) : queue'[i] = queue[i + 1]
       /\ \A i \in 1 .. Len(released) : queue'[Len(Tail(queue)) + i] = released[i]
  BY <1>2, <1>5, <1>12
<1>16. \A n : (\E i \in 1 .. Len(queue') : queue'[i] = n)
                <=> (\E i \in 2 .. Len(queue) : queue[i] = n) \/ n \in Ready
  <2> TAKE n
  <2>1. ASSUME NEW i \in 1 .. Len(queue'), queue'[i] = n
        PROVE  (\E j \in 2 .. Len(queue) : queue[j] = n) \/ n \in Ready
    <3>1. CASE i \in 1 .. Len(Tail(queue))
      <4>1. i + 1 \in 2 .. Len(queue) /\ queue[i + 1] = n
        BY <3>1, <2>1, <1>15, <1>2
      <4> QED
        BY <4>1
    <3>2. CASE i \notin 1 .. Len(Tail(queue))
      <4>1. /\ i - Len(Tail(queue)) \in 1 .. Len(released)
            /\ i = Len(Tail(queue)) + (i - Len(Tail(queue)))
        BY <3>2, <1>14, <1>12, <1>2
      <4>2. released[i - Len(Tail(queue))] = n
        BY <4>1, <2>1, <1>15
      <4> QED
        BY <4>1, <4>2, <1>12
    <3> QED
      BY <3>1, <3>2
  <2>2. ASSUME NEW j \in 2 .. Len(queue), queue[j] = n
        PROVE  \E i \in 1 .. Len(queue') : queue'[i] = n
    <3>1. j - 1 \in 1 .. Len(Tail(queue)) /\ j = (j - 1) + 1
      BY <1>2
    <3>2. queue'[j - 1] = n
      BY <3>1, <2>2, <1>15
    <3>3. j - 1 \in 1 .. Len(queue')
      BY <3>1, <1>14, <1>12, <1>2
    <3> QED
      BY <3>2, <3>3
  <2>3. ASSUME n \in Ready
        PROVE  \E i \in 1 .. Len(queue') : queue'[i] = n
    <3>1. PICK i \in 1 .. Len(released) : released[i] = n
      BY <2>3, <1>12
    <3>2. Len(Tail(queue)) + i \in 1 .. Len(queue')
      BY <1>14, <1>12, <1>2
    <3>3. queue'[Len(Tail(queue)) + i] = n
      BY <3>1, <1>15
    <3> QED
      BY <3>2, <3>3
  <2> QED
    BY <2>1, <2>2, <2>3
<1>17. \A n : (\E i \in 2 .. Len(queue) : queue[i] = n)
                <=> (\E i \in 1 .. Len(queue) : queue[i] = n) /\ n # node
  BY <1>2 DEF IndInv, QueueDistinct
<1>18. QueueIsReady'
  <2> SUFFICES ASSUME NEW n \in Node
               PROVE  (\E i \in 1 .. Len(queue') : queue'[i] = n)
                        <=> ~IsGetAttr(n) /\ ~Placed(n)' /\ Pending(n)' = {}
    BY <1>7 DEF QueueIsReady
  <2>1. (\E i \in 1 .. Len(queue) : queue[i] = n)
          <=> ~IsGetAttr(n) /\ ~Placed(n) /\ Pending(n) = {}
    BY DEF IndInv, QueueIsReady
  <2>2. CASE n = node
    <3>1. n \notin Ready /\ Placed(n)'
      BY <2>2, <1>6, <1>13
    <3> QED
      BY <3>1, <2>2, <1>16, <1>17
  <2>3. CASE n \in Ready
    <3>1. Pending(n)' = {}
      BY <2>3, <1>8 DEF Ready
    <3> QED
      BY <3>1, <2>3, <1>6, <1>13, <1>16
  <2>4. CASE n # node /\ n \notin Ready
    <3>1. Pending(n)' = {} /\ ~Placed(n) => Pending(n) = {}
      BY <2>4, <1>8 DEF Ready
    <3>2. Pending(n) = {} => Pending(n)' = {}
      BY <1>8
    <3>3. Placed(n)' <=> Placed(n)
      BY <2>4, <1>6
    <3> QED
      BY <3>1, <3>2, <3>3, <2>1, <2>4, <1>16, <1>17
  <2> QED
    BY <2>2, <2>3, <2>4
<1>19. QueueDistinct'
  <2> SUFFICES ASSUME NEW i \in 1 .. Len(queue'), NEW j \in 1 .. Len(queue'),
                      queue'[i] = queue'[j], i < j
               PROVE  FALSE
    BY <1>14 DEF QueueDistinct
  <2> DEFINE t == Len(Tail(queue))
  <2>0. t \in Nat /\ Len(released) \in Nat
    BY <1>2, <1>12
  <2>1. CASE j \in 1 .. t
    <3>1. /\ i \in 1 .. t /\ queue[i + 1] = queue[j + 1]
          /\ i + 1 \in 1 .. Len(queue) /\ j + 1 \in 1 .. Len(queue)
      BY <2>0, <2>1, <1>2, <1>15
    <3> QED
      BY <3>1 DEF IndInv, QueueDistinct
  <2>2. CASE i \in 1 .. t /\ j \notin 1 .. t
    <3>1. j - t \in 1 .. Len(released) /\ j = t + (j - t)
      BY <2>0, <2>2, <1>14
    <3>2. released[j - t] \in Ready /\ queue'[j] = released[j - t]
      BY <3>1, <1>12, <1>15
    <3>3. i + 1 \in 1 .. Len(queue) /\ queue'[i] = queue[i + 1]
      BY <2>0, <2>2, <1>2, <1>15
    <3> QED
      BY <3>2, <3>3, <1>13
  <2>3. CASE i \notin 1 .. t /\ j \notin 1 .. t
    <3>1. /\ i - t \in 1 .. Len(released) /\ i = t + (i - t)
          /\ j - t \in 1 .. Len(released) /\ j = t + (j - t)
      BY <2>0, <2>3, <1>14
    <3>2. released[i - t] = released[j - t]
      BY <3>1, <1>15
    <3>3. i - t = j - t
      BY <3>1, <3>2, <1>12
    <3> QED
      BY <3>1, <3>3
  <2> QED
    BY <2>0, <2>1, <2>2, <2>3
<1>20. PlacedWasReady'
  <2> SUFFICES ASSUME NEW n \in Node, Placed(n)' PROVE Pending(n)' = {}
    BY DEF PlacedWasReady
  <2> QED
    BY <1>3, <1>6, <1>8 DEF IndInv, PlacedWasReady
<1>21. GetAttrsLast'
  <2> SUFFICES ASSUME NEW n \in Node, IsGetAttr(n)
               PROVE  n \in unplaced' /\ ~Placed(n)'
    BY <1>7 DEF GetAttrsLast
  <2>1. n \in unplaced /\ ~Placed(n) /\ n # node
    BY <1>1, <1>3 DEF IndInv, GetAttrsLast
  <2> QED
    BY <2>1, <1>4, <1>6
<1>22. /\ partitions' \in Seq(Seq(Node))
       /\ Len(partitions') = IF node \in TargetNodes THEN k + 1 ELSE k
       /\ \A q \in 1 .. (k - 1) : partitions'[q] = partitions[q]
       /\ Len(partitions'[k]) = l + 1
       /\ \A i \in 1 .. l : partitions'[k][i] = partitions[k][i]
       /\ partitions'[k][l + 1] = node
       /\ node \in TargetNodes => partitions'[k + 1] = <<>>
  BY <1>1, <1>2, <1>4, AssignEffect
<1>23. TypeOK'
  <2>1. unplaced' \subseteq {n \in Node : IsGetAttr(n)'}
    BY <1>4, <1>7 DEF IndInv, TypeOK
  <2>2. Len(partitions') >= 1
    BY <1>1, <1>22
  <2> QED
    BY <2>1, <2>2, <1>1, <1>4, <1>11, <1>14, <1>22 DEF TypeOK
<1> HIDE DEF k, l
(* A place of the new sequence is an old one or the one after the last.    *)
<1>24. ASSUME NEW p \in 1 .. Len(partitions'), NEW j \in 1 .. Len(partitions'[p])
       PROVE  \/ /\ p \in 1 .. k /\ j \in 1 .. Len(partitions[p])
                 /\ partitions'[p][j] = partitions[p][j]
              \/ p = k /\ j = l + 1 /\ partitions'[p][j] = node
  <2>1. CASE p \in 1 .. (k - 1)
    <3>1. partitions'[p] = partitions[p]
      BY <2>1, <1>22, Zenon
    <3> QED
      BY <3>1, <2>1, <1>1
  <2>2. CASE p = k
    <3>1. j \in 1 .. l \/ j = l + 1
      BY <2>2, <1>1, <1>22
    <3>2. CASE j \in 1 .. l
      <4>1. partitions'[k][j] = partitions[k][j]
        BY <3>2, <1>22
      <4> QED
        BY <4>1, <3>2, <2>2, <1>1 DEF l
    <3>3. CASE j = l + 1
      BY <3>3, <2>2, <1>22
    <3> QED
      BY <3>1, <3>2, <3>3
  <2>3. CASE p = k + 1
    BY <2>3, <1>1, <1>22
  <2> QED
    BY <2>1, <2>2, <2>3, <1>1, <1>22
<1>25. ASSUME NEW p \in 1 .. k, NEW j \in 1 .. Len(partitions[p])
       PROVE  /\ p \in 1 .. Len(partitions') /\ j \in 1 .. Len(partitions'[p])
              /\ partitions'[p][j] = partitions[p][j]
  <2>1. CASE p \in 1 .. (k - 1)
    <3>1. partitions'[p] = partitions[p]
      BY <2>1, <1>22, Zenon
    <3> QED
      BY <3>1, <2>1, <1>1, <1>22
  <2>2. CASE p = k
    BY <2>2, <1>1, <1>22 DEF l
  <2> QED
    BY <2>1, <2>2, <1>1
<1>26. PlacesDistinct'
  <2> SUFFICES ASSUME NEW p \in 1 .. Len(partitions'), NEW q \in 1 .. Len(partitions'),
                      NEW i \in 1 .. Len(partitions'[p]), NEW j \in 1 .. Len(partitions'[q]),
                      partitions'[p][i] = partitions'[q][j]
               PROVE  p = q /\ i = j
    BY DEF PlacesDistinct
  <2>1. \A r \in 1 .. k : \A h \in 1 .. Len(partitions[r]) : partitions[r][h] # node
    BY <1>3 DEF Placed, k
  <2>2. \A a, b \in 1 .. k : \A g \in 1 .. Len(partitions[a]), h \in 1 .. Len(partitions[b]) :
           partitions[a][g] = partitions[b][h] => a = b /\ g = h
    BY DEF IndInv, PlacesDistinct, k
  <2> QED
    BY <2>1, <2>2, <1>24
<1>27. InputsComputedFirst'
  <2> SUFFICES ASSUME NEW p \in 1 .. Len(partitions'), NEW j \in 1 .. Len(partitions'[p]),
                      NEW m \in graph.inputs[partitions'[p][j]]
               PROVE  m \in unplaced \/ ComputedBefore(m, p, j)'
    BY <1>4 DEF InputsComputedFirst
  <2>1. CASE /\ p \in 1 .. k /\ j \in 1 .. Len(partitions[p])
             /\ partitions'[p][j] = partitions[p][j]
    <3>1. m \in unplaced \/ ComputedBefore(m, p, j)
      BY <2>1 DEF IndInv, InputsComputedFirst, k
    <3>2. ASSUME ComputedBefore(m, p, j) PROVE ComputedBefore(m, p, j)'
      <4>1. PICK q \in 1 .. p : \E i \in 1 .. Len(partitions[q]) :
                partitions[q][i] = m /\ (q < p \/ i < j)
        BY <3>2 DEF ComputedBefore
      <4>2. PICK i \in 1 .. Len(partitions[q]) : partitions[q][i] = m /\ (q < p \/ i < j)
        BY <4>1
      <4>3. q \in 1 .. k
        BY <2>1, <1>1
      <4>4. i \in 1 .. Len(partitions'[q]) /\ partitions'[q][i] = m
        BY <4>2, <4>3, <1>25
      <4> QED
        BY <4>2, <4>4 DEF ComputedBefore
    <3> QED
      BY <3>1, <3>2
  <2>2. CASE p = k /\ j = l + 1 /\ partitions'[p][j] = node
    <3>1. m \in Node /\ m \in graph.inputs[node]
      BY <2>2, <1>1, <1>2 DEF IsTraced, Graph
    <3>2. CASE IsGetAttr(m)
      BY <3>1, <3>2, <1>1 DEF IndInv, GetAttrsLast
    <3>3. CASE ~IsGetAttr(m)
      <4>1. Placed(m)
        BY <3>1, <3>3, <1>3 DEF Pending, CountedInputs
      <4>2. PICK q \in 1 .. k : \E i \in 1 .. Len(partitions[q]) : partitions[q][i] = m
        BY <4>1 DEF Placed, k
      <4>3. PICK i \in 1 .. Len(partitions[q]) : partitions[q][i] = m
        BY <4>2
      <4>4. i \in 1 .. Len(partitions'[q]) /\ partitions'[q][i] = m
        BY <4>3, <1>25
      <4>5. q < k \/ i < l + 1
        BY <1>1 DEF l
      <4> QED
        BY <4>4, <4>5, <2>2 DEF ComputedBefore
    <3> QED
      BY <3>2, <3>3
  <2> QED
    BY <2>1, <2>2, <1>24
<1>28. TargetClosesPartition'
  <2> SUFFICES ASSUME NEW p \in 1 .. Len(partitions'), NEW j \in 1 .. Len(partitions'[p])
               PROVE  partitions'[p][j] \in TargetNodes
                        <=> p < Len(partitions') /\ j = Len(partitions'[p])
    BY <1>4 DEF TargetClosesPartition, TargetNodes
  <2>1. CASE /\ p \in 1 .. k /\ j \in 1 .. Len(partitions[p])
             /\ partitions'[p][j] = partitions[p][j]
    <3>1. partitions[p][j] \in TargetNodes <=> p < k /\ j = Len(partitions[p])
      BY <2>1 DEF IndInv, TargetClosesPartition, k
    <3>2. CASE p = k
      BY <3>1, <3>2, <2>1, <1>1, <1>22 DEF l
    <3>3. CASE p < k
      <4>1. p \in 1 .. (k - 1)
        BY <3>3, <2>1, <1>1
      <4>2. partitions'[p] = partitions[p]
        BY <4>1, <1>22, Zenon
      <4>3. p < Len(partitions')
        BY <3>3, <2>1, <1>1, <1>22
      <4> QED
        BY <4>2, <4>3, <3>1, <3>3
    <3> QED
      BY <3>2, <3>3, <2>1, <1>1
  <2>2. CASE p = k /\ j = l + 1 /\ partitions'[p][j] = node
    BY <2>2, <1>1, <1>22
  <2> QED
    BY <2>1, <2>2, <1>24
<1> QED
  BY <1>11, <1>18, <1>19, <1>20, <1>21, <1>23, <1>26, <1>27, <1>28 DEF IndInv

-----------------------------------------------------------------------------
(* When the queue is empty the walk has reached every node: the first node *)
(* in graph order that is missing would have no missing input, so it would *)
(* be in the queue.                                                        *)
LEMMA WalkIsComplete ==
  ASSUME IsTraced(graph), QueueIsReady, queue = <<>>,
         NEW n \in Node, ~IsGetAttr(n)
  PROVE  Placed(n)
<1> DEFINE Missing == {m \in Node : ~IsGetAttr(m) /\ ~Placed(m)}
           R == {ss \in Nat \X Nat : ss[1] < ss[2]}
<1> SUFFICES ASSUME Missing # {} PROVE FALSE
  OBVIOUS
<1>1. Missing \subseteq Nat
  BY DEF Node
<1>2. IsWellFoundedOn(R, Nat)
  BY NatLessThanWellFounded, Zenon DEF OpToRel
<1>3. \E first \in Missing : \A m \in Missing : <<m, first>> \notin R
  <2> HIDE DEF Missing, R
  <2> QED
    BY <1>1, <1>2, WFMin, Zenon
<1>4. PICK first \in Missing : \A m \in Missing : ~(m < first)
  <2>1. PICK first \in Missing : \A m \in Missing : <<m, first>> \notin R
    BY <1>3
  <2>2. ASSUME NEW m \in Missing, m < first PROVE FALSE
    <3>1. <<m, first>> \in R
      BY <1>1, <2>2
    <3> QED
      BY <3>1, <2>1
  <2> QED
    BY <2>2
<1>5. Pending(first) = {}
  <2>1. ASSUME NEW m \in Pending(first) PROVE FALSE
    <3>1. m \in Node /\ m < first /\ m \in Missing
      BY NAssumption DEF Pending, CountedInputs, IsTraced, Graph, Node
    <3> QED
      BY <3>1, <1>4
  <2> QED
    BY <2>1
<1> QED
  BY <1>5 DEF QueueIsReady

(* One iteration of the second loop, by what it does with the get_attr it  *)
(* visits.                                                                 *)
LEMMA PlaceStep == IndInv /\ PlaceGetAttr => IndInv'
<1> SUFFICES ASSUME IndInv, PlaceGetAttr PROVE IndInv'
  OBVIOUS
<1>1. /\ IsTraced(graph) /\ queue = <<>>
      /\ graph' = graph /\ remaining' = remaining /\ queue' = queue
      /\ partitions \in Seq(Seq(Node)) /\ Len(partitions) \in Nat
  BY DEF IndInv, TypeOK, PlaceGetAttr
<1>2. PICK n \in unplaced :
        /\ unplaced' = unplaced \ {n}
        /\ \/ UserPartitions(n) = {} /\ partitions' = partitions
           \/ \E p \in UserPartitions(n) :
                /\ \A q \in UserPartitions(n) : p <= q
                /\ partitions' = [partitions EXCEPT ![p] = <<n>> \o @]
  BY DEF PlaceGetAttr
<1>3. n \in Node /\ IsGetAttr(n) /\ ~Placed(n)
  BY DEF IndInv, TypeOK, GetAttrsLast
<1>4. graph.inputs[n] = {}
  BY <1>1, <1>3 DEF IsTraced, IsGetAttr
<1>5. \A m : /\ CountedInputs(m)' = CountedInputs(m)
             /\ IsGetAttr(m)' <=> IsGetAttr(m)
             /\ Users(m)' = Users(m)
  BY <1>1 DEF CountedInputs, IsGetAttr, Users
<1>6. \A u \in Users(n) : u \in Node /\ ~IsGetAttr(u) /\ Placed(u) /\ u # n
  BY <1>1, <1>3, UsersAreLater, WalkIsComplete DEF IndInv
<1>7. CASE UserPartitions(n) = {} /\ partitions' = partitions
  <2>1. \A m : Placed(m)' <=> Placed(m)
    BY <1>7 DEF Placed
  <2>2. Users(n) = {}
    BY <1>6, <1>7 DEF UserPartitions, NodesOf, Placed
  <2>3. \A m : Pending(m)' = Pending(m)
    BY <2>1, <1>5 DEF Pending
  <2>4. TypeOK'
    BY <1>1, <1>2, <1>5, <1>7 DEF IndInv, TypeOK
  <2>5. Indegrees' /\ PlacedWasReady' /\ QueueDistinct'
    BY <2>1, <2>3, <1>1 DEF IndInv, Indegrees, PlacedWasReady, QueueDistinct
  <2>6. QueueIsReady'
    BY <2>1, <2>3, <1>1, <1>5 DEF IndInv, QueueIsReady
  <2>7. GetAttrsLast'
    BY <2>1, <2>2, <1>1, <1>2, <1>5 DEF IndInv, GetAttrsLast
  <2>8. PlacesDistinct'
    BY <1>7 DEF IndInv, PlacesDistinct
  <2>9. TargetClosesPartition'
    BY <1>1, <1>7 DEF IndInv, TargetClosesPartition, TargetNodes
  <2>10. InputsComputedFirst'
    <3> SUFFICES ASSUME NEW p \in 1 .. Len(partitions), NEW j \in 1 .. Len(partitions[p]),
                        NEW m \in graph.inputs[partitions[p][j]]
                 PROVE  m \in unplaced' \/ ComputedBefore(m, p, j)'
      BY <1>1, <1>7 DEF InputsComputedFirst
    <3>1. m \in unplaced \/ ComputedBefore(m, p, j)
      BY DEF IndInv, InputsComputedFirst
    <3>2. m # n
      <4>1. partitions[p] \in Seq(Node) /\ partitions[p][j] \in Node
        BY <1>1
      <4> QED
        BY <4>1, <2>2 DEF Users
    <3>3. ComputedBefore(m, p, j) => ComputedBefore(m, p, j)'
      BY <1>7 DEF ComputedBefore
    <3> QED
      BY <3>1, <3>2, <3>3, <1>2
  <2> QED
    BY <2>4, <2>5, <2>6, <2>7, <2>8, <2>9, <2>10 DEF IndInv
<1>8. ASSUME NEW p \in UserPartitions(n),
             \A q \in UserPartitions(n) : p <= q,
             partitions' = [partitions EXCEPT ![p] = <<n>> \o @]
      PROVE  IndInv'
  <2> DEFINE l == Len(partitions[p])
  <2>1. p \in 1 .. Len(partitions) /\ partitions[p] \in Seq(Node) /\ l \in Nat
    BY <1>1 DEF UserPartitions
  <2>2. /\ partitions' \in Seq(Seq(Node))
        /\ Len(partitions') = Len(partitions)
        /\ \A q \in 1 .. Len(partitions) : q # p => partitions'[q] = partitions[q]
        /\ Len(partitions'[p]) = l + 1
        /\ partitions'[p][1] = n
        /\ \A i \in 1 .. l : partitions'[p][i + 1] = partitions[p][i]
    BY <1>1, <1>3, <1>8, <2>1, InsertEffect
  <2>3. \A m : Placed(m)' <=> Placed(m) \/ m = n
    BY <1>1, <1>3, <1>8, <2>1, InsertPlaces
  <2>4. \A m : Pending(m)' = Pending(m)
    BY <2>3, <1>3, <1>5 DEF Pending, CountedInputs
  <2> HIDE DEF l
  (* Where a place of the old sequence goes, and where a new one is from.  *)
  <2> DEFINE Shift(q, i) == IF q = p THEN i + 1 ELSE i
  <2>5. ASSUME NEW q \in 1 .. Len(partitions), NEW i \in 1 .. Len(partitions[q])
        PROVE  /\ Shift(q, i) \in 1 .. Len(partitions'[q])
               /\ partitions'[q][Shift(q, i)] = partitions[q][i]
    <3>1. CASE q = p
      BY <3>1, <2>1, <2>2 DEF l
    <3>2. CASE q # p
      BY <3>2, <2>2
    <3> QED
      BY <3>1, <3>2
  <2>6. ASSUME NEW q \in 1 .. Len(partitions'), NEW j \in 1 .. Len(partitions'[q])
        PROVE  \/ q = p /\ j = 1 /\ partitions'[q][j] = n
               \/ \E i \in 1 .. Len(partitions[q]) :
                     j = Shift(q, i) /\ partitions'[q][j] = partitions[q][i]
    <3>1. CASE q = p /\ j = 1
      BY <3>1, <2>2
    <3>2. CASE q = p /\ j # 1
      <4> DEFINE i == j - 1
      <4>1. i \in 1 .. Len(partitions[q]) /\ j = i + 1
        BY <3>2, <2>1, <2>2 DEF l
      <4>2. partitions'[q][i + 1] = partitions[q][i]
        BY <4>1, <3>2, <2>2 DEF l
      <4>3. j = Shift(q, i) /\ partitions'[q][j] = partitions[q][i]
        BY <4>1, <4>2, <3>2
      <4> HIDE DEF i, Shift
      <4> QED
        BY <4>1, <4>3
    <3>3. CASE q # p
      BY <3>3, <2>2
    <3> QED
      BY <3>1, <3>2, <3>3
  <2>7. TypeOK'
    BY <2>2, <1>1, <1>2, <1>5 DEF IndInv, TypeOK
  <2>8. Indegrees' /\ QueueDistinct'
    BY <2>4, <1>1 DEF IndInv, Indegrees, QueueDistinct
  <2>9. PlacedWasReady'
    <3>1. Pending(n) = {}
      BY <1>4 DEF Pending, CountedInputs
    <3> QED
      BY <3>1, <2>3, <2>4 DEF IndInv, PlacedWasReady
  <2>10. QueueIsReady'
    <3> SUFFICES ASSUME NEW m \in Node
                 PROVE  (\E i \in 1 .. Len(queue) : queue[i] = m)
                          <=> ~IsGetAttr(m) /\ ~Placed(m)' /\ Pending(m) = {}
      BY <2>4, <1>1, <1>5 DEF QueueIsReady
    <3> QED
      BY <2>3, <1>3 DEF IndInv, QueueIsReady
  <2>11. GetAttrsLast'
    BY <2>3, <1>1, <1>2, <1>5 DEF IndInv, GetAttrsLast
  <2>12. PlacesDistinct'
    <3> SUFFICES ASSUME NEW q \in 1 .. Len(partitions'), NEW r \in 1 .. Len(partitions'),
                        NEW i \in 1 .. Len(partitions'[q]), NEW j \in 1 .. Len(partitions'[r]),
                        partitions'[q][i] = partitions'[r][j]
                 PROVE  q = r /\ i = j
      BY DEF PlacesDistinct
    <3>1. \A a \in 1 .. Len(partitions) : \A h \in 1 .. Len(partitions[a]) : partitions[a][h] # n
      BY <1>3 DEF Placed
    <3>2. \A a, b \in 1 .. Len(partitions) :
             \A g \in 1 .. Len(partitions[a]), h \in 1 .. Len(partitions[b]) :
               partitions[a][g] = partitions[b][h] => a = b /\ g = h
      BY DEF IndInv, PlacesDistinct
    <3>3. CASE /\ q = p /\ i = 1 /\ partitions'[q][i] = n
               /\ r = p /\ j = 1 /\ partitions'[r][j] = n
      BY <3>3
    <3>4. ASSUME q = p, i = 1, partitions'[q][i] = n,
                 NEW h \in 1 .. Len(partitions[r]), partitions'[r][j] = partitions[r][h]
          PROVE  FALSE
      BY <3>1, <3>4, <2>2
    <3>5. ASSUME r = p, j = 1, partitions'[r][j] = n,
                 NEW g \in 1 .. Len(partitions[q]), partitions'[q][i] = partitions[q][g]
          PROVE  FALSE
      BY <3>1, <3>5, <2>2
    <3>6. ASSUME NEW g \in 1 .. Len(partitions[q]), NEW h \in 1 .. Len(partitions[r]),
                 i = Shift(q, g), partitions'[q][i] = partitions[q][g],
                 j = Shift(r, h), partitions'[r][j] = partitions[r][h]
          PROVE  q = r /\ i = j
      <4>1. q \in 1 .. Len(partitions) /\ r \in 1 .. Len(partitions)
        BY <2>2
      <4>2. partitions[q][g] = partitions[r][h]
        BY <3>6
      <4>3. q = r /\ g = h
        <5> HIDE DEF Shift
        <5> QED
          BY <4>1, <4>2, <3>2
      <4> QED
        BY <4>3, <3>6
    <3> HIDE DEF Shift
    <3>7. \/ q = p /\ i = 1 /\ partitions'[q][i] = n
          \/ \E g \in 1 .. Len(partitions[q]) :
               i = Shift(q, g) /\ partitions'[q][i] = partitions[q][g]
      BY <2>6
    <3>8. \/ r = p /\ j = 1 /\ partitions'[r][j] = n
          \/ \E h \in 1 .. Len(partitions[r]) :
               j = Shift(r, h) /\ partitions'[r][j] = partitions[r][h]
      BY <2>6
    <3> QED
      BY <3>3, <3>4, <3>5, <3>6, <3>7, <3>8
  <2>13. TargetClosesPartition'
    <3> SUFFICES ASSUME NEW q \in 1 .. Len(partitions'), NEW j \in 1 .. Len(partitions'[q])
                 PROVE  partitions'[q][j] \in TargetNodes
                          <=> q < Len(partitions') /\ j = Len(partitions'[q])
      BY <1>1 DEF TargetClosesPartition, TargetNodes
    <3>1. CASE q = p /\ j = 1 /\ partitions'[q][j] = n
      <4>1. n \notin TargetNodes
        BY <1>1, <1>3, TargetsAssumption DEF IsTraced, IsGetAttr, TargetNodes
      <4>2. l >= 1
        <5>1. PICK u \in Users(n) : u \in NodesOf(p)
          BY DEF UserPartitions
        <5> QED
          BY <5>1, <2>1 DEF NodesOf, l
      <4> QED
        BY <4>1, <4>2, <3>1, <2>1, <2>2
    <3>2. ASSUME NEW i \in 1 .. Len(partitions[q]),
                 j = Shift(q, i), partitions'[q][j] = partitions[q][i]
          PROVE  partitions'[q][j] \in TargetNodes
                          <=> q < Len(partitions') /\ j = Len(partitions'[q])
      <4>1. partitions[q][i] \in TargetNodes <=> q < Len(partitions) /\ i = Len(partitions[q])
        BY <2>2 DEF IndInv, TargetClosesPartition
      <4>2. i = Len(partitions[q]) <=> j = Len(partitions'[q])
        BY <3>2, <2>1, <2>2 DEF l
      <4> QED
        BY <4>1, <4>2, <3>2, <2>2
    <3> QED
      BY <3>1, <3>2, <2>6
  <2>14. InputsComputedFirst'
    <3> SUFFICES ASSUME NEW q \in 1 .. Len(partitions'), NEW j \in 1 .. Len(partitions'[q]),
                        NEW m \in graph.inputs[partitions'[q][j]]
                 PROVE  m \in unplaced' \/ ComputedBefore(m, q, j)'
      BY <1>1 DEF InputsComputedFirst
    <3>1. CASE q = p /\ j = 1 /\ partitions'[q][j] = n
      BY <3>1, <1>4
    <3>2. ASSUME NEW i \in 1 .. Len(partitions[q]),
                 j = Shift(q, i), partitions'[q][j] = partitions[q][i]
          PROVE  m \in unplaced' \/ ComputedBefore(m, q, j)'
      <4>0. q \in 1 .. Len(partitions) /\ m \in graph.inputs[partitions[q][i]]
        BY <3>2, <2>2
      <4>1. m \in unplaced \/ ComputedBefore(m, q, i)
        BY <4>0 DEF IndInv, InputsComputedFirst
      <4>2. ASSUME m = n PROVE ComputedBefore(m, q, j)'
        <5>1. partitions[q] \in Seq(Node) /\ partitions[q][i] \in Node
          BY <4>0, <1>1
        <5>2. q \in UserPartitions(n)
          BY <5>1, <4>0, <4>2 DEF UserPartitions, NodesOf, Users
        <5>3. p <= q
          BY <5>2, <1>8
        <5>4. p \in 1 .. q /\ 1 \in 1 .. Len(partitions'[p]) /\ partitions'[p][1] = m
          BY <5>3, <4>0, <4>2, <2>1, <2>2
        <5>5. p < q \/ 1 < j
          BY <5>3, <4>0, <3>2, <2>1
        <5> QED
          BY <5>4, <5>5 DEF ComputedBefore
      <4>3. ASSUME ComputedBefore(m, q, i) PROVE ComputedBefore(m, q, j)'
        <5>1. PICK r \in 1 .. q : \E h \in 1 .. Len(partitions[r]) :
                 partitions[r][h] = m /\ (r < q \/ h < i)
          BY <4>3 DEF ComputedBefore
        <5>2. PICK h \in 1 .. Len(partitions[r]) : partitions[r][h] = m /\ (r < q \/ h < i)
          BY <5>1
        <5>3. r \in 1 .. Len(partitions)
          BY <4>0, <1>1
        <5>4. Shift(r, h) \in 1 .. Len(partitions'[r]) /\ partitions'[r][Shift(r, h)] = m
          BY <5>2, <5>3, <2>5
        <5>5. r < q \/ Shift(r, h) < j
          BY <5>2, <4>0, <3>2
        <5> QED
          BY <5>4, <5>5 DEF ComputedBefore
      <4> QED
        BY <4>1, <4>2, <4>3, <1>2
    <3> QED
      BY <3>1, <3>2, <2>6
  <2> QED
    BY <2>7, <2>8, <2>9, <2>10, <2>11, <2>12, <2>13, <2>14 DEF IndInv
<1> QED
  BY <1>2, <1>7, <1>8

-----------------------------------------------------------------------------
(* The theorems.                                                           *)

LEMMA IndInvStep == IndInv /\ [Next]_vars => IndInv'
<1>1. IndInv /\ UNCHANGED vars => IndInv'
  <2> SUFFICES ASSUME IndInv, UNCHANGED vars PROVE IndInv'
    OBVIOUS
  <2>1. /\ graph' = graph /\ remaining' = remaining /\ queue' = queue
        /\ partitions' = partitions /\ unplaced' = unplaced
    BY DEF vars
  <2>2. \A n : /\ Placed(n)' <=> Placed(n)
               /\ Pending(n)' = Pending(n)
               /\ IsGetAttr(n)' <=> IsGetAttr(n)
               /\ Users(n)' = Users(n)
    BY <2>1 DEF Placed, Pending, CountedInputs, IsGetAttr, Users
  <2>3. TypeOK'
    BY <2>1, <2>2 DEF IndInv, TypeOK
  <2>4. Indegrees' /\ QueueDistinct' /\ PlacedWasReady'
    BY <2>1, <2>2 DEF IndInv, Indegrees, QueueDistinct, PlacedWasReady
  <2>5. QueueIsReady'
    BY <2>1, <2>2 DEF IndInv, QueueIsReady
  <2>6. GetAttrsLast'
    BY <2>1, <2>2 DEF IndInv, GetAttrsLast
  <2>7. PlacesDistinct'
    BY <2>1 DEF IndInv, PlacesDistinct
  <2>8. InputsComputedFirst'
    BY <2>1 DEF IndInv, InputsComputedFirst, ComputedBefore
  <2>9. TargetClosesPartition'
    BY <2>1 DEF IndInv, TargetClosesPartition, TargetNodes
  <2> QED
    BY <2>3, <2>4, <2>5, <2>6, <2>7, <2>8, <2>9 DEF IndInv
<1> QED
  BY <1>1, PopStep, PlaceStep DEF Next

LEMMA IndInvHolds == Spec => []IndInv
BY InitIndInv, IndInvStep, PTL DEF Spec

(* The walk keeps its data well formed; no indegree counter goes below 0.  *)
THEOREM TypeCorrect == Spec => []TypeOK
<1>1. IndInv => TypeOK
  BY DEF IndInv
<1> QED
  BY <1>1, IndInvHolds, PTL

(* Whatever the graph, each node is placed after everything it reads.      *)
THEOREM PartitionsExecuteInOrder == Spec => []InputsComputedFirst
<1>1. IndInv => InputsComputedFirst
  BY DEF IndInv
<1> QED
  BY <1>1, IndInvHolds, PTL

(* Whatever the graph, each partition but the last ends with the one call  *)
(* of a target it holds: calls of targets are in disjoint partitions.      *)
THEOREM TargetsAreDisjoint == Spec => []TargetClosesPartition
<1>1. IndInv => TargetClosesPartition
  BY DEF IndInv
<1> QED
  BY <1>1, IndInvHolds, PTL

(* Whatever the graph, no node is in two places, and the walk ends with    *)
(* every node placed but get_attr nodes nobody reads.                      *)
THEOREM WalkAssignsOnce == Spec => []AssignedOnce
<1>1. IndInv => AssignedOnce
  <2> SUFFICES ASSUME IndInv PROVE AssignedOnce
    OBVIOUS
  <2>1. ASSUME Done, NEW n \in Node
        PROVE  Assigned(n) \/ (IsGetAttr(n) /\ Users(n) = {})
    <3>1. CASE IsGetAttr(n)
      BY <2>1, <3>1, AssignedIsPlaced DEF IndInv, GetAttrsLast, Done
    <3>2. CASE ~IsGetAttr(n)
      BY <2>1, <3>2, WalkIsComplete, AssignedIsPlaced DEF IndInv, TypeOK, Done
    <3> QED
      BY <3>1, <3>2
  <2> QED
    BY <2>1 DEF IndInv, PlacesDistinct, AssignedOnce
<1> QED
  BY <1>1, IndInvHolds, PTL

-----------------------------------------------------------------------------
(* A value that several partitions could want.                             *)

LEMMA OnePlace ==
  ASSUME PlacesDistinct,
         NEW p \in 1 .. Len(partitions), NEW q \in 1 .. Len(partitions),
         NEW m, m \in NodesOf(p), m \in NodesOf(q)
  PROVE  p = q
BY DEF PlacesDistinct, NodesOf

(* When the walk has ended a partition reads what an earlier one, or itself*)
(* further up, computes.                                                   *)
LEMMA ReadFromEarlier ==
  ASSUME InputsComputedFirst, unplaced = {}, Len(partitions) \in Nat,
         NEW p \in 1 .. Len(partitions), NEW n \in NodesOf(p), NEW m \in graph.inputs[n]
  PROVE  \E q \in 1 .. p : m \in NodesOf(q)
<1>1. PICK j \in 1 .. Len(partitions[p]) : partitions[p][j] = n
  BY DEF NodesOf
<1>2. ComputedBefore(m, p, j)
  BY <1>1 DEF InputsComputedFirst
<1> QED
  BY <1>2 DEF ComputedBefore, NodesOf

LEMMA ReadIsInput ==
  ASSUME NEW p, NEW n \in NodesOf(p), NEW m \in graph.inputs[n], m \notin NodesOf(p)
  PROVE  m \in InputNames(p)
<1>1. graph.inputs[n] \in {graph.inputs[i] : i \in NodesOf(p)}
  OBVIOUS
<1>2. m \in UNION {graph.inputs[i] : i \in NodesOf(p)}
  BY <1>1
<1> QED
  BY <1>2, Zenon DEF InputNames

LEMMA InputsAreNodes ==
  ASSUME IsTraced(graph), partitions \in Seq(Seq(Node)), NEW p \in Subgraphs
  PROVE  NodesOf(p) \subseteq Node /\ InputNames(p) \subseteq Node
<1>1. NodesOf(p) \subseteq Node
  <2>1. partitions[p] \in Seq(Node)
    BY DEF Subgraphs
  <2> QED
    BY <2>1 DEF NodesOf
<1>2. \A n \in NodesOf(p) : graph.inputs[n] \subseteq Node
  BY <1>1 DEF IsTraced, Graph
<1>3. UNION {graph.inputs[n] : n \in NodesOf(p)} \subseteq Node
  BY <1>2
<1> QED
  BY <1>1, <1>3 DEF InputNames

(* Only calls and the output read, and they read earlier nodes.            *)
LEMMA ReaderComputes ==
  ASSUME IsTraced(graph), NEW u \in Node, NEW c \in graph.inputs[u]
  PROVE  c < u /\ graph.op[u] \in {"call", "output"}
<1>1. /\ graph.op \in [Node -> Op]
      /\ graph.inputs[u] \subseteq 1 .. (u - 1)
      /\ graph.op[u] \in {"placeholder", "get_attr"} => graph.inputs[u] = {}
  BY DEF IsTraced, Graph
<1>2. c < u
  BY <1>1 DEF Node
<1>3. graph.op[u] \in Op
  BY <1>1
<1> QED
  BY <1>1, <1>2, <1>3 DEF Op

(* A get_attr is placed by the second loop only, beside a user of it, and  *)
(* no node leaves its partition afterwards.                                *)
LEMMA GetAttrStep == IndInv /\ GetAttrDelayed /\ [Next]_vars => GetAttrDelayed'
<1> SUFFICES ASSUME IndInv, GetAttrDelayed, [Next]_vars PROVE GetAttrDelayed'
  OBVIOUS
<1>1. partitions \in Seq(Seq(Node)) /\ Len(partitions) \in Nat /\ Len(partitions) >= 1
  BY DEF IndInv, TypeOK
<1>2. graph' = graph
  BY DEF Next, Pop, PlaceGetAttr, vars
<1>3. \A m : (IsGetAttr(m)' <=> IsGetAttr(m)) /\ Users(m)' = Users(m)
  BY <1>2 DEF IsGetAttr, Users
<1>4. CASE Pop
  <2> DEFINE node == Head(queue)
  <2>1. node \in Node /\ queue # <<>> /\ partitions' = Assign(node)
    BY <1>4 DEF IndInv, TypeOK, Pop
  <2>2. ~IsGetAttr(node)
    <3>1. 1 \in 1 .. Len(queue) /\ queue[1] = node
      BY <2>1 DEF IndInv, TypeOK
    <3> QED
      BY <3>1, <2>1 DEF IndInv, QueueIsReady
  <2> HIDE DEF node
  <2>3. \A m : Placed(m)' <=> Placed(m) \/ m = node
    BY <1>1, <2>1, AssignPlaces
  <2>4. ASSUME NEW n \in Node, IsGetAttr(n) PROVE PartitionsOf(n)' = {}
    <3>1. ~Placed(n)'
      BY <2>1, <2>2, <2>3, <2>4 DEF IndInv, GetAttrsLast
    <3> QED
      BY <3>1 DEF Placed, PartitionsOf, NodesOf
  <2> QED
    BY <2>4, <1>3 DEF GetAttrDelayed
<1>5. CASE PlaceGetAttr
  <2>1. PICK g \in unplaced :
          \/ UserPartitions(g) = {} /\ partitions' = partitions
          \/ \E p \in UserPartitions(g) :
               partitions' = [partitions EXCEPT ![p] = <<g>> \o @]
    BY <1>5 DEF PlaceGetAttr
  <2>2. CASE partitions' = partitions
    BY <2>2, <1>3 DEF GetAttrDelayed, PartitionsOf, NodesOf
  <2>3. ASSUME NEW p \in UserPartitions(g),
               partitions' = [partitions EXCEPT ![p] = <<g>> \o @]
        PROVE  GetAttrDelayed'
    <3> DEFINE l == Len(partitions[p])
    <3>1. /\ g \in Node /\ p \in 1 .. Len(partitions)
          /\ partitions[p] \in Seq(Node) /\ l \in Nat
      BY <1>1 DEF IndInv, TypeOK, UserPartitions
    <3>2. /\ Len(partitions') = Len(partitions)
          /\ \A q \in 1 .. Len(partitions) : q # p => partitions'[q] = partitions[q]
          /\ Len(partitions'[p]) = l + 1
          /\ partitions'[p][1] = g
          /\ \A i \in 1 .. l : partitions'[p][i + 1] = partitions[p][i]
      BY <1>1, <2>3, <3>1, InsertEffect
    <3>3. NodesOf(p)' = NodesOf(p) \cup {g}
      <4>1. ASSUME NEW i \in 1 .. l PROVE partitions[p][i] \in NodesOf(p)'
        <5>1. i + 1 \in 1 .. Len(partitions'[p]) /\ partitions'[p][i + 1] = partitions[p][i]
          BY <3>1, <3>2
        <5> QED
          BY <5>1 DEF NodesOf
      <4>2. g \in NodesOf(p)'
        <5>1. 1 \in 1 .. Len(partitions'[p])
          BY <3>1, <3>2
        <5> QED
          BY <5>1, <3>2 DEF NodesOf
      <4>3. ASSUME NEW j \in 1 .. Len(partitions'[p])
            PROVE  partitions'[p][j] = g \/ partitions'[p][j] \in NodesOf(p)
        <5>1. CASE j = 1
          BY <5>1, <3>2
        <5>2. CASE j # 1
          <6>1. j - 1 \in 1 .. l /\ j = (j - 1) + 1
            BY <5>2, <3>1, <3>2
          <6>2. partitions'[p][(j - 1) + 1] = partitions[p][j - 1]
            BY <6>1, <3>2
          <6> QED
            BY <6>1, <6>2 DEF NodesOf
        <5> QED
          BY <5>1, <5>2
      <4> QED
        BY <4>1, <4>2, <4>3 DEF NodesOf
    <3>4. \A q \in 1 .. Len(partitions) : q # p => NodesOf(q)' = NodesOf(q)
      BY <3>2 DEF NodesOf
    <3> SUFFICES ASSUME NEW n \in Node, IsGetAttr(n), NEW q \in PartitionsOf(n)'
                 PROVE  Users(n) \cap NodesOf(q)' # {}
      BY <1>3 DEF GetAttrDelayed
    <3>5. q \in 1 .. Len(partitions) /\ n \in NodesOf(q)'
      BY <3>2 DEF PartitionsOf
    <3>6. CASE n \in NodesOf(q)
      BY <3>3, <3>4, <3>5, <3>6 DEF GetAttrDelayed, PartitionsOf
    <3>7. CASE n \notin NodesOf(q)
      <4>1. q = p /\ n = g
        BY <3>3, <3>4, <3>5, <3>7
      <4> QED
        BY <4>1, <3>3, <2>3 DEF UserPartitions
    <3> QED
      BY <3>6, <3>7
  <2> QED
    BY <2>1, <2>2, <2>3
<1>6. CASE UNCHANGED vars
  BY <1>6, <1>3 DEF GetAttrDelayed, PartitionsOf, NodesOf, vars
<1> QED
  BY <1>4, <1>5, <1>6 DEF Next

(* Whatever the graph, a get_attr value is onloaded by a partition that    *)
(* reads it.                                                               *)
THEOREM GetAttrsWaitForTheirUsers == Spec => []GetAttrDelayed
<1>1. Init => GetAttrDelayed
  <2> SUFFICES ASSUME Init PROVE \A n : PartitionsOf(n) = {}
    BY DEF GetAttrDelayed
  <2>1. partitions = << <<>> >> /\ Len(partitions) = 1 /\ partitions[1] = <<>>
    BY DEF Init
  <2> QED
    BY <2>1 DEF PartitionsOf, NodesOf
<1> QED
  BY <1>1, GetAttrStep, IndInvHolds, PTL DEF Spec

-----------------------------------------------------------------------------
(* The names subgraphs exchange.                                           *)

LEMMA NothingIsLeaked == IndInv => NothingLeaks
<1> SUFFICES ASSUME IndInv, Done,
                    NEW p \in Subgraphs, NEW m \in OutputNames(p)
             PROVE  \E q \in Subgraphs : q >= p /\ m \in ConsumedNames(q)
  BY DEF NothingLeaks
<1>1. /\ IsTraced(graph) /\ Len(partitions) \in Nat
      /\ queue = <<>> /\ unplaced = {}
      /\ partitions \in Seq(Seq(Node))
  BY DEF IndInv, TypeOK, Done
<1>2. m \in NodesOf(p) /\ ~(Users(m) \subseteq NodesOf(p))
  BY DEF OutputNames
<1>3. m \in Node
  BY <1>1, <1>2 DEF NodesOf, Subgraphs
<1>4. PICK u \in Users(m) : u \notin NodesOf(p)
  BY <1>2
<1>5. u \in Node /\ ~IsGetAttr(u) /\ m \in graph.inputs[u]
  BY <1>1, <1>3, <1>4, UsersAreLater DEF Users
<1>6. Placed(u)
  BY <1>1, <1>5, WalkIsComplete DEF IndInv
<1>7. PICK q \in Subgraphs : u \in NodesOf(q)
  BY <1>6 DEF Placed, NodesOf, Subgraphs
<1>8. p <= q /\ m \notin NodesOf(q)
  <2>1. PICK r \in 1 .. q : m \in NodesOf(r)
    BY <1>1, <1>5, <1>7, ReadFromEarlier DEF IndInv, Subgraphs
  <2>2. /\ PlacesDistinct
        /\ r \in 1 .. Len(partitions) /\ p \in 1 .. Len(partitions) /\ q \in 1 .. Len(partitions)
    BY <2>1, <1>1 DEF IndInv, Subgraphs
  <2>3. r = p
    BY <2>1, <2>2, <1>2, OnePlace, Zenon
  <2>4. p # q
    BY <1>4, <1>7
  <2>5. m \notin NodesOf(q)
    BY <2>2, <2>4, <1>2, OnePlace, Zenon
  <2> QED
    BY <2>1, <2>2, <2>3, <2>5
<1>9. m \in InputNames(q)
  BY <1>5, <1>7, <1>8, ReadIsInput
<1> DEFINE Readers == {r \in Subgraphs : m \in InputNames(r)}
<1>10. PICK last \in Readers : \A r \in Readers : r <= last
  <2>1. Readers \subseteq 1 .. Len(partitions) /\ q \in Readers
    BY <1>7, <1>9 DEF Subgraphs
  <2> HIDE DEF Readers
  <2> QED
    BY <2>1, <1>1, LastOfSome
<1> QED
  BY <1>1, <1>7, <1>8, <1>9, <1>10 DEF ConsumedNames, Subgraphs

(* What a subgraph returns is read further on, and the last subgraph that  *)
(* reads it consumes it.                                                   *)
THEOREM ReturnedValuesAreConsumed == Spec => []NothingLeaks
BY NothingIsLeaked, IndInvHolds, PTL

(* What a graph without dead code is: it has one output node, and every    *)
(* call is read.  Tracing does not remove calls nobody reads, so this is a *)
(* hypothesis of the next theorem and of nothing else.                     *)
NoDeadCalls(g) ==
  /\ \A m, n \in Node : g.op[m] = "output" /\ g.op[n] = "output" => m = n
  /\ \A n \in Node : g.op[n] = "call" => \E u \in Node : n \in g.inputs[u]

(* Behind the partition of the output node nothing is computed: following  *)
(* its readers, every call leads to the output.                            *)
LEMMA OutputIsLast ==
  ASSUME IndInv, Done, NoDeadCalls(graph),
         NEW o \in Node, graph.op[o] = "output",
         NEW q \in Subgraphs, o \in NodesOf(q),
         NEW n \in Node, graph.op[n] = "call"
  PROVE  \E p \in 1 .. q : n \in NodesOf(p)
<1> DEFINE Behind == {c \in Node : graph.op[c] = "call" /\ \A p \in 1 .. q : c \notin NodesOf(p)}
<1> SUFFICES ASSUME Behind # {} PROVE FALSE
  OBVIOUS
<1>1. /\ IsTraced(graph) /\ Len(partitions) \in Nat
      /\ queue = <<>> /\ unplaced = {} /\ q \in 1 .. Len(partitions)
  BY DEF IndInv, TypeOK, Done, Subgraphs
<1>2. PICK c \in Behind : \A d \in Behind : d <= c
  <2>1. Behind \subseteq 1 .. N
    BY DEF Node
  <2> HIDE DEF Behind
  <2> QED
    BY <2>1, NAssumption, LastOfSome
<1>3. PICK u \in Node : c \in graph.inputs[u]
  BY DEF NoDeadCalls
<1>4. u > c /\ graph.op[u] \in {"call", "output"}
  BY <1>1, <1>3, ReaderComputes DEF Node
<1>5. PICK r \in 1 .. q : u \in NodesOf(r)
  <2>1. CASE graph.op[u] = "output"
    BY <2>1, <1>1 DEF NoDeadCalls
  <2>2. CASE graph.op[u] = "call"
    <3>1. u \notin Behind
      BY <1>2, <1>4 DEF Node
    <3> QED
      BY <3>1, <2>2
  <2> QED
    BY <2>1, <2>2, <1>4
<1>6. PICK s \in 1 .. r : c \in NodesOf(s)
  BY <1>1, <1>3, <1>5, ReadFromEarlier DEF IndInv
<1> QED
  BY <1>1, <1>5, <1>6

LEMMA NamesAreAvailable == IndInv /\ NoDeadCalls(graph) => NamesAvailable
<1> SUFFICES ASSUME IndInv, NoDeadCalls(graph), Done,
                    NEW p \in Subgraphs, NEW m \in InputNames(p)
             PROVE  /\ \/ graph.op[m] = "placeholder"
                       \/ \E q \in 1 .. (p - 1) : m \in OutputNames(q)
                    /\ \A q \in 1 .. (p - 1) : m \notin ConsumedNames(q)
  BY DEF NamesAvailable
<1>1. /\ IsTraced(graph) /\ Len(partitions) \in Nat
      /\ queue = <<>> /\ unplaced = {} /\ p \in 1 .. Len(partitions)
      /\ partitions \in Seq(Seq(Node))
  BY DEF IndInv, TypeOK, Done, Subgraphs
<1>2. \A q \in 1 .. (p - 1) : m \notin ConsumedNames(q)
  BY <1>1 DEF ConsumedNames, Subgraphs
<1>3. ASSUME graph.op[m] # "placeholder"
      PROVE  \E q \in 1 .. (p - 1) : m \in OutputNames(q)
  <2>1. PICK n \in NodesOf(p) : m \in graph.inputs[n] /\ m \notin NodesOf(p)
    <3>1. m \in UNION {graph.inputs[i] : i \in NodesOf(p)} /\ m \notin NodesOf(p)
      BY <1>3, Zenon DEF InputNames
    <3> QED
      BY <3>1, Zenon
  <2>2. n \in Node
    <3>1. partitions[p] \in Seq(Node)
      BY <1>1
    <3> QED
      BY <3>1 DEF NodesOf
  <2>3. PICK q \in 1 .. p : m \in NodesOf(q)
    BY <1>1, <2>1, ReadFromEarlier DEF IndInv
  <2>4. q \in 1 .. (p - 1) /\ q \in Subgraphs
    BY <2>1, <2>3, <1>1 DEF Subgraphs
  <2>5. n \in Users(m) /\ n \notin NodesOf(q)
    BY <2>1, <2>2, <2>4, <1>1, OnePlace DEF IndInv, Users, Subgraphs
  <2>6. ASSUME NEW o \in NodesOf(q), graph.op[o] = "output" PROVE FALSE
    <3>1. o \in Node
      <4>1. partitions[q] \in Seq(Node)
        BY <1>1, <2>4 DEF Subgraphs
      <4> QED
        BY <4>1 DEF NodesOf
    <3>2. graph.op[n] = "call"
      <4>1. graph.op[n] \in {"call", "output"}
        BY <2>1, <2>2, <1>1, ReaderComputes
      <4>2. graph.op[n] # "output"
        BY <2>2, <2>5, <2>6, <3>1 DEF NoDeadCalls
      <4> QED
        BY <4>1, <4>2
    <3>3. PICK r \in 1 .. q : n \in NodesOf(r)
      BY <2>2, <2>4, <2>6, <3>1, <3>2, OutputIsLast
    <3>4. /\ PlacesDistinct
          /\ r \in 1 .. Len(partitions) /\ p \in 1 .. Len(partitions) /\ r # p
      BY <3>3, <2>4, <1>1 DEF IndInv, Subgraphs
    <3> QED
      BY <3>3, <3>4, <2>1, OnePlace, Zenon
  <2> QED
    BY <2>3, <2>4, <2>5, <2>6 DEF OutputNames
<1> QED
  BY <1>2, <1>3

(* Whatever the graph without dead calls, every value a subgraph reads has *)
(* been returned by an earlier one, or is a model input, and no subgraph in*)
(* between has deleted it.                                                 *)
THEOREM ReadValuesAreAvailable ==
  ASSUME \A g \in Graphs : NoDeadCalls(g)
  PROVE  Spec => []NamesAvailable
<1>1. Init => NoDeadCalls(graph)
  BY DEF Init
<1>2. NoDeadCalls(graph) /\ [Next]_vars => NoDeadCalls(graph)'
  BY DEF Next, Pop, PlaceGetAttr, vars, NoDeadCalls
<1> QED
  BY <1>1, <1>2, NamesAreAvailable, IndInvHolds, PTL DEF Spec

=============================================================================
