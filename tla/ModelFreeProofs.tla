--------------------------- MODULE ModelFreeProofs ---------------------------
(* No file of a checkpoint is written unless all are valid, what is written  *)
(* is stored once, and the tensors fused at inference stay together and      *)
(* share a scale, for every checkpoint, any number of files and workers and  *)
(* any failing saves.  match_names_set_eager groups names by their order     *)
(* alone; what it finds in a list of names that is cut in one place is shown *)
(* first.                                                                    *)
EXTENDS ModelFree, FiniteSetTheorems, CountingInduction

-----------------------------------------------------------------------------
(* Names in natural order                                                    *)

LEMMA NamesAreRecords ==
  \A a, b \in Names : /\ a.layer \in Nat /\ a.role \in Range(RoleOrder)
                      /\ a = [layer |-> a.layer, role |-> a.role]
                      /\ a.layer = b.layer /\ a.role = b.role => a = b
BY NamesAssumption

LEMMA RolesAreRanked ==
  \A r, s \in Range(RoleOrder) : /\ RoleRank(r) \in Nat
                                 /\ RoleRank(r) = RoleRank(s) => r = s
<1>1. RoleOrder \in Seq(Range(RoleOrder))
  BY NamesAssumption
<1>2. DOMAIN RoleOrder \subseteq Nat
  BY <1>1
<1>3. ASSUME NEW r \in Range(RoleOrder)
      PROVE  RoleRank(r) \in DOMAIN RoleOrder /\ RoleOrder[RoleRank(r)] = r
  <2>1. \E i \in DOMAIN RoleOrder : RoleOrder[i] = r
    BY <1>3 DEF Range
  <2> QED
    BY <2>1 DEF RoleRank
<1> QED
  BY <1>2, <1>3

LEMMA NaturalOrderIsTotal ==
  ASSUME NEW a \in Names, NEW b \in Names
  PROVE  /\ ~NaturallyBefore(a, a)
         /\ NaturallyBefore(a, b) => ~NaturallyBefore(b, a) /\ a.layer <= b.layer
         /\ a # b => NaturallyBefore(a, b) \/ NaturallyBefore(b, a)
         /\ \A c \in Names : NaturallyBefore(a, b) /\ NaturallyBefore(b, c) => NaturallyBefore(a, c)
         /\ a.layer = b.layer => (NaturallyBefore(a, b) <=> RoleRank(a.role) < RoleRank(b.role))
<1>1. \A c \in Names : c.layer \in Nat /\ RoleRank(c.role) \in Nat
  BY NamesAreRecords, RolesAreRanked
<1>2. a # b /\ a.layer = b.layer => RoleRank(a.role) # RoleRank(b.role)
  BY NamesAreRecords, RolesAreRanked
<1> QED
  BY <1>1, <1>2 DEF NaturallyBefore

(* A finite set of names has as many places as names, each taken by one.     *)
LEMMA NaturalOrder ==
  ASSUME NEW S \in SUBSET Names, NEW c, c = Cardinality(S), NEW names, names = InNaturalOrder(S)
  PROVE  /\ c \in Nat /\ names \in [1 .. c -> S]
         /\ \A i, j \in 1 .. c : i < j => NaturallyBefore(names[i], names[j])
         /\ \A n \in S : \E i \in 1 .. c : names[i] = n
<1> DEFINE Before(n) == {m \in S : NaturallyBefore(m, n)}
<1>1. IsFiniteSet(S) /\ c \in Nat
  BY NamesAssumption, FS_Subset, FS_CardinalityType
<1>2. ASSUME NEW n \in S
      PROVE  IsFiniteSet(Before(n)) /\ Cardinality(Before(n)) \in Nat /\ Cardinality(Before(n)) < c
  <2>1. Before(n) \in SUBSET S /\ n \notin Before(n)
    BY NaturalOrderIsTotal
  <2>2. IsFiniteSet(Before(n)) /\ Cardinality(Before(n)) <= c /\ c # Cardinality(Before(n))
    BY <1>1, <2>1, FS_Subset
  <2> QED
    BY <1>1, <2>2, FS_CardinalityType
<1>3. ASSUME NEW n \in S, NEW m \in S, NaturallyBefore(m, n)
      PROVE  Cardinality(Before(m)) < Cardinality(Before(n))
  <2>1. Before(m) \in SUBSET Before(n)
    BY <1>3, NaturalOrderIsTotal
  <2>2. m \in Before(n) /\ m \notin Before(m)
    BY <1>3, NaturalOrderIsTotal
  <2> HIDE DEF Before
  <2>3. Cardinality(Before(m)) <= Cardinality(Before(n)) /\ Cardinality(Before(n)) # Cardinality(Before(m))
    BY <1>2, <2>1, <2>2, FS_Subset
  <2> QED
    BY <1>2, <2>3
<1> DEFINE place == [n \in S |-> Cardinality(Before(n)) + 1]
<1>4. \A n \in S : place[n] \in 1 .. c /\ place[n] = Cardinality(Before(n)) + 1
  <2> HIDE DEF Before
  <2> QED
    BY <1>1, <1>2
<1>5. \A m, n \in S : m # n => place[m] # place[n]
  <2> HIDE DEF Before
  <2> SUFFICES ASSUME NEW m \in S, NEW n \in S, m # n PROVE place[m] # place[n]
    OBVIOUS
  <2>1. NaturallyBefore(m, n) \/ NaturallyBefore(n, m)
    BY NaturalOrderIsTotal
  <2>2. Cardinality(Before(m)) < Cardinality(Before(n)) \/ Cardinality(Before(n)) < Cardinality(Before(m))
    BY <1>3, <2>1
  <2> QED
    BY <1>2, <1>4, <2>2
<1>6. \A i \in 1 .. c : \E n \in S : place[n] = i
  <2>1. place \in [S -> 1 .. c]
    BY <1>4
  <2> HIDE DEF place
  <2>2. place \in Injection(S, 1 .. c)
    BY <1>5, <2>1 DEF Injection, IsInjective
  <2>3. IsFiniteSet(1 .. c) /\ Cardinality(1 .. c) = c
    BY <1>1, FS_Interval
  <2>4. place \in Surjection(S, 1 .. c)
    BY <2>2, <2>3, FS_Injection
  <2> QED
    BY <2>4 DEF Surjection
<1>7. ASSUME NEW i \in 1 .. c PROVE names[i] \in S /\ Cardinality(Before(names[i])) = i - 1
  <2>1. names[i] = CHOOSE n \in S : Cardinality(Before(n)) = i - 1
    BY DEF InNaturalOrder
  <2>2. \E n \in S : Cardinality(Before(n)) = i - 1
    <3>1. PICK n \in S : place[n] = i
      BY <1>6
    <3>2. Cardinality(Before(n)) = i - 1
      <4> HIDE DEF Before
      <4> QED
        BY <1>2, <1>4, <3>1
    <3> QED
      BY <3>2
  <2> HIDE DEF Before
  <2> QED
    BY <2>1, <2>2
<1>8. names \in [1 .. c -> S]
  <2>1. DOMAIN names = 1 .. c /\ names = [i \in DOMAIN names |-> names[i]]
    BY DEF InNaturalOrder
  <2> QED
    BY <1>7, <2>1
<1> HIDE DEF Before, place
<1>9. ASSUME NEW i \in 1 .. c, NEW j \in 1 .. c, i < j PROVE NaturallyBefore(names[i], names[j])
  <2>1. names[i] \in S /\ names[j] \in S /\ Cardinality(Before(names[i])) < Cardinality(Before(names[j]))
    BY <1>1, <1>7, <1>9
  <2>2. names[i] # names[j] /\ ~NaturallyBefore(names[j], names[i])
    BY <1>2, <1>3, <2>1
  <2> QED
    BY <2>1, <2>2, NaturalOrderIsTotal
<1>10. ASSUME NEW n \in S PROVE \E i \in 1 .. c : names[i] = n
  <2>1. place[n] \in 1 .. c /\ names[place[n]] \in S
    BY <1>4, <1>7
  <2>2. Cardinality(Before(names[place[n]])) + 1 = place[n]
    BY <1>1, <1>7, <2>1
  <2>3. place[names[place[n]]] = place[n]
    BY <1>4, <2>1, <2>2
  <2>4. names[place[n]] = n
    BY <1>5, <2>1, <2>3
  <2> QED
    BY <2>1, <2>4
<1> QED
  BY <1>1, <1>8, <1>9, <1>10

(* Names are matched one after the other.                                    *)
LEMMA MatchSteps ==
  ASSUME NEW names, NEW mapping, NEW n \in Nat
  PROVE  \E Step : /\ Step[0] = NothingMatched
                   /\ \A k \in 1 .. n : Step[k] = MatchName(Step[k - 1], names[k], mapping)
                   /\ MatchEagerly(names, n, mapping) = Step[n]
<1> DEFINE Body(f, k) == IF k = 0 THEN NothingMatched ELSE MatchName(f[k - 1], names[k], mapping)
           IsStep(f, k) == f = [j \in 0 .. k |-> Body(f, j)]
           Defined == {k \in 0 .. n : \E f : IsStep(f, k)}
<1>1. 0 \in Defined
  <2>1. IsStep([j \in 0 .. 0 |-> NothingMatched], 0) /\ 0 \in 0 .. n
    OBVIOUS
  <2> HIDE DEF IsStep
  <2> QED
    BY <2>1
<1>2. ASSUME NEW k \in 0 .. n, k \in Defined, k < n PROVE k + 1 \in Defined
  <2>1. PICK f : IsStep(f, k)
    BY <1>2
  <2>2. PICK g : g = [j \in 0 .. k + 1 |-> IF j <= k THEN f[j]
                                           ELSE MatchName(f[k], names[k + 1], mapping)]
    OBVIOUS
  <2>3. ASSUME NEW j \in 0 .. k + 1 PROVE g[j] = Body(g, j)
    <3>1. CASE j = 0
      BY <2>1, <2>2, <3>1
    <3>2. CASE j # 0 /\ j <= k
      <4>1. f[j] = MatchName(f[j - 1], names[j], mapping)
        BY <2>1, <3>2
      <4>2. g[j] = f[j] /\ g[j - 1] = f[j - 1]
        BY <2>2, <3>2
      <4> QED
        BY <4>1, <4>2, <3>2
    <3>3. CASE j = k + 1
      <4>1. g[j] = MatchName(f[k], names[j], mapping) /\ g[k] = f[k] /\ j - 1 = k /\ j # 0
        BY <2>2, <3>3
      <4> QED
        BY <4>1
    <3> QED
      BY <3>1, <3>2, <3>3
  <2>4. IsStep(g, k + 1)
    <3> HIDE DEF Body
    <3> QED
      BY <2>2, <2>3
  <2>5. k + 1 \in 0 .. n
    BY <1>2
  <2> HIDE DEF IsStep
  <2> QED
    BY <2>4, <2>5
<1>3. n \in Defined
  <2> HIDE DEF Defined
  <2>1. 0 .. n \subseteq Defined
    BY <1>1, <1>2, UpToN
  <2> QED
    BY <2>1
<1>4. PICK Step : Step = CHOOSE f : f = [j \in 0 .. n |-> Body(f, j)]
  OBVIOUS
<1>5. Step = [j \in 0 .. n |-> Body(Step, j)]
  BY <1>3, <1>4
<1>6. MatchEagerly(names, n, mapping) = Step[n]
  <2>1. MatchEagerly(names, n, mapping) = (CHOOSE f : f = [j \in 0 .. n |-> Body(f, j)])[n]
    BY Zenon DEF MatchEagerly
  <2> HIDE DEF Body
  <2> QED
    BY <1>4, <2>1, Zenon
<1>7. Step[0] = NothingMatched /\ \A k \in 1 .. n : Step[k] = MatchName(Step[k - 1], names[k], mapping)
  <2>1. ASSUME NEW k \in 0 .. n PROVE Step[k] = Body(Step, k)
    <3> HIDE DEF Body
    <3> QED
      BY <1>5, Zenon
  <2>2. 0 \in 0 .. n /\ \A k \in 1 .. n : k \in 0 .. n /\ k # 0
    OBVIOUS
  <2> QED
    BY <2>1, <2>2, Zenon
<1> QED
  BY <1>6, <1>7

-----------------------------------------------------------------------------
(* What match_names_set_eager finds                                          *)

Members(S, m) == {n \in S : n.role \in m}

InLayerOf(S, m, n) == {x \in Members(S, m) : x.layer = n.layer}

IsFull(S, m, n) == RolesOf(InLayerOf(S, m, n)) = m

(* The list of names is cut in one place: sets are full but for one, which   *)
(* lacks its last roles.                                                     *)
IsCut(S, m) ==
  /\ \A n \in Members(S, m), r \in m :
       RoleRank(r) < RoleRank(n.role) => [layer |-> n.layer, role |-> r] \in S
  /\ \A x, y \in Members(S, m) : ~IsFull(S, m, x) /\ ~IsFull(S, m, y) => x.layer = y.layer

(* The sets all of whose names are among the names seen so far.              *)
IsClosed(S, m, seen, n) == InLayerOf(S, m, n) \subseteq seen /\ IsFull(S, m, n)

(* What the loop knows after the names seen, of which last is the last.      *)
MatchedSoFar(S, m, seen, last, s) ==
  /\ s \in [matched : SUBSET SUBSET S, open : SUBSET S, twice : BOOLEAN]
  /\ ~s.twice =>
       /\ s.open = {n \in seen : ~IsClosed(S, m, seen, n)}
       /\ s.matched = {InLayerOf(S, m, n) : n \in {x \in seen : IsClosed(S, m, seen, x)}}
       /\ \A n \in seen : ~IsFull(S, m, n) => n.layer = last.layer
  /\ (\A n \in Members(S, m) : IsFull(S, m, n)) => ~s.twice

(* What is open is what has been seen of the set of x.                       *)
IsOpenSetOf(S, m, seen, x, s) ==
  (\A y \in s.open : y.layer = x.layer) /\ s.open = InLayerOf(S, m, x) \cap seen

(* While names are read in order a set that is open is that of the last      *)
(* name: the next one either goes on with it, or begins another set, with    *)
(* the first role, which the open set has.                                   *)
LEMMA OpenSet ==
  ASSUME NEW S \in SUBSET Names, NEW m \in FusedMappings, IsCut(S, m),
         NEW seen \in SUBSET Members(S, m), NEW x \in Members(S, m), x \notin seen,
         \A y \in seen : NaturallyBefore(y, x),
         \A z \in Members(S, m) \ seen : z = x \/ NaturallyBefore(x, z),
         NEW last, seen # {} => last \in seen,
         \A y \in seen : y = last \/ NaturallyBefore(y, last),
         NEW s, MatchedSoFar(S, m, seen, last, s), ~s.twice
  PROVE  /\ \A y \in s.open : y.role = x.role => ~IsFull(S, m, y)
         /\ x.role \notin RolesOf(s.open) => IsOpenSetOf(S, m, seen, x, s)
<1>1. \A y \in Members(S, m) : y \in Names /\ y \in S /\ y.role \in m /\ y.layer \in Nat
  BY NamesAreRecords DEF Members
<1>2. s.open = {n \in seen : ~IsClosed(S, m, seen, n)}
  BY DEF MatchedSoFar
<1>3. ASSUME NEW y \in seen, ~(InLayerOf(S, m, y) \subseteq seen) PROVE y.layer = x.layer
  <2>1. PICK z \in Members(S, m) \ seen : z.layer = y.layer
    BY <1>3 DEF InLayerOf
  <2>2. y.layer <= x.layer /\ x.layer <= z.layer
    BY <1>1, <2>1, NaturalOrderIsTotal
  <2> QED
    BY <1>1, <2>1, <2>2
<1>4. ASSUME NEW y \in s.open, y.role = x.role PROVE ~IsFull(S, m, y)
  <2>1. y \in seen /\ y # x /\ y \in Names /\ x \in Names
    BY <1>1, <1>2
  <2>2. y.layer # x.layer
    BY <1>4, <2>1, NamesAreRecords
  <2> QED
    BY <1>2, <1>3, <2>1, <2>2 DEF IsClosed
<1>5. ASSUME NEW y \in s.open, x.role \notin RolesOf(s.open) PROVE y.layer = x.layer
  <2>1. y \in seen /\ ~IsClosed(S, m, seen, y)
    BY <1>2
  <2> SUFFICES ASSUME y.layer # x.layer PROVE FALSE
    OBVIOUS
  <2>2. InLayerOf(S, m, y) \subseteq seen /\ ~IsFull(S, m, y)
    BY <1>3, <2>1 DEF IsClosed
  <2>3. last.layer = y.layer /\ last \in seen
    BY <2>1, <2>2 DEF MatchedSoFar
  <2>4. IsFull(S, m, x)
    BY <2>1, <2>2 DEF IsCut
  <2>5. ASSUME NEW w \in seen PROVE w.layer # x.layer
    <3>1. w.layer <= last.layer /\ last.layer <= x.layer
      BY <1>1, <2>3, NaturalOrderIsTotal
    <3> QED
      BY <1>1, <2>3, <3>1
  <2>6. ASSUME NEW r \in m PROVE RoleRank(x.role) <= RoleRank(r)
    <3>1. PICK z \in InLayerOf(S, m, x) : z.role = r
      BY <2>4 DEF IsFull, RolesOf
    <3>2. z \in Members(S, m) \ seen /\ z.layer = x.layer
      BY <2>5, <3>1 DEF InLayerOf
    <3>3. z = x \/ RoleRank(x.role) < RoleRank(z.role)
      BY <1>1, <3>2, NaturalOrderIsTotal
    <3> QED
      BY <1>1, <3>1, <3>2, <3>3, NamesAreRecords, RolesAreRanked
  <2>7. y.role # x.role
    BY <1>5 DEF RolesOf
  <2>8. RoleRank(x.role) < RoleRank(y.role)
    <3>1. RoleRank(x.role) <= RoleRank(y.role)
      BY <1>1, <2>1, <2>6
    <3>2. RoleRank(x.role) \in Nat /\ RoleRank(y.role) \in Nat /\ RoleRank(x.role) # RoleRank(y.role)
      BY <1>1, <2>1, <2>7, NamesAreRecords, RolesAreRanked
    <3> QED
      BY <3>1, <3>2
  <2>9. PICK z : z = [layer |-> y.layer, role |-> x.role] /\ z \in S
    BY <1>1, <2>1, <2>8 DEF IsCut
  <2>10. z \in InLayerOf(S, m, y) /\ z \in seen
    BY <1>1, <2>2, <2>9 DEF InLayerOf, Members
  <2>11. InLayerOf(S, m, z) = InLayerOf(S, m, y)
    BY <2>9 DEF InLayerOf
  <2>12. z \in s.open
    BY <1>2, <2>2, <2>10, <2>11 DEF IsClosed, IsFull
  <2> QED
    BY <1>5, <2>9, <2>12 DEF RolesOf
<1>6. ASSUME NEW w \in InLayerOf(S, m, x) \cap seen PROVE w \in s.open
  <2>1. x \in InLayerOf(S, m, w)
    BY <1>6 DEF InLayerOf
  <2> QED
    BY <1>2, <2>1 DEF IsClosed
<1>7. \A y \in s.open : y.layer = x.layer => y \in InLayerOf(S, m, x) \cap seen
  BY <1>2 DEF InLayerOf
<1> QED
  BY <1>4, <1>5, <1>6, <1>7 DEF IsOpenSetOf

LEMMA MatchStep ==
  ASSUME NEW S \in SUBSET Names, NEW m \in FusedMappings, IsCut(S, m),
         NEW seen \in SUBSET Members(S, m), NEW x \in Members(S, m), x \notin seen,
         \A y \in seen : NaturallyBefore(y, x),
         \A z \in Members(S, m) \ seen : z = x \/ NaturallyBefore(x, z),
         NEW last, seen # {} => last \in seen,
         \A y \in seen : y = last \/ NaturallyBefore(y, last),
         NEW s, MatchedSoFar(S, m, seen, last, s)
  PROVE  MatchedSoFar(S, m, seen \cup {x}, x, MatchName(s, x, m))
<1> DEFINE t == MatchName(s, x, m)
           now == seen \cup {x}
           open == s.open \cup {x}
<1>1. s \in [matched : SUBSET SUBSET S, open : SUBSET S, twice : BOOLEAN] /\ x \in S
  BY DEF MatchedSoFar, Members
<1>2. CASE s.twice \/ x.role \in RolesOf(s.open)
  <2>1. t = [s EXCEPT !.twice = TRUE]
    BY <1>2 DEF MatchName
  <2>2. t \in [matched : SUBSET SUBSET S, open : SUBSET S, twice : BOOLEAN] /\ t.twice
    BY <1>1, <2>1
  <2>3. ~(\A n \in Members(S, m) : IsFull(S, m, n))
    <3>1. CASE s.twice
      BY <3>1 DEF MatchedSoFar
    <3>2. CASE ~s.twice
      <4>1. PICK y \in s.open : y.role = x.role
        BY <1>2, <3>2 DEF RolesOf
      <4>2. ~IsFull(S, m, y)
        BY <3>2, <4>1, OpenSet
      <4>3. y \in Members(S, m)
        BY <3>2, <4>1 DEF MatchedSoFar
      <4> QED
        BY <4>2, <4>3
    <3> QED
      BY <3>1, <3>2
  <2> QED
    BY <2>2, <2>3 DEF MatchedSoFar
<1>3. CASE ~s.twice /\ x.role \notin RolesOf(s.open)
  <2>1. /\ s.open = {n \in seen : ~IsClosed(S, m, seen, n)}
        /\ s.matched = {InLayerOf(S, m, n) : n \in {y \in seen : IsClosed(S, m, seen, y)}}
        /\ \A y \in s.open : y.layer = x.layer
        /\ s.open = InLayerOf(S, m, x) \cap seen
    <3>1. /\ s.open = {n \in seen : ~IsClosed(S, m, seen, n)}
          /\ s.matched = {InLayerOf(S, m, n) : n \in {y \in seen : IsClosed(S, m, seen, y)}}
      BY <1>3 DEF MatchedSoFar
    <3>2. (\A y \in s.open : y.layer = x.layer) /\ s.open = InLayerOf(S, m, x) \cap seen
      <4>1. IsOpenSetOf(S, m, seen, x, s)
        BY <1>3, OpenSet
      <4> QED
        BY <4>1 DEF IsOpenSetOf
    <3> QED
      BY <3>1, <3>2
  <2>2. x \in InLayerOf(S, m, x) /\ open = InLayerOf(S, m, x) \cap now
    BY <2>1 DEF InLayerOf
  <2>3. RolesOf(open) = m <=> IsClosed(S, m, now, x)
    <3>1. ASSUME RolesOf(open) = m PROVE IsClosed(S, m, now, x)
      <4>1. \A z \in InLayerOf(S, m, x) : z.role \in m
        BY DEF InLayerOf, Members
      <4>2. RolesOf(InLayerOf(S, m, x)) = m
        BY <2>2, <3>1, <4>1 DEF RolesOf
      <4>3. ASSUME NEW z \in InLayerOf(S, m, x) PROVE z \in now
        <5>1. PICK w \in open : w.role = z.role
          BY <3>1, <4>1 DEF RolesOf
        <5>2. w \in InLayerOf(S, m, x)
          BY <2>2
        <5>3. w = z
          BY <5>1, <5>2, NamesAreRecords DEF InLayerOf, Members
        <5> QED
          BY <2>2, <5>3
      <4> QED
        BY <4>2, <4>3 DEF IsClosed, IsFull
    <3>2. ASSUME IsClosed(S, m, now, x) PROVE RolesOf(open) = m
      <4>1. open = InLayerOf(S, m, x)
        BY <2>2, <3>2 DEF IsClosed
      <4> QED
        BY <3>2, <4>1 DEF IsClosed, IsFull
    <3> QED
      BY <3>1, <3>2
  <2>4. \A n \in now : IF n.layer = x.layer THEN InLayerOf(S, m, n) = InLayerOf(S, m, x)
                                           ELSE n \in seen /\ n \notin s.open
    BY <2>1 DEF InLayerOf
  <2>5. \A n \in now : IsClosed(S, m, now, n)
          <=> IF n.layer = x.layer THEN IsClosed(S, m, now, x) ELSE TRUE
    <3> SUFFICES ASSUME NEW n \in now
                 PROVE  IsClosed(S, m, now, n)
                          <=> IF n.layer = x.layer THEN IsClosed(S, m, now, x) ELSE TRUE
      OBVIOUS
    <3>1. CASE n.layer = x.layer
      BY <2>4, <3>1 DEF IsClosed, IsFull
    <3>2. CASE n.layer # x.layer
      <4>1. IsClosed(S, m, seen, n)
        BY <2>1, <2>4, <3>2
      <4> QED
        BY <3>2, <4>1 DEF IsClosed
    <3> QED
      BY <3>1, <3>2
  <2>6. \A n \in seen : IsClosed(S, m, seen, n) <=> n.layer # x.layer
    <3>1. ASSUME NEW n \in seen, n.layer = x.layer PROVE n \in s.open
      BY <2>1, <3>1 DEF InLayerOf
    <3> QED
      BY <2>1, <3>1
  <2>7. \A n \in now : ~IsFull(S, m, n) => n.layer = x.layer
    <3>1. \A n \in seen : ~IsFull(S, m, n) => n \in s.open
      BY <2>1 DEF IsClosed
    <3> QED
      BY <2>1, <3>1
  <2>8. CASE RolesOf(open) = m
    <3>1. t = [s EXCEPT !.matched = @ \cup {open}, !.open = {}]
      BY <1>3, <2>8 DEF MatchName
    <3>2. t.open = {} /\ t.matched = s.matched \cup {open} /\ ~t.twice
          /\ t \in [matched : SUBSET SUBSET S, open : SUBSET S, twice : BOOLEAN]
      <4>1. open \in SUBSET S
        BY <1>1
      <4> HIDE DEF open, t
      <4> QED
        BY <1>1, <1>3, <3>1, <4>1
    <3>3. open = InLayerOf(S, m, x) /\ \A n \in now : IsClosed(S, m, now, n)
      BY <2>2, <2>3, <2>5, <2>8 DEF IsClosed
    <3>4. t.matched = {InLayerOf(S, m, n) : n \in {y \in now : IsClosed(S, m, now, y)}}
      <4>1. \A set \in t.matched : \E n \in now : set = InLayerOf(S, m, n)
        BY <2>1, <3>2, <3>3
      <4>2. ASSUME NEW n \in now PROVE InLayerOf(S, m, n) \in t.matched
        <5>1. CASE n.layer = x.layer
          BY <2>4, <3>2, <3>3, <5>1
        <5>2. CASE n.layer # x.layer
          BY <2>1, <2>4, <2>6, <3>2, <5>2
        <5> QED
          BY <5>1, <5>2
      <4> QED
        BY <3>3, <4>1, <4>2
    <3> QED
      BY <2>7, <3>2, <3>3, <3>4 DEF MatchedSoFar
  <2>9. CASE RolesOf(open) # m
    <3>1. t = [s EXCEPT !.open = open]
      BY <1>3, <2>9 DEF MatchName
    <3>2. t.open = open /\ t.matched = s.matched /\ ~t.twice
          /\ t \in [matched : SUBSET SUBSET S, open : SUBSET S, twice : BOOLEAN]
      BY <1>1, <1>3, <3>1
    <3>3. \A n \in now : IsClosed(S, m, now, n) <=> n.layer # x.layer
      BY <2>3, <2>5, <2>9
    <3>4. t.open = {n \in now : ~IsClosed(S, m, now, n)}
      BY <2>2, <3>2, <3>3 DEF InLayerOf, Members
    <3>5. {y \in now : IsClosed(S, m, now, y)} = {y \in seen : IsClosed(S, m, seen, y)}
      BY <2>6, <3>3
    <3> QED
      BY <2>1, <2>7, <3>2, <3>4, <3>5 DEF MatchedSoFar
  <2> QED
    BY <2>8, <2>9
<1> QED
  BY <1>2, <1>3

(* In a list of names cut in one place the sets found are the full ones and  *)
(* what is left open is the set that is cut, unless a role comes twice, as   *)
(* it does when names follow the set that is cut.                            *)
LEMMA MatchingIsByLayer ==
  ASSUME NEW S \in SUBSET Names, NEW m \in FusedMappings, IsCut(S, m)
  PROVE  LET found == MatchNamesSetEager(S, m)
         IN  /\ ~found.twice =>
                  /\ found.open = {n \in Members(S, m) : ~IsFull(S, m, n)}
                  /\ found.matched = {InLayerOf(S, m, n) :
                                        n \in {x \in Members(S, m) : IsFull(S, m, x)}}
             /\ (\A n \in Members(S, m) : IsFull(S, m, n)) => ~found.twice
<1>1. PICK names, c : names = InNaturalOrder(Members(S, m)) /\ c = Cardinality(Members(S, m))
  OBVIOUS
<1>2. Members(S, m) \in SUBSET Names
  BY DEF Members
<1>3. /\ c \in Nat /\ names \in [1 .. c -> Members(S, m)]
      /\ \A i, j \in 1 .. c : i < j => NaturallyBefore(names[i], names[j])
      /\ \A n \in Members(S, m) : \E i \in 1 .. c : names[i] = n
  BY <1>1, <1>2, NaturalOrder
<1>4. PICK Step : /\ Step[0] = NothingMatched
                  /\ \A k \in 1 .. c : Step[k] = MatchName(Step[k - 1], names[k], m)
                  /\ MatchEagerly(names, c, m) = Step[c]
  BY <1>3, MatchSteps
<1> DEFINE seen(k) == {names[i] : i \in 1 .. k}
           Right == {k \in 0 .. c : MatchedSoFar(S, m, seen(k), names[k], Step[k])}
<1>5. 0 \in Right
  <2>1. seen(0) = {}
    OBVIOUS
  <2>2. MatchedSoFar(S, m, {}, names[0], Step[0])
    BY <1>4 DEF MatchedSoFar, NothingMatched
  <2> HIDE DEF seen
  <2>3. MatchedSoFar(S, m, seen(0), names[0], Step[0])
    BY <2>1, <2>2
  <2>4. 0 \in 0 .. c
    BY <1>3
  <2> QED
    BY <2>3, <2>4
<1>6. ASSUME NEW k \in 0 .. c, k \in Right, k < c PROVE k + 1 \in Right
  <2>1. k + 1 \in 1 .. c /\ k + 1 \in 0 .. c /\ Step[k + 1] = MatchName(Step[k], names[k + 1], m)
    BY <1>3, <1>4, <1>6
  <2>2. seen(k) \in SUBSET Members(S, m) /\ names[k + 1] \in Members(S, m)
    BY <1>3, <2>1
  <2>3. seen(k + 1) = seen(k) \cup {names[k + 1]}
    <3>1. 1 .. k + 1 = (1 .. k) \cup {k + 1}
      OBVIOUS
    <3> QED
      BY <3>1
  <2>4. \A y \in seen(k) : NaturallyBefore(y, names[k + 1])
    BY <1>3, <2>1
  <2>5. names[k + 1] \notin seen(k)
    BY <1>2, <2>2, <2>4, NaturalOrderIsTotal
  <2>6. ASSUME NEW z \in Members(S, m) \ seen(k)
        PROVE  z = names[k + 1] \/ NaturallyBefore(names[k + 1], z)
    <3>1. PICK i \in 1 .. c : names[i] = z
      BY <1>3
    <3>2. ~(i <= k)
      BY <2>6, <3>1
    <3>3. i = k + 1 \/ k + 1 < i
      BY <3>2
    <3> QED
      BY <1>3, <2>1, <3>1, <3>3
  <2>7. seen(k) # {} => names[k] \in seen(k)
    OBVIOUS
  <2>8. \A y \in seen(k) : y = names[k] \/ NaturallyBefore(y, names[k])
    <3> SUFFICES ASSUME NEW i \in 1 .. k, i # k PROVE NaturallyBefore(names[i], names[k])
      OBVIOUS
    <3>1. i < k /\ i \in 1 .. c /\ k \in 1 .. c
      BY <1>3
    <3> QED
      BY <1>3, <3>1
  <2>9. MatchedSoFar(S, m, seen(k), names[k], Step[k])
    BY <1>6
  <2> HIDE DEF seen
  <2>10. MatchedSoFar(S, m, seen(k) \cup {names[k + 1]}, names[k + 1], MatchName(Step[k], names[k + 1], m))
    BY <2>2, <2>4, <2>5, <2>6, <2>7, <2>8, <2>9, MatchStep
  <2> QED
    BY <2>1, <2>3, <2>10
<1>7. c \in Right
  <2> HIDE DEF Right
  <2>1. 0 .. c \subseteq Right
    BY <1>3, <1>5, <1>6, UpToN
  <2> QED
    BY <1>3, <2>1
<1>8. seen(c) = Members(S, m)
  BY <1>3
<1>9. MatchNamesSetEager(S, m) = Step[c]
  BY <1>1, <1>4 DEF MatchNamesSetEager, Members
<1>10. MatchedSoFar(S, m, Members(S, m), names[c], MatchNamesSetEager(S, m))
  <2> HIDE DEF seen
  <2> QED
    BY <1>7, <1>8, <1>9
<1>11. \A n \in Members(S, m) : IsClosed(S, m, Members(S, m), n) <=> IsFull(S, m, n)
  BY DEF IsClosed, InLayerOf
<1> QED
  BY <1>10, <1>11 DEF MatchedSoFar

Valid(S) == ~MatchedTwice(S) /\ Unmatched(S) = {}

LEMMA EmptyFileIsValid == Valid({})
<1>1. ASSUME NEW m \in FusedMappings PROVE ~MatchNamesSetEager({}, m).twice
  <2>1. {n \in {} : n.role \in m} = {} /\ Cardinality({}) = 0
    BY FS_EmptySet
  <2> QED
    <3>1. PICK Step : Step[0] = NothingMatched /\ MatchEagerly(InNaturalOrder({}), 0, m) = Step[0]
      BY MatchSteps
    <3> QED
      BY <2>1, <3>1 DEF MatchNamesSetEager, NothingMatched
<1> QED
  BY <1>1 DEF Valid, MatchedTwice, Unmatched

-----------------------------------------------------------------------------
(* The inductive invariant                                                   *)

Typed ==
  /\ pc \in {"reindex", "shutdown", "validate index", "validate", "quantize", "done", "raised"}
  /\ Tensors \subseteq Names /\ input.place \in [Tensors -> Files]
  /\ position \in Nat \ {0} /\ carry \subseteq Tensors
  /\ DOMAIN weightMap \subseteq Tensors /\ weightMap \in [DOMAIN weightMap -> Files]
  /\ disk \in [Files -> {None} \cup SUBSET Tensors]
  /\ index # None => DOMAIN index \subseteq Tensors /\ index \in [DOMAIN index -> Files]
  /\ jobs \in [Files -> {"none", "queued", "running", "done", "failed"}]
  /\ saved = [f \in Files |-> saved[f]]

SomethingSaved == \E f \in Files : saved[f] # None

(* A checkpoint has an index when it has several files, which are numbered   *)
(* from 1.                                                                   *)
Shards ==
  \E c \in 0 .. NumFiles : Range(input.place) = 1 .. c /\ (index # None <=> c > 1)

(* reindex_fused_weights so far: of every tensor of the files it has passed, *)
(* either it knows the new file or it carries it on.                         *)
Split ==
  /\ DOMAIN weightMap \cap carry = {}
  /\ (DOMAIN weightMap) \cup carry = {n \in Tensors : input.place[n] < position}
  /\ \A n \in DOMAIN weightMap : weightMap[n] < position

(* The file a map names for a tensor is saved, or is to be saved by a writer *)
(* that has not failed yet, unless one has.                                  *)
HasFile(n, map) ==
  \/ disk[map[n]] # None
  \/ \E w \in writers : w.file = map[n]
  \/ n \in Dropped

Writing ==
  /\ writers # {} => index # None /\ pc \in {"reindex", "shutdown", "raised"} /\ ~SomethingSaved
  /\ \A w \in writers : /\ w.file \in Files /\ w.file < position
                         /\ w.tensors = Content(weightMap, w.file)
  /\ pc = "reindex" =>
       /\ \A f \in Files : disk[f] # None => f < position /\ disk[f] = Content(weightMap, f)
       /\ \A n \in DOMAIN weightMap : HasFile(n, weightMap)
  /\ pc = "shutdown" => index = weightMap

(* Where the tensors are that model_free_ptq reads.                          *)
Source == IF index = None THEN input.place ELSE index

(* The files are what the index says, which names a file for every tensor    *)
(* that is not left over; without an index there is one file.                *)
Stored ==
  /\ pc \notin {"reindex", "raised"} \/ SomethingSaved =>
       /\ \A f \in Files : disk[f] # None => disk[f] = Content(Source, f)
       /\ \A n \in Tensors \ carry : n \in DOMAIN Source /\ HasFile(n, Source)
  /\ index = None => \A f, g \in ReadFiles : f = g

Usable(f) == Targeted(disk[f]) \cap input.malformed = {}

(* The two rounds of jobs: one job for each file.  Quantization starts when  *)
(* all files are usable and the index is valid, and ends when every file is  *)
(* saved.                                                                    *)
Rounds ==
  /\ pc \in {"reindex", "shutdown", "validate index", "validate"} => ~SomethingSaved
  /\ pc \in {"validate", "quantize", "done"} =>
       /\ \A f \in Files : jobs[f] = "none" <=> disk[f] = None
  /\ pc \in {"validate", "quantize", "done"} \/ SomethingSaved => IndexValid
  /\ pc = "validate" => \A f \in Files : jobs[f] = "done" => Usable(f)
  /\ pc \in {"quantize", "done"} \/ SomethingSaved => \A f \in ReadFiles : Usable(f)
  /\ pc \in {"quantize", "done"} => \A f \in Files : jobs[f] = "done" => saved[f] # None
  /\ pc = "done" => savedIndex = FinalIndex /\ \A f \in Files : jobs[f] \in {"none", "done"}

(* What a saved file is.                                                     *)
Written ==
  \A f \in Files : saved[f] # None =>
    /\ disk[f] # None
    /\ input.microscale => Valid(disk[f])
    /\ saved[f] = [n \in disk[f] |-> ScaleGroup(disk[f], n)]

FilesInv == Typed /\ Shards /\ Split /\ Writing /\ Stored /\ Rounds /\ Written
(* What the invariants rest on.                                              *)

LEMMA NoneIsNoFile == \A S \in SUBSET Names : S # None
BY NoneAssumption

LEMMA NoneIsNoMap ==
  ASSUME NEW S \in SUBSET Names, NEW map \in [S -> Files]
  PROVE  map # None
BY NoneAssumption DEF Files

LEMMA NoneIsNoSavedFile ==
  ASSUME NEW S \in SUBSET Names
  PROVE  [n \in S |-> ScaleGroup(S, n)] # None
<1>1. \A n \in S : ScaleGroup(S, n) \in SUBSET Names
  BY DEF ScaleGroup, Targeted
<1>2. [n \in S |-> ScaleGroup(S, n)] \in [S -> SUBSET Names]
  BY <1>1
<1> QED
  BY <1>2, NoneAssumption

LEMMA Parts ==
  ASSUME Typed
  PROVE  /\ Tensors \in SUBSET Names
         /\ \A S \in SUBSET Tensors : S \in SUBSET Names
         /\ \A map, f : Content(map, f) \subseteq DOMAIN map
         /\ \A S : Unmatched(S) \subseteq S
BY DEF Typed, Content, Unmatched

(* Files are numbered from 1 to the last one.                                *)
LEMMA LastIsFile ==
  ASSUME Shards, index # None
  PROVE  LastFile \in Files /\ Range(input.place) = 1 .. LastFile
<1>1. PICK c \in 0 .. NumFiles : Range(input.place) = 1 .. c /\ c > 1
  BY DEF Shards
<1>2. NumFiles \in Nat
  BY ModelFreeAssumption
<1>3. c \in Range(input.place) /\ \A g \in Range(input.place) : g <= c
  BY <1>1, <1>2
<1>4. LastFile \in Range(input.place) /\ \A g \in Range(input.place) : g <= LastFile
  BY <1>3 DEF LastFile
<1>5. LastFile = c
  BY <1>1, <1>2, <1>3, <1>4
<1> QED
  BY <1>1, <1>2, <1>5 DEF Files

LEMMA FilesAreNumbers == \A f \in Files : f \in Nat /\ 1 <= f
BY ModelFreeAssumption DEF Files

LEMMA InitFiles == Init => FilesInv
<1> SUFFICES ASSUME Init PROVE FilesInv
  OBVIOUS
<1>1. PICK place \in Placements, ignored \in Ignores, malformed \in Malformed,
           microscale \in BOOLEAN, reindex \in BOOLEAN :
       /\ input = [place |-> place, ignored |-> ignored,
                   malformed |-> malformed, microscale |-> microscale]
       /\ disk = [f \in Files |-> IF f \in Range(place) /\ ~reindex
                                  THEN Content(place, f) ELSE None]
       /\ index = (IF Cardinality(Range(place)) > 1 THEN place ELSE None)
       /\ pc = (IF reindex THEN "reindex" ELSE "validate index")
  BY DEF Init
<1>2. PICK S \in Checkpoints : place \in [S -> Files] /\ Range(place) = 1 .. Cardinality(Range(place))
  BY DEF Placements
<1>3. input.place = place /\ Tensors = S /\ S \subseteq Names
  BY <1>1, <1>2, ModelFreeAssumption DEF Tensors
<1> DEFINE c == Cardinality(Range(place))
<1>4. Range(place) \subseteq Files
  BY <1>2 DEF Range
<1>5. IsFiniteSet(Files)
  BY FS_Interval, ModelFreeAssumption DEF Files
<1>6. c \in Nat /\ c <= NumFiles
  <2>1. Cardinality(Files) = NumFiles
    BY FS_Interval, ModelFreeAssumption DEF Files
  <2> QED
    BY <1>4, <1>5, <2>1, FS_Subset, FS_CardinalityType
<1>7. place # None
  BY <1>2, <1>3, NoneIsNoMap
<1>18. Range(input.place) = 1 .. c /\ index = (IF c > 1 THEN place ELSE None)
  BY <1>1, <1>2, <1>3
<1> HIDE DEF c
<1>8. Shards
  <2>1. Range(input.place) = 1 .. c /\ (index # None <=> c > 1) /\ c \in 0 .. NumFiles
    BY <1>6, <1>7, <1>18, ModelFreeAssumption
  <2> QED
    BY <2>1 DEF Shards
<1>9. position = 1 /\ carry = {} /\ weightMap = <<>> /\ writers = {}
      /\ jobs = [f \in Files |-> "none"] /\ saved = [f \in Files |-> None]
  BY DEF Init
<1>10. Typed
  <2>1. \A f \in Files : Content(place, f) \in SUBSET Tensors
    BY <1>3, <1>2 DEF Content
  <2>2. disk \in [Files -> {None} \cup SUBSET Tensors]
    BY <1>1, <2>1
  <2>3. DOMAIN weightMap = {}
    BY <1>9
  <2>4. weightMap \in [DOMAIN weightMap -> Files]
    BY <1>9, <2>3
  <2>5. index # None => DOMAIN index \subseteq Tensors /\ index \in [DOMAIN index -> Files]
    BY <1>1, <1>2, <1>3
  <2>6. saved = [f \in Files |-> saved[f]] /\ position \in Nat \ {0}
    BY <1>9
  <2>7. input.place \in [Tensors -> Files] /\ Tensors \subseteq Names
    BY <1>2, <1>3
  <2> QED
    BY <1>1, <1>9, <2>2, <2>3, <2>4, <2>5, <2>6, <2>7 DEF Typed
<1>11. Split
  <2>1. \A n \in Tensors : place[n] \in Nat /\ place[n] >= 1
    BY <1>2, <1>3, ModelFreeAssumption DEF Files
  <2> QED
    BY <1>3, <1>9, <2>1 DEF Split
<1>12. ~SomethingSaved
  BY <1>9 DEF SomethingSaved
<1>13. Writing
  <2>1. DOMAIN weightMap = {} /\ writers = {}
    BY <1>9
  <2>2. pc = "reindex" => \A f \in Files : disk[f] = None
    BY <1>1
  <2>3. pc # "shutdown"
    BY <1>1
  <2> QED
    BY <2>1, <2>2, <2>3 DEF Writing
<1>14. ASSUME index = None, NEW f \in ReadFiles PROVE f = 1
  <2>1. f \in Range(place)
    BY <1>1, <1>14 DEF ReadFiles
  <2> QED
    BY <1>3, <1>6, <1>7, <1>14, <1>18, <2>1
<1>15. Stored
  <2>1. Source = place
    BY <1>1, <1>3 DEF Source
  <2>2. ASSUME ~reindex, NEW n \in Tensors PROVE HasFile(n, place)
    <3>1. place[n] \in Range(place) /\ place[n] \in Files
      BY <1>2, <1>3 DEF Range
    <3>2. Content(place, place[n]) # None
      BY <1>2, <1>3, NoneIsNoFile DEF Content
    <3> QED
      BY <1>1, <2>2, <3>1, <3>2 DEF HasFile
  <2>3. \A f \in Files : disk[f] # None => disk[f] = Content(place, f)
    BY <1>1
  <2> QED
    BY <1>1, <1>2, <1>3, <1>12, <1>14, <2>1, <2>2, <2>3 DEF Stored
<1>16. Rounds
  BY <1>1, <1>12 DEF Rounds
<1>17. Written
  BY <1>9 DEF Written
<1> QED
  BY <1>8, <1>10, <1>11, <1>13, <1>15, <1>16, <1>17 DEF FilesInv

-----------------------------------------------------------------------------
(* reindex_fused_weights                                                     *)

LEMMA ReindexFileStep ==
  ASSUME FilesInv, ReindexFile
  PROVE  FilesInv'
<1> DEFINE tensors == Content(input.place, position) \cup carry
           kept == tensors \ Unmatched(tensors)
<1>1. /\ pc = "reindex" /\ index # None /\ position <= LastFile
      /\ UNCHANGED <<input, disk, index, jobs, saveVars, failures>>
  BY DEF ReindexFile
<1>2. Typed /\ Shards /\ Split /\ Writing /\ Stored /\ Rounds /\ Written
  BY DEF FilesInv
<1>3. position \in Files /\ position \in Nat
  <2>1. LastFile \in 1 .. NumFiles /\ NumFiles \in Nat
    BY <1>1, <1>2, LastIsFile, ModelFreeAssumption DEF Files
  <2>2. position \in Nat \ {0}
    BY <1>2 DEF Typed
  <2> QED
    BY <1>1, <2>1, <2>2 DEF Files
<1>4. ~SomethingSaved /\ ~SomethingSaved' /\ Shards' /\ Written' /\ Tensors' = Tensors
  BY <1>1, <1>2 DEF Rounds, SomethingSaved, Shards, Written, ScaleGroup, Targeted, saveVars, Tensors
<1>5. CASE MatchedTwice(tensors)
  <2>1. pc' = "raised" /\ UNCHANGED reindexVars
    BY <1>5 DEF ReindexFile, Raise
  <2>2. Typed' /\ Split'
    BY <1>1, <1>2, <1>4, <2>1 DEF Typed, Split, reindexVars, saveVars, Tensors
  <2>3. Writing'
    BY <1>1, <1>2, <1>4, <2>1 DEF Writing, reindexVars
  <2>4. Stored' /\ Rounds'
    BY <1>1, <1>2, <1>4, <2>1 DEF Stored, Rounds, ReadFiles
  <2> QED
    BY <1>4, <2>2, <2>3, <2>4 DEF FilesInv
<1>6. CASE ~MatchedTwice(tensors)
  <2>1. /\ carry' = Unmatched(tensors) /\ position' = position + 1 /\ pc' = pc
        /\ writers' = writers \cup {[file |-> position, tensors |-> kept]}
        /\ weightMap' = [n \in kept \cup DOMAIN weightMap |->
                           IF n \in kept THEN position ELSE weightMap[n]]
    BY <1>6 DEF ReindexFile
  <2>2. tensors \subseteq Tensors /\ tensors \cap DOMAIN weightMap = {}
    <3>1. \A n \in Content(input.place, position) : n \in Tensors /\ ~(input.place[n] < position)
      BY <1>3 DEF Content, Tensors
    <3>2. carry \subseteq Tensors /\ DOMAIN weightMap \cap carry = {}
      BY <1>2 DEF Typed, Split
    <3>3. \A n \in DOMAIN weightMap : input.place[n] < position
      BY <1>2 DEF Split
    <3> QED
      BY <3>1, <3>2, <3>3
  <2>3. kept \cup carry' = tensors /\ kept \cap carry' = {}
    BY <2>1, Parts, <1>2
  <2>4. tensors \cup DOMAIN weightMap = {n \in Tensors : input.place[n] < position + 1}
    <3>1. \A n \in Tensors : input.place[n] \in Nat
      BY <1>2, FilesAreNumbers DEF Typed
    <3>2. \A n \in Tensors : input.place[n] < position + 1
                               <=> input.place[n] < position \/ input.place[n] = position
      BY <1>3, <3>1
    <3>3. tensors \cup DOMAIN weightMap
            = {n \in Tensors : input.place[n] = position} \cup (carry \cup DOMAIN weightMap)
      BY DEF Content, Tensors
    <3> QED
      BY <1>2, <3>2, <3>3 DEF Split
  <2> HIDE DEF tensors, kept
  <2>5. Typed'
    <3>1. carry' \subseteq Tensors /\ kept \subseteq Tensors
      BY <2>2, <2>3
    <3>2. DOMAIN weightMap' \subseteq Tensors /\ weightMap' \in [DOMAIN weightMap' -> Files]
      BY <1>2, <1>3, <2>1, <3>1 DEF Typed
    <3> QED
      BY <1>1, <1>2, <1>3, <1>4, <2>1, <3>1, <3>2 DEF Typed, saveVars
  <2>6. Split'
    <3>1. DOMAIN weightMap' = kept \cup DOMAIN weightMap
      BY <2>1
    <3>2. DOMAIN weightMap' \cup carry' = tensors \cup DOMAIN weightMap
      BY <2>3, <3>1
    <3>3. DOMAIN weightMap' \cap carry' = {}
      BY <2>2, <2>3, <3>1
    <3>4. \A n \in DOMAIN weightMap' : weightMap'[n] < position + 1
      <4> SUFFICES ASSUME NEW n \in DOMAIN weightMap' PROVE weightMap'[n] < position + 1
        OBVIOUS
      <4>1. CASE n \in kept
        BY <1>3, <2>1, <4>1
      <4>2. CASE n \notin kept
        <5>1. weightMap'[n] = weightMap[n] /\ n \in DOMAIN weightMap
          BY <2>1, <4>2
        <5>2. weightMap[n] \in Nat /\ weightMap[n] < position
          BY <1>2, <5>1, FilesAreNumbers DEF Typed, Split
        <5> QED
          BY <1>3, <5>1, <5>2
      <4> QED
        BY <4>1, <4>2
    <3> QED
      BY <1>1, <1>4, <2>1, <2>4, <3>2, <3>3, <3>4 DEF Split
  <2>7. \A f \in Files : Content(weightMap', f) = IF f = position THEN kept ELSE Content(weightMap, f)
    <3>1. kept \cap DOMAIN weightMap = {}
      BY <2>2, <2>3
    <3>2. \A n \in DOMAIN weightMap : weightMap[n] # position
      <4> SUFFICES ASSUME NEW n \in DOMAIN weightMap PROVE weightMap[n] # position
        OBVIOUS
      <4>1. weightMap[n] \in Nat /\ weightMap[n] < position
        BY <1>2, FilesAreNumbers DEF Split, Typed
      <4> QED
        BY <1>3, <4>1
    <3> QED
      BY <2>1, <3>1, <3>2 DEF Content
  <2>8. Writing'
    <3>1. \A w \in writers' : /\ w.file \in Files /\ w.file < position'
                              /\ w.tensors = Content(weightMap', w.file)
      <4> SUFFICES ASSUME NEW w \in writers'
                   PROVE  /\ w.file \in Files /\ w.file < position + 1
                          /\ w.tensors = Content(weightMap', w.file)
        BY <2>1
      <4>1. CASE w \in writers
        BY <1>2, <1>3, <2>7, <4>1 DEF Writing, Files
      <4>2. CASE w = [file |-> position, tensors |-> kept]
        BY <1>3, <2>7, <4>2
      <4> QED
        BY <2>1, <4>1, <4>2
    <3>2. \A f \in Files : disk'[f] # None => f < position' /\ disk'[f] = Content(weightMap', f)
      <4> SUFFICES ASSUME NEW f \in Files, disk[f] # None
                   PROVE  f < position + 1 /\ disk[f] = Content(weightMap', f)
        BY <1>1, <2>1
      <4>1. f < position /\ disk[f] = Content(weightMap, f)
        BY <1>1, <1>2 DEF Writing
      <4> QED
        BY <1>3, <2>7, <4>1 DEF Files
    <3>3. \A n \in DOMAIN weightMap' : HasFile(n, weightMap)' 
      <4> SUFFICES ASSUME NEW n \in DOMAIN weightMap' PROVE HasFile(n, weightMap)'
        OBVIOUS
      <4>1. CASE n \in kept
        <5>1. weightMap'[n] = position
          BY <2>1, <4>1
        <5>2. [file |-> position, tensors |-> kept] \in writers'
          BY <2>1
        <5> QED
          BY <5>1, <5>2 DEF HasFile
      <4>2. CASE n \notin kept
        <5>1. weightMap'[n] = weightMap[n] /\ n \in DOMAIN weightMap
          BY <2>1, <4>2
        <5>2. HasFile(n, weightMap)
          BY <1>1, <1>2, <5>1 DEF Writing
        <5> QED
          BY <1>1, <2>1, <5>1, <5>2 DEF HasFile, Dropped
      <4> QED
        BY <4>1, <4>2
    <3> QED
      BY <1>1, <1>4, <2>1, <3>1, <3>2, <3>3 DEF Writing
  <2>9. Stored' /\ Rounds'
    BY <1>1, <1>2, <1>4, <2>1 DEF Stored, Rounds, ReadFiles
  <2> QED
    BY <1>4, <2>5, <2>6, <2>8, <2>9 DEF FilesInv
<1> QED
  BY <1>5, <1>6

LEMMA WriterStep ==
  ASSUME FilesInv, NEW w \in writers, WriterSaves(w)
  PROVE  FilesInv'
<1>1. /\ writers' = writers \ {w}
      /\ UNCHANGED <<input, pc, position, carry, weightMap, index, jobs, saveVars>>
  BY DEF WriterSaves
<1>2. Typed /\ Shards /\ Split /\ Writing /\ Stored /\ Rounds /\ Written
  BY DEF FilesInv
<1>3. /\ index # None /\ pc \in {"reindex", "shutdown", "raised"}
      /\ w.file \in Files /\ w.file < position /\ w.tensors = Content(weightMap, w.file)
  BY <1>2 DEF Writing
<1>4. ~SomethingSaved /\ ~SomethingSaved' /\ Shards' /\ Tensors' = Tensors /\ Source' = Source
  BY <1>1, <1>2 DEF Writing, SomethingSaved, Shards, saveVars, Tensors, Source
<1>5. Written' /\ Split'
  BY <1>1, <1>2, <1>4 DEF Written, Split, SomethingSaved
<1>6. w.tensors \in SUBSET Tensors /\ w.tensors # None
  <2>1. w.tensors \subseteq DOMAIN weightMap
    BY <1>3 DEF Content
  <2> QED
    BY <1>2, <2>1, NoneIsNoFile DEF Typed
<1>7. \/ disk' = [disk EXCEPT ![w.file] = w.tensors] /\ UNCHANGED failures
      \/ failures' = failures \cup {w} /\ UNCHANGED disk
  BY DEF WriterSaves
<1>8. Typed'
  BY <1>1, <1>2, <1>4, <1>6, <1>7 DEF Typed, saveVars
<1>9. \A f \in Files : disk'[f] # None =>
        \/ disk[f] # None /\ disk'[f] = disk[f]
        \/ f = w.file /\ disk'[f] = Content(weightMap, f)
  BY <1>2, <1>3, <1>7 DEF Typed
<1>10. ASSUME NEW n \in Tensors, n \in DOMAIN weightMap, HasFile(n, weightMap)
       PROVE  HasFile(n, weightMap)'
  <2>1. weightMap[n] \in Files
    BY <1>2, <1>10 DEF Typed
  <2>2. CASE disk[weightMap[n]] # None
    <3>1. disk'[weightMap[n]] # None
      BY <1>2, <1>6, <1>7, <2>1, <2>2 DEF Typed
    <3> QED
      BY <1>1, <3>1 DEF HasFile
  <2>3. CASE n \in Dropped
    BY <1>7, <2>3 DEF HasFile, Dropped
  <2>4. CASE \E v \in writers : v.file = weightMap[n]
    <3>1. PICK v \in writers : v.file = weightMap[n]
      BY <2>4
    <3>2. CASE v # w
      BY <1>1, <3>1, <3>2 DEF HasFile
    <3>3. CASE v = w
      <4>1. n \in w.tensors
        BY <1>3, <1>10, <3>1, <3>3 DEF Content
      <4>2. CASE disk' = [disk EXCEPT ![w.file] = w.tensors]
        <5>1. disk'[w.file] # None
          BY <1>2, <1>3, <1>6, <4>2 DEF Typed
        <5> QED
          BY <1>1, <3>1, <3>3, <5>1 DEF HasFile
      <4>3. CASE failures' = failures \cup {w}
        BY <4>1, <4>3 DEF HasFile, Dropped
      <4> QED
        BY <1>7, <4>2, <4>3
    <3> QED
      BY <3>2, <3>3
  <2> QED
    BY <1>10, <2>2, <2>3, <2>4 DEF HasFile
<1>11. Writing'
  <2>1. writers' # {} => writers # {}
    BY <1>1
  <2>2. \A v \in writers' : /\ v.file \in Files /\ v.file < position'
                            /\ v.tensors = Content(weightMap', v.file)
    BY <1>1, <1>2 DEF Writing
  <2>3. pc = "reindex" => /\ \A f \in Files : disk'[f] # None => f < position /\ disk'[f] = Content(weightMap, f)
                          /\ \A n \in DOMAIN weightMap : HasFile(n, weightMap)'
    <3>1. ASSUME pc = "reindex", NEW n \in DOMAIN weightMap PROVE HasFile(n, weightMap)'
      BY <1>2, <1>10, <3>1 DEF Writing, Typed
    <3>2. ASSUME pc = "reindex", NEW f \in Files, disk'[f] # None
          PROVE  f < position /\ disk'[f] = Content(weightMap, f)
      BY <1>2, <1>3, <1>9, <3>2 DEF Writing
    <3> QED
      BY <3>1, <3>2
  <2>4. pc = "shutdown" => index = weightMap
    BY <1>2 DEF Writing
  <2> QED
    BY <1>1, <1>3, <1>4, <2>1, <2>2, <2>3, <2>4 DEF Writing
<1>12. Stored'
  <2>1. ASSUME pc = "shutdown"
        PROVE  /\ \A f \in Files : disk'[f] # None => disk'[f] = Content(Source, f)
               /\ \A n \in Tensors \ carry : n \in DOMAIN Source /\ HasFile(n, Source)'
    <3>1. Source = weightMap
      BY <1>2, <1>3, <2>1 DEF Writing, Source
    <3>2. \A f \in Files : disk'[f] # None => disk'[f] = Content(Source, f)
      BY <1>2, <1>9, <2>1, <3>1 DEF Stored
    <3>3. ASSUME NEW n \in Tensors \ carry
          PROVE  n \in DOMAIN Source /\ HasFile(n, weightMap)'
      BY <1>2, <1>10, <2>1, <3>1 DEF Stored
    <3>4. Source' = weightMap'
      BY <1>1, <1>4, <3>1
    <3> QED
      BY <3>1, <3>2, <3>3, <3>4 DEF HasFile
  <2> QED
    BY <1>1, <1>3, <1>4, <2>1 DEF Stored
<1>13. Rounds'
  BY <1>1, <1>2, <1>3, <1>4 DEF Rounds
<1> QED
  BY <1>4, <1>5, <1>8, <1>11, <1>12, <1>13 DEF FilesInv

LEMMA IndexStep ==
  ASSUME FilesInv, NothingToReindex \/ WriteIndex \/ ReindexEnd
  PROVE  FilesInv'
<1>1. /\ pc \in {"reindex", "shutdown"} /\ pc' \in {"raised", "shutdown", "validate index"}
      /\ UNCHANGED <<input, position, carry, weightMap, writers, disk, jobs, saved, failures>>
  BY DEF NothingToReindex, WriteIndex, ReindexEnd, Raise, reindexVars, saveVars
<1>2. Typed /\ Shards /\ Split /\ Writing /\ Stored /\ Rounds /\ Written
  BY DEF FilesInv
<1>3. ~SomethingSaved /\ ~SomethingSaved' /\ Written' /\ Tensors' = Tensors
  BY <1>1, <1>2 DEF Rounds, SomethingSaved, Written, Tensors
<1>4. Split' /\ Rounds'
  BY <1>1, <1>2, <1>3 DEF Split, Rounds
<1>5. CASE NothingToReindex
  <2>1. pc = "reindex" /\ index = None /\ pc' = "raised" /\ index' = index
    BY <1>5 DEF NothingToReindex, Raise
  <2>2. Typed' /\ Shards'
    BY <1>1, <1>2, <1>3, <2>1 DEF Typed, Shards
  <2>3. Writing' /\ Stored'
    BY <1>1, <1>2, <1>3, <2>1 DEF Writing, Stored, ReadFiles
  <2> QED
    BY <1>3, <1>4, <2>2, <2>3 DEF FilesInv
<1>6. CASE WriteIndex
  <2>1. pc = "reindex" /\ index # None /\ position > LastFile /\ pc' = "shutdown" /\ index' = weightMap
    BY <1>6 DEF WriteIndex
  <2>2. index' # None
    BY <1>2, <2>1, NoneIsNoMap DEF Typed
  <2>3. Typed' /\ Shards'
    BY <1>1, <1>2, <1>3, <2>1, <2>2 DEF Typed, Shards
  <2>4. Writing'
    BY <1>1, <1>2, <1>3, <2>1, <2>2 DEF Writing
  <2>5. (DOMAIN weightMap) \cup carry = Tensors
    <3>1. LastFile \in Nat /\ Range(input.place) = 1 .. LastFile
      BY <1>2, <2>1, LastIsFile, FilesAreNumbers
    <3>2. \A n \in Tensors : input.place[n] \in 1 .. LastFile
      BY <3>1, Zenon DEF Range, Tensors
    <3>3. \A n \in Tensors : input.place[n] < position
      BY <1>2, <2>1, <3>1, <3>2 DEF Typed
    <3> QED
      BY <1>2, <3>3 DEF Split
  <2>6. Source' = weightMap
    BY <2>1, <2>2 DEF Source
  <2>7. \A f \in Files : disk[f] # None => disk[f] = Content(weightMap, f)
    BY <1>2, <2>1 DEF Writing
  <2>8. \A n \in Tensors \ carry : n \in DOMAIN weightMap /\ HasFile(n, weightMap)
    BY <1>2, <2>1, <2>5 DEF Writing
  <2>9. \A n \in Tensors \ carry : HasFile(n, Source)'
    BY <1>1, <2>6, <2>8 DEF HasFile, Dropped
  <2>10. Stored'
    BY <1>1, <1>3, <2>2, <2>6, <2>7, <2>8, <2>9 DEF Stored
  <2> QED
    BY <1>3, <1>4, <2>3, <2>4, <2>10 DEF FilesInv
<1>7. CASE ReindexEnd
  <2>1. pc = "shutdown" /\ writers = {} /\ pc' = "validate index" /\ index' = index
    BY <1>7 DEF ReindexEnd
  <2>2. Typed' /\ Shards' /\ Source' = Source
    BY <1>1, <1>2, <1>3, <2>1 DEF Typed, Shards, Source
  <2>3. Writing'
    BY <1>1, <1>2, <1>3, <2>1 DEF Writing
  <2>4. \A n \in Tensors : HasFile(n, Source) => HasFile(n, Source)'
    BY <1>1, <2>2 DEF HasFile, Dropped
  <2>5. Stored'
    BY <1>1, <1>2, <1>3, <2>1, <2>2, <2>4 DEF Stored, ReadFiles
  <2> QED
    BY <1>3, <1>4, <2>2, <2>3, <2>5 DEF FilesInv
<1> QED
  BY <1>5, <1>6, <1>7

-----------------------------------------------------------------------------
(* model_free_ptq                                                            *)

(* None of its steps changes the files it reads or their index.              *)
Reads == UNCHANGED <<input, reindexVars, disk, index>>

(* What is there of a checkpoint stays as it is.                             *)
LEMMA FilesStay ==
  ASSUME FilesInv, Reads, failures \subseteq failures',
         pc \notin {"reindex", "shutdown", "raised"}, pc' \notin {"reindex", "shutdown"},
         SomethingSaved' => pc \notin {"reindex", "raised"}
  PROVE  /\ Shards' /\ Split' /\ Writing' /\ Stored' /\ writers = {}
         /\ ReadFiles' = ReadFiles /\ (IndexValid' <=> IndexValid)
         /\ \A f \in Files : Usable(f)' <=> Usable(f)
         /\ \A S, n : ScaleGroup(S, n)' = ScaleGroup(S, n)
<1>1. UNCHANGED <<input, position, carry, weightMap, writers, disk, index>>
  BY DEF Reads, reindexVars
<1>2. Typed /\ Shards /\ Split /\ Writing /\ Stored /\ Rounds /\ Written
  BY DEF FilesInv
<1>3. Tensors' = Tensors /\ Source' = Source /\ ReadFiles' = ReadFiles /\ writers = {}
  BY <1>1, <1>2 DEF Tensors, Source, ReadFiles, Writing
<1>4. Shards' /\ Split' /\ Writing'
  BY <1>1, <1>2, <1>3 DEF Shards, Split, Writing
<1>5. \A n \in Tensors : HasFile(n, Source) => HasFile(n, Source)'
  BY <1>1, <1>3 DEF HasFile, Dropped
<1>6. Stored'
  BY <1>1, <1>2, <1>3, <1>5 DEF Stored
<1>7. IndexValid' <=> IndexValid
  BY <1>1 DEF IndexValid, Content
<1>8. /\ \A f \in Files : Usable(f)' <=> Usable(f)
      /\ \A S, n : ScaleGroup(S, n)' = ScaleGroup(S, n)
  BY <1>1 DEF Usable, Targeted, ScaleGroup
<1> QED
  BY <1>3, <1>4, <1>6, <1>7, <1>8

LEMMA EnqueuedFiles ==
  ASSUME Typed, jobs' = Enqueued
  PROVE  /\ jobs' \in [Files -> {"none", "queued", "running", "done", "failed"}]
         /\ \A f \in Files : (jobs'[f] = "none" <=> disk[f] = None) /\ jobs'[f] # "done"
BY DEF Enqueued, ReadFiles

LEMMA ValidateIndexStep ==
  ASSUME FilesInv, ValidateSafetensorsIndex
  PROVE  FilesInv'
<1>1. /\ pc = "validate index" /\ pc' \in {"validate", "raised"}
      /\ UNCHANGED <<input, reindexVars, disk, index, saved, failures>>
  BY DEF ValidateSafetensorsIndex, Raise
<1>2. Typed /\ Rounds /\ Written /\ Reads
  BY <1>1 DEF FilesInv, Reads
<1>3. ~SomethingSaved /\ ~SomethingSaved' /\ Written' /\ Tensors' = Tensors
  BY <1>1, <1>2 DEF Rounds, SomethingSaved, Written, Tensors
<1>4. /\ Shards' /\ Split' /\ Writing' /\ Stored' /\ (IndexValid' <=> IndexValid)
      /\ \A f \in Files : Usable(f)' <=> Usable(f)
  BY <1>1, <1>2, <1>3, FilesStay
<1>5. CASE IndexValid
  <2>1. pc' = "validate" /\ jobs' = Enqueued
    BY <1>5 DEF ValidateSafetensorsIndex
  <2>2. Typed'
    BY <1>1, <1>2, <1>3, <2>1, EnqueuedFiles DEF Typed, reindexVars
  <2>3. Rounds'
    BY <1>1, <1>3, <1>4, <1>5, <1>2, <2>1, EnqueuedFiles DEF Rounds
  <2> QED
    BY <1>3, <1>4, <2>2, <2>3 DEF FilesInv
<1>6. CASE ~IndexValid
  <2>1. pc' = "raised" /\ jobs' = jobs
    BY <1>6 DEF ValidateSafetensorsIndex, Raise
  <2>2. Typed' /\ Rounds'
    BY <1>1, <1>2, <1>3, <2>1 DEF Typed, Rounds, reindexVars
  <2> QED
    BY <1>3, <1>4, <2>2 DEF FilesInv
<1> QED
  BY <1>5, <1>6

LEMMA JobStep ==
  ASSUME FilesInv, NEW f \in Files, StartJob(f) \/ ValidateFile(f)
  PROVE  FilesInv'
<1>1. /\ jobs[f] \in {"queued", "running"}
      /\ UNCHANGED <<input, pc, reindexVars, disk, index, saveVars, failures>>
      /\ \/ StartJob(f) /\ jobs' = [jobs EXCEPT ![f] = "running"]
         \/ /\ pc = "validate"
            /\ \/ jobs' = [jobs EXCEPT ![f] = "done"] /\ Usable(f)
               \/ jobs' = [jobs EXCEPT ![f] = "failed"]
  BY DEF StartJob, ValidateFile, Usable
<1>2. Typed /\ Shards /\ Split /\ Writing /\ Stored /\ Rounds /\ Written
  BY DEF FilesInv
<1>3. (SomethingSaved' <=> SomethingSaved) /\ Tensors' = Tensors /\ Source' = Source /\ ReadFiles' = ReadFiles
  BY <1>1 DEF SomethingSaved, Tensors, Source, ReadFiles, saveVars
<1>4. Shards' /\ Split' /\ Writing' /\ Stored'
  BY <1>1, <1>2, <1>3 DEF Shards, Split, Writing, Stored, HasFile, Dropped, reindexVars
<1>5. Written'
  BY <1>1, <1>2 DEF Written, ScaleGroup, Targeted, saveVars
<1>6. Typed'
  BY <1>1, <1>2, <1>3 DEF Typed, reindexVars, saveVars
<1>7. pc # "done"
  BY <1>1, <1>2 DEF Rounds
<1>8. \A g \in Files : (Usable(g)' <=> Usable(g)) /\ (jobs'[g] = "none" <=> jobs[g] = "none")
  BY <1>1, <1>2 DEF Typed, Usable, Targeted
<1>9. \A g \in Files : jobs'[g] = "done" => jobs[g] = "done" \/ (pc = "validate" /\ Usable(g))
  BY <1>1, <1>2 DEF Typed
<1>10. IndexValid' <=> IndexValid
  BY <1>1 DEF IndexValid, Content
<1>11. saved' = saved
  BY <1>1 DEF saveVars
<1>12. Rounds'
  <2>1. pc \in {"validate", "quantize"} => \A g \in Files : jobs'[g] = "none" <=> disk'[g] = None
    BY <1>1, <1>2, <1>8 DEF Rounds
  <2>2. pc = "validate" => \A g \in Files : jobs'[g] = "done" => Usable(g)'
    BY <1>2, <1>8, <1>9 DEF Rounds
  <2>3. pc = "quantize" => \A g \in Files : jobs'[g] = "done" => saved'[g] # None
    BY <1>2, <1>9, <1>11 DEF Rounds
  <2>4. pc = "quantize" \/ SomethingSaved => \A g \in ReadFiles' : Usable(g)'
    BY <1>2, <1>3, <1>8 DEF Rounds, ReadFiles
  <2> QED
    BY <1>1, <1>2, <1>3, <1>7, <1>10, <2>1, <2>2, <2>3, <2>4 DEF Rounds
<1> QED
  BY <1>4, <1>5, <1>6, <1>12 DEF FilesInv

LEMMA ProcessFileStep ==
  ASSUME FilesInv, NEW f \in Files, ProcessFile(f)
  PROVE  FilesInv'
<1>1. /\ pc = "quantize" /\ pc' = pc /\ jobs[f] = "running"
      /\ UNCHANGED <<input, reindexVars, disk, index>> /\ failures \subseteq failures'
      /\ \/ jobs' = [jobs EXCEPT ![f] = "failed"] /\ UNCHANGED saved
         \/ /\ input.microscale => Valid(disk[f])
            /\ jobs' = [jobs EXCEPT ![f] = "done"]
            /\ saved' = [saved EXCEPT ![f] = [n \in disk[f] |-> ScaleGroup(disk[f], n)]]
  BY DEF ProcessFile, Valid
<1>2. Typed /\ Rounds /\ Written /\ Reads
  BY <1>1 DEF FilesInv, Reads
<1>3. /\ Shards' /\ Split' /\ Writing' /\ Stored' /\ (IndexValid' <=> IndexValid) /\ ReadFiles' = ReadFiles
      /\ \A g \in Files : Usable(g)' <=> Usable(g)
      /\ \A S, n : ScaleGroup(S, n)' = ScaleGroup(S, n)
  BY <1>1, <1>2, FilesStay
<1>4. disk[f] # None /\ disk[f] \in SUBSET Names
  BY <1>1, <1>2 DEF Rounds, Typed
<1>5. [n \in disk[f] |-> ScaleGroup(disk[f], n)] # None
  BY <1>4, NoneIsNoSavedFile
<1>6. Typed'
  BY <1>1, <1>2 DEF Typed, reindexVars, Tensors
<1>7. Written'
  <2> SUFFICES ASSUME NEW g \in Files, saved'[g] # None
               PROVE  /\ disk[g] # None /\ (input.microscale => Valid(disk[g]))
                      /\ saved'[g] = [n \in disk[g] |-> ScaleGroup(disk[g], n)]
    BY <1>1, <1>3 DEF Written
  <2>1. CASE saved'[g] = saved[g]
    BY <1>2, <2>1 DEF Written
  <2>2. CASE saved'[g] # saved[g]
    <3>1. /\ g = f /\ (input.microscale => Valid(disk[f]))
          /\ saved'[f] = [n \in disk[f] |-> ScaleGroup(disk[f], n)]
      BY <1>1, <1>2, <2>2 DEF Typed
    <3> QED
      BY <1>4, <3>1
  <2> QED
    BY <2>1, <2>2
<1>8. Rounds'
  <2>1. \A g \in Files : jobs'[g] = "none" <=> jobs[g] = "none"
    BY <1>1, <1>2 DEF Typed
  <2>2. \A g \in Files : jobs'[g] = "done" => saved'[g] # None
    <3>1. CASE jobs' = [jobs EXCEPT ![f] = "failed"] /\ UNCHANGED saved
      BY <1>1, <1>2, <3>1 DEF Rounds, Typed
    <3>2. CASE /\ jobs' = [jobs EXCEPT ![f] = "done"]
               /\ saved' = [saved EXCEPT ![f] = [n \in disk[f] |-> ScaleGroup(disk[f], n)]]
      BY <1>1, <1>2, <1>5, <3>2 DEF Rounds, Typed
    <3> QED
      BY <1>1, <3>1, <3>2
  <2>3. \A g \in ReadFiles : Usable(g)
    BY <1>1, <1>2 DEF Rounds
  <2>4. \A g \in ReadFiles' : Usable(g)'
    BY <1>3, <2>3 DEF ReadFiles
  <2> QED
    BY <1>1, <1>2, <1>3, <2>1, <2>2, <2>4 DEF Rounds
<1> QED
  BY <1>3, <1>6, <1>7, <1>8 DEF FilesInv

LEMMA RoundEnds ==
  ASSUME FilesInv, ValidationEnds \/ QuantizationEnds
  PROVE  FilesInv'
<1>1. /\ pc \in {"validate", "quantize"} /\ JobsEnded
      /\ UNCHANGED <<input, reindexVars, disk, index, saved, failures>>
      /\ \/ /\ JobsSucceeded /\ pc = "validate" /\ pc' = "quantize" /\ jobs' = Enqueued
         \/ /\ JobsSucceeded /\ pc = "quantize" /\ pc' = "done" /\ jobs' = jobs
            /\ savedIndex' = FinalIndex
         \/ pc' = "raised" /\ jobs' = jobs
  BY DEF ValidationEnds, QuantizationEnds, Raise, saveVars
<1>2. Typed /\ Rounds /\ Written /\ Reads
  BY <1>1 DEF FilesInv, Reads
<1>3. /\ Shards' /\ Split' /\ Writing' /\ Stored' /\ (IndexValid' <=> IndexValid) /\ ReadFiles' = ReadFiles
      /\ \A g \in Files : Usable(g)' <=> Usable(g)
      /\ \A S, n : ScaleGroup(S, n)' = ScaleGroup(S, n)
  BY <1>1, <1>2, FilesStay
<1>4. Written' /\ (SomethingSaved' <=> SomethingSaved) /\ FinalIndex' = FinalIndex
  BY <1>1, <1>2, <1>3 DEF Written, SomethingSaved, FinalIndex
<1>5. Typed'
  BY <1>1, <1>2, EnqueuedFiles DEF Typed, reindexVars, Tensors
<1>6. JobsSucceeded => \A f \in Files : jobs[f] \in {"none", "done"}
  BY <1>1, <1>2 DEF JobsEnded, JobsSucceeded, Typed
<1>7. CASE JobsSucceeded /\ pc = "validate" /\ pc' = "quantize" /\ jobs' = Enqueued
  <2>1. \A f \in ReadFiles : Usable(f)
    BY <1>2, <1>6, <1>7 DEF Rounds, ReadFiles
  <2>2. \A f \in ReadFiles' : Usable(f)'
    BY <1>3, <2>1 DEF ReadFiles
  <2>3. Rounds'
    BY <1>1, <1>2, <1>3, <1>7, <2>2, EnqueuedFiles DEF Rounds
  <2> QED
    BY <1>3, <1>4, <1>5, <2>3 DEF FilesInv
<1>8. CASE JobsSucceeded /\ pc = "quantize" /\ pc' = "done" /\ jobs' = jobs /\ savedIndex' = FinalIndex
  <2>1. \A f \in ReadFiles' : Usable(f)'
    BY <1>2, <1>3, <1>8 DEF Rounds, ReadFiles
  <2>2. Rounds'
    BY <1>1, <1>2, <1>3, <1>4, <1>6, <1>8, <2>1 DEF Rounds
  <2> QED
    BY <1>3, <1>4, <1>5, <2>2 DEF FilesInv
<1>9. CASE pc' = "raised" /\ jobs' = jobs
  <2>1. SomethingSaved => \A f \in ReadFiles' : Usable(f)'
    BY <1>2, <1>3 DEF Rounds, ReadFiles
  <2>2. Rounds'
    BY <1>2, <1>3, <1>4, <1>9, <2>1 DEF Rounds
  <2> QED
    BY <1>3, <1>4, <1>5, <2>2 DEF FilesInv
<1> QED
  BY <1>1, <1>7, <1>8, <1>9

LEMMA FilesInvHolds == Spec => []FilesInv
<1>1. FilesInv /\ [Next]_vars => FilesInv'
  <2> SUFFICES ASSUME FilesInv, [Next]_vars PROVE FilesInv'
    OBVIOUS
  <2>1. CASE UNCHANGED vars
    <3>1. /\ UNCHANGED <<input, pc, position, carry, weightMap, writers, disk, index, jobs>>
          /\ UNCHANGED <<saved, savedIndex, failures>>
      BY <2>1 DEF vars, reindexVars, saveVars
    <3>2. (Typed /\ Shards /\ Split => Typed' /\ Shards' /\ Split') /\ Source' = Source
      BY <3>1 DEF Typed, Shards, Split, Tensors, Source
    <3>3. Writing /\ Stored => Writing' /\ Stored'
      BY <3>1, <3>2 DEF Writing, Stored, HasFile, Dropped, SomethingSaved, ReadFiles, Tensors
    <3>4. /\ SomethingSaved' <=> SomethingSaved
          /\ IndexValid' <=> IndexValid
          /\ ReadFiles' = ReadFiles /\ FinalIndex' = FinalIndex
          /\ \A f : Usable(f)' <=> Usable(f)
      BY <3>1 DEF SomethingSaved, IndexValid, Content, ReadFiles, FinalIndex, Usable, Targeted
    <3>5. Rounds => Rounds'
      BY <3>1, <3>4 DEF Rounds
    <3>6. \A S, n : ScaleGroup(S, n)' = ScaleGroup(S, n)
      BY <3>1 DEF ScaleGroup, Targeted
    <3>7. Written => Written'
      BY <3>1, <3>6 DEF Written
    <3> QED
      BY <3>2, <3>3, <3>5, <3>7 DEF FilesInv
  <2>2. CASE ReindexFile
    BY <2>2, ReindexFileStep
  <2>3. CASE NothingToReindex \/ WriteIndex \/ ReindexEnd
    BY <2>3, IndexStep
  <2>4. CASE \E w \in writers : WriterSaves(w)
    BY <2>4, WriterStep
  <2>5. CASE ValidateSafetensorsIndex
    BY <2>5, ValidateIndexStep
  <2>6. CASE ValidationEnds \/ QuantizationEnds
    BY <2>6, RoundEnds
  <2>7. CASE \E f \in Files : StartJob(f) \/ ValidateFile(f) \/ ProcessFile(f)
    BY <2>7, JobStep, ProcessFileStep
  <2> QED
    BY <2>1, <2>2, <2>3, <2>4, <2>5, <2>6, <2>7 DEF Next
<1> QED
  BY InitFiles, <1>1, PTL DEF Spec

-----------------------------------------------------------------------------
(* Fused sets and files                                                      *)

LEMMA FusedSetOf ==
  ASSUME NEW n \in Names
  PROVE  /\ \A m \in FusedMappings :
              n.role \in m => FusedWith(n) = {[layer |-> n.layer, role |-> r] : r \in m}
         /\ FusedWith(n) # {} => \E m \in FusedMappings : n.role \in m
<1>1. ASSUME NEW m \in FusedMappings, n.role \in m
      PROVE  FusedWith(n) = {[layer |-> n.layer, role |-> r] : r \in m}
  <2>1. {f \in FusedMappings : n.role \in f} = {m}
    BY <1>1, ModelFreeAssumption
  <2>2. UNION {f \in FusedMappings : n.role \in f} = m
    BY <2>1
  <2> QED
    BY <2>2 DEF FusedWith
<1> QED
  BY <1>1 DEF FusedWith

(* The members of a complete fused set are in it together.                   *)
LEMMA FusedTogether ==
  ASSUME Complete, Tensors \subseteq Names, NEW n \in Tensors
  PROVE  /\ FusedWith(n) # {} => n \in FusedWith(n)
         /\ \A x \in FusedWith(n) :
              /\ x \in Tensors /\ x.layer = n.layer /\ n \in FusedWith(n)
              /\ FusedWith(x) = FusedWith(n)
              /\ \A m \in FusedMappings : n.role \in m <=> x.role \in m
<1>1. ASSUME NEW x \in FusedWith(n)
      PROVE  /\ x \in Tensors /\ x.layer = n.layer /\ n \in FusedWith(n)
             /\ FusedWith(x) = FusedWith(n)
             /\ \A m \in FusedMappings : n.role \in m <=> x.role \in m
  <2>1. x \in Tensors
    BY <1>1 DEF Complete
  <2>2. PICK m \in FusedMappings : n.role \in m
    BY <1>1, FusedSetOf
  <2>3. FusedWith(n) = {[layer |-> n.layer, role |-> r] : r \in m}
    BY <2>2, FusedSetOf
  <2>4. x.layer = n.layer /\ x.role \in m
    BY <1>1, <2>3
  <2>5. FusedWith(x) = {[layer |-> x.layer, role |-> r] : r \in m}
    BY <2>1, <2>2, <2>4, FusedSetOf
  <2>6. n \in FusedWith(n)
    BY <2>2, <2>3, NamesAreRecords
  <2>7. \A f \in FusedMappings : f # m => n.role \notin f /\ x.role \notin f
    BY <2>2, <2>4, ModelFreeAssumption
  <2> QED
    BY <2>1, <2>2, <2>3, <2>4, <2>5, <2>6, <2>7
<1> QED
  BY <1>1

(* The checkpoint's tensors are listed layer by layer.                       *)
IsListed ==
  \E order \in LayerOrders : \A a, b \in Tensors :
    ListedBefore(order, a, b) => input.place[a] <= input.place[b]

LaidOut == Tensors \subseteq Names /\ input.place \in [Tensors -> Files] /\ IsListed

LEMMA ListedByLayer ==
  ASSUME NEW order \in LayerOrders, NEW a \in Names, NEW b \in Names
  PROVE  /\ a.layer = b.layer /\ RoleRank(a.role) < RoleRank(b.role) => ListedBefore(order, a, b)
         /\ a.layer # b.layer =>
              \/ \A c, d \in Names : c.layer = a.layer /\ d.layer = b.layer => ListedBefore(order, c, d)
              \/ \A c, d \in Names : c.layer = a.layer /\ d.layer = b.layer => ListedBefore(order, d, c)
<1> DEFINE Rank(l) == CHOOSE i \in DOMAIN order : order[i] = l
<1>1. DOMAIN order \subseteq Nat
  BY NamesAssumption
<1>2. ASSUME NEW c \in Names PROVE Rank(c.layer) \in Nat /\ order[Rank(c.layer)] = c.layer
  <2>1. \E i \in DOMAIN order : order[i] = c.layer
    BY NamesAssumption DEF Range
  <2> QED
    BY <1>1, <2>1
<1>3. \A c, d : ListedBefore(order, c, d)
        <=> \/ Rank(c.layer) < Rank(d.layer)
            \/ c.layer = d.layer /\ RoleRank(c.role) < RoleRank(d.role)
  BY DEF ListedBefore
<1> HIDE DEF Rank
<1>4. a.layer # b.layer => Rank(a.layer) < Rank(b.layer) \/ Rank(b.layer) < Rank(a.layer)
  BY <1>2
<1> QED
  BY <1>3, <1>4

(* What is in the first p files.                                             *)
Reached(p) == {n \in Tensors : input.place[n] <= p}

(* Of the layer that the file p cuts the names so far have the first roles.  *)
LEMMA FilesCutOneSet ==
  ASSUME LaidOut, Complete, NEW p \in Nat, NEW T \in SUBSET Reached(p),
         \A n \in T : FusedWith(n) \cap Reached(p) \subseteq T, NEW m \in FusedMappings
  PROVE  /\ IsCut(T, m)
         /\ \A n \in Members(T, m) :
              /\ InLayerOf(T, m, n) = FusedWith(n) \cap Reached(p)
              /\ IsFull(T, m, n) <=> FusedWith(n) \subseteq Reached(p)
<1>1. PICK order \in LayerOrders : \A a, b \in Tensors :
        ListedBefore(order, a, b) => input.place[a] <= input.place[b]
  BY DEF LaidOut, IsListed
<1>2. \A n \in Tensors : n \in Names /\ input.place[n] \in Nat
  BY FilesAreNumbers DEF LaidOut
<1>3. \A n \in Members(T, m) :
        /\ n \in Tensors /\ n \in Names /\ n \in T /\ n.role \in m /\ input.place[n] <= p
        /\ FusedWith(n) = {[layer |-> n.layer, role |-> r] : r \in m}
        /\ FusedWith(n) \subseteq Tensors
  BY <1>2, FusedSetOf DEF Members, Reached, Complete
<1>4. ASSUME NEW n \in Members(T, m)
      PROVE  /\ InLayerOf(T, m, n) = FusedWith(n) \cap Reached(p)
             /\ IsFull(T, m, n) <=> FusedWith(n) \subseteq Reached(p)
  <2>1. FusedWith(n) = {[layer |-> n.layer, role |-> r] : r \in m} /\ FusedWith(n) \cap Reached(p) \subseteq T
    BY <1>3
  <2>2. ASSUME NEW x \in InLayerOf(T, m, n) PROVE x \in FusedWith(n) \cap Reached(p)
    <3>1. x \in Names /\ x.layer = n.layer /\ x.role \in m /\ x \in Reached(p)
      BY <1>3 DEF InLayerOf, Members
    <3> QED
      BY <2>1, <3>1, NamesAreRecords
  <2>3. ASSUME NEW x \in FusedWith(n) \cap Reached(p) PROVE x \in InLayerOf(T, m, n)
    BY <2>1, <2>3 DEF InLayerOf, Members
  <2>4. InLayerOf(T, m, n) = FusedWith(n) \cap Reached(p)
    BY <2>2, <2>3
  <2>5. ASSUME FusedWith(n) \subseteq Reached(p) PROVE RolesOf(InLayerOf(T, m, n)) = m
    <3>1. InLayerOf(T, m, n) = {[layer |-> n.layer, role |-> r] : r \in m}
      BY <2>1, <2>4, <2>5
    <3>2. \A x \in InLayerOf(T, m, n) : x.role \in m
      BY <3>1
    <3>3. \A r \in m : \E x \in InLayerOf(T, m, n) : x.role = r
      <4> SUFFICES ASSUME NEW r \in m PROVE \E x \in InLayerOf(T, m, n) : x.role = r
        OBVIOUS
      <4>1. [layer |-> n.layer, role |-> r] \in InLayerOf(T, m, n)
        BY <3>1
      <4> QED
        BY <4>1
    <3> QED
      BY <3>2, <3>3 DEF RolesOf
  <2>6. ASSUME RolesOf(InLayerOf(T, m, n)) = m, NEW x \in FusedWith(n) PROVE x \in Reached(p)
    <3>1. x.role \in m /\ x.layer = n.layer /\ x \in Names
      BY <1>2, <1>3, <2>1, <2>6
    <3>2. PICK y \in InLayerOf(T, m, n) : y.role = x.role
      BY <2>6, <3>1 DEF RolesOf
    <3>3. y = x
      BY <1>3, <3>1, <3>2, NamesAreRecords DEF InLayerOf
    <3> QED
      BY <2>4, <3>2, <3>3
  <2> QED
    BY <2>4, <2>5, <2>6 DEF IsFull
<1>5. ASSUME NEW n \in Members(T, m), NEW r \in m, RoleRank(r) < RoleRank(n.role)
      PROVE  [layer |-> n.layer, role |-> r] \in T
  <2>1. PICK x \in FusedWith(n) : x = [layer |-> n.layer, role |-> r]
    BY <1>3
  <2>2. x \in Tensors /\ n \in Tensors /\ x \in Names /\ n \in Names /\ x.layer = n.layer /\ x.role = r
    BY <1>2, <1>3, <2>1
  <2>3. ListedBefore(order, x, n)
    BY <1>5, <2>2, ListedByLayer
  <2>4. input.place[x] <= input.place[n] /\ input.place[n] <= p
    BY <1>1, <1>3, <2>2, <2>3
  <2>5. x \in Reached(p)
    BY <1>2, <2>2, <2>4 DEF Reached
  <2> QED
    BY <1>3, <2>1, <2>5
<1>6. ASSUME NEW x \in Members(T, m), NEW y \in Members(T, m), ~IsFull(T, m, x), ~IsFull(T, m, y)
      PROVE  x.layer = y.layer
  <2>1. PICK a \in FusedWith(x) : a \notin Reached(p)
    BY <1>4, <1>6
  <2>2. PICK b \in FusedWith(y) : b \notin Reached(p)
    BY <1>4, <1>6
  <2>3. /\ a \in Tensors /\ b \in Tensors /\ a \in Names /\ b \in Names
        /\ x \in Tensors /\ y \in Tensors /\ x \in Names /\ y \in Names
        /\ input.place[x] <= p /\ input.place[y] <= p /\ a.layer = x.layer /\ b.layer = y.layer
    BY <1>2, <1>3, <2>1, <2>2
  <2>4. ~(input.place[a] <= input.place[y]) /\ ~(input.place[b] <= input.place[x])
    BY <1>2, <2>1, <2>2, <2>3 DEF Reached
  <2>5. ~ListedBefore(order, a, y) /\ ~ListedBefore(order, b, x)
    BY <1>1, <2>3, <2>4
  <2> QED
    BY <2>3, <2>5, ListedByLayer
<1>7. IsCut(T, m)
  BY <1>5, <1>6 DEF IsCut
<1> QED
  BY <1>4, <1>7

(* So what a file that is not rejected leaves over is what it cut.           *)
LEMMA WhatIsLeftOver ==
  ASSUME LaidOut, Complete, NEW p \in Nat, NEW T \in SUBSET Reached(p),
         \A n \in T : FusedWith(n) \cap Reached(p) \subseteq T, ~MatchedTwice(T)
  PROVE  Unmatched(T) = {n \in T : ~(FusedWith(n) \subseteq Reached(p))}
<1>1. T \in SUBSET Names
  BY DEF LaidOut, Reached
<1>2. ASSUME NEW m \in FusedMappings
      PROVE  MatchNamesSetEager(T, m).open
               = {n \in Members(T, m) : ~(FusedWith(n) \subseteq Reached(p))}
  <2>1. /\ IsCut(T, m)
        /\ \A n \in Members(T, m) : IsFull(T, m, n) <=> FusedWith(n) \subseteq Reached(p)
    BY FilesCutOneSet
  <2>2. ~MatchNamesSetEager(T, m).twice
    BY DEF MatchedTwice
  <2>3. MatchNamesSetEager(T, m).open = {n \in Members(T, m) : ~IsFull(T, m, n)}
    BY <1>1, <2>1, <2>2, MatchingIsByLayer
  <2> QED
    BY <2>1, <2>3
<1>3. ASSUME NEW n \in T PROVE n \in Unmatched(T) <=> ~(FusedWith(n) \subseteq Reached(p))
  <2>1. n \in Unmatched(T) <=> \E m \in FusedMappings : n \in MatchNamesSetEager(T, m).open
    BY DEF Unmatched
  <2>2. ~(FusedWith(n) \subseteq Reached(p)) => \E m \in FusedMappings : n \in Members(T, m)
    BY <1>1, FusedSetOf DEF Members
  <2> QED
    BY <1>2, <2>1, <2>2
<1> QED
  BY <1>3 DEF Unmatched

-----------------------------------------------------------------------------
(* Fused sets stay together                                                  *)

(* A map names one file for the members of a fused set.                      *)
IsGrouped(map) ==
  \A n \in DOMAIN map : \A x \in FusedWith(n) : x \in DOMAIN map /\ map[x] = map[n]

(* What reindex_fused_weights carries over is what it has passed of the sets *)
(* it has not passed as a whole.                                             *)
Grouped ==
  /\ LaidOut
  /\ index = None \/ index = input.place \/ (index = weightMap /\ pc # "reindex")
  /\ Complete =>
       /\ carry = {n \in Reached(position - 1) : ~(FusedWith(n) \subseteq Reached(position - 1))}
       /\ IsGrouped(weightMap)
       /\ pc \notin {"reindex", "raised"} => carry = {}

LEMMA InitGrouped == Init => Grouped
<1> SUFFICES ASSUME Init PROVE Grouped
  OBVIOUS
<1>1. PICK place \in Placements, ignored \in Ignores, malformed \in Malformed,
           microscale \in BOOLEAN, reindex \in BOOLEAN :
       /\ input = [place |-> place, ignored |-> ignored,
                   malformed |-> malformed, microscale |-> microscale]
       /\ index = (IF Cardinality(Range(place)) > 1 THEN place ELSE None)
       /\ pc = (IF reindex THEN "reindex" ELSE "validate index")
  BY DEF Init
<1>2. PICK S \in Checkpoints : /\ place \in [S -> Files]
                              /\ \E o \in LayerOrders : \A a, b \in S :
                                   ListedBefore(o, a, b) => place[a] <= place[b]
  BY DEF Placements
<1>3. Tensors = S /\ S \subseteq Names
  BY <1>1, <1>2, ModelFreeAssumption DEF Tensors
<1>4. LaidOut
  BY <1>1, <1>2, <1>3 DEF LaidOut, IsListed
<1>5. position = 1 /\ carry = {} /\ weightMap = <<>>
  BY DEF Init
<1>6. Reached(position - 1) = {}
  <2>1. \A n \in Tensors : input.place[n] \in Nat /\ 1 <= input.place[n]
    BY <1>4, FilesAreNumbers DEF LaidOut
  <2> QED
    BY <1>5, <2>1 DEF Reached
<1>7. IsGrouped(weightMap)
  BY <1>5 DEF IsGrouped
<1> QED
  BY <1>1, <1>4, <1>5, <1>6, <1>7 DEF Grouped

(* reindex_fused_weights adds whole sets to the index.                       *)
LEMMA ReindexFileGroups ==
  ASSUME Typed, Split, Grouped, ReindexFile
  PROVE  Grouped'
<1> DEFINE tensors == Content(input.place, position) \cup carry
           kept == tensors \ Unmatched(tensors)
           before == Reached(position - 1)
           now == Reached(position)
<1>1. pc = "reindex" /\ UNCHANGED <<input, index>>
  BY DEF ReindexFile
<1>2. LaidOut' /\ Tensors' = Tensors /\ (Complete' <=> Complete) /\ \A p : Reached(p)' = Reached(p)
  BY <1>1 DEF Grouped, LaidOut, IsListed, Tensors, Complete, Reached
<1>3. index = None \/ index = input.place
  BY <1>1 DEF Grouped
<1>4. CASE MatchedTwice(tensors)
  <2>1. pc' = "raised" /\ UNCHANGED reindexVars
    BY <1>4 DEF ReindexFile, Raise
  <2> QED
    BY <1>1, <1>2, <1>3, <2>1 DEF Grouped, reindexVars
<1>5. CASE ~MatchedTwice(tensors)
  <2>1. /\ carry' = Unmatched(tensors) /\ position' = position + 1 /\ pc' = pc
        /\ weightMap' = [n \in kept \cup DOMAIN weightMap |->
                           IF n \in kept THEN position ELSE weightMap[n]]
    BY <1>5 DEF ReindexFile
  <2>2. ASSUME Complete
        PROVE  /\ carry' = {n \in now : ~(FusedWith(n) \subseteq now)}
               /\ IsGrouped(weightMap')
    <3>1. /\ carry = {n \in before : ~(FusedWith(n) \subseteq before)}
          /\ IsGrouped(weightMap) /\ position \in Nat /\ position - 1 \in Nat
      <4>1. position \in Nat \ {0}
        BY DEF Typed
      <4>2. position - 1 \in Nat
        BY <4>1
      <4> QED
        BY <2>2, <4>1, <4>2 DEF Grouped
    <3>2. \A n \in Tensors : input.place[n] \in Nat /\ (n \in now <=> n \in before \/ input.place[n] = position)
      <4>1. \A n \in Tensors : input.place[n] \in Nat
        BY FilesAreNumbers DEF Typed
      <4>2. \A n \in Tensors : input.place[n] <= position <=> input.place[n] <= position - 1 \/ input.place[n] = position
        BY <3>1, <4>1
      <4> QED
        BY <4>1, <4>2 DEF Reached
    <3>3. now \subseteq Tensors /\ before \subseteq Tensors
      BY DEF Reached
    <3>4. \A n \in Tensors :
            n \in tensors
              <=> (input.place[n] = position \/ (n \in before /\ ~(FusedWith(n) \subseteq before)))
      BY <3>1 DEF Content, Tensors
    <3>5. tensors \in SUBSET now
      BY <3>1, <3>2, <3>3, <3>4 DEF Content, Tensors
    <3>6. Tensors \subseteq Names
      BY DEF Typed
    <3>7. ASSUME NEW n \in tensors, NEW x \in FusedWith(n), x \in now PROVE x \in tensors
      <4>1. n \in Tensors /\ x \in Tensors /\ FusedWith(x) = FusedWith(n) /\ n \in FusedWith(n)
        BY <2>2, <3>3, <3>5, <3>6, <3>7, FusedTogether
      <4>2. n \notin before \/ ~(FusedWith(n) \subseteq before)
        <5>1. CASE input.place[n] = position
          BY <3>1, <4>1, <5>1 DEF Reached
        <5>2. CASE input.place[n] # position
          BY <3>4, <4>1, <5>2
        <5> QED
          BY <5>1, <5>2
      <4>3. ~(FusedWith(x) \subseteq before)
        BY <4>1, <4>2
      <4> QED
        BY <3>2, <3>4, <3>7, <4>1, <4>3
    <3>8. Unmatched(tensors) = {n \in tensors : ~(FusedWith(n) \subseteq now)}
      <4>1. \A n \in tensors : FusedWith(n) \cap now \subseteq tensors
        BY <3>7
      <4> HIDE DEF tensors
      <4> QED
        BY <1>5, <2>2, <3>1, <3>5, <4>1, WhatIsLeftOver DEF Grouped
    <3>9. \A n \in now : ~(FusedWith(n) \subseteq now) => n \in tensors
      <4>1. before \subseteq now
        BY <3>2, <3>3
      <4> QED
        BY <3>2, <3>3, <3>4, <4>1
    <3>10. carry' = {n \in now : ~(FusedWith(n) \subseteq now)}
      BY <2>1, <3>5, <3>8, <3>9
    <3>11. kept = {n \in tensors : FusedWith(n) \subseteq now}
      BY <3>8
    <3>12. kept \cap DOMAIN weightMap = {}
      <4>1. \A n \in DOMAIN weightMap : n \in before /\ n \notin carry
        <5>1. \A n \in DOMAIN weightMap : n \in Tensors /\ input.place[n] < position
          BY DEF Split
        <5>2. \A n \in DOMAIN weightMap : n \in before
          BY <3>1, <3>2, <5>1 DEF Reached
        <5> QED
          BY <5>2 DEF Split
      <4>2. \A n \in Content(input.place, position) : n \notin before
        BY <3>1, <3>2 DEF Reached, Content
      <4> QED
        BY <4>1, <4>2
    <3> HIDE DEF kept, tensors
    <3>13. ASSUME NEW n \in DOMAIN weightMap', NEW x \in FusedWith(n)
           PROVE  x \in DOMAIN weightMap' /\ weightMap'[x] = weightMap'[n]
      <4>1. CASE n \in kept
        <5>1. x \in tensors /\ n \in Tensors
          BY <3>3, <3>5, <3>7, <3>11, <3>13, <4>1
        <5>2. FusedWith(x) = FusedWith(n)
          BY <2>2, <3>6, <3>13, <5>1, FusedTogether
        <5>3. x \in kept
          BY <3>11, <4>1, <5>1, <5>2
        <5> QED
          BY <2>1, <4>1, <5>3
      <4>2. CASE n \notin kept
        <5>1. n \in DOMAIN weightMap
          BY <2>1, <4>2
        <5>2. x \in DOMAIN weightMap /\ weightMap[x] = weightMap[n]
          BY <3>1, <3>13, <5>1 DEF IsGrouped
        <5>3. x \notin kept
          BY <3>12, <5>2
        <5> QED
          BY <2>1, <4>2, <5>1, <5>2, <5>3
      <4> QED
        BY <4>1, <4>2
    <3> QED
      BY <3>10, <3>13 DEF IsGrouped
  <2>3. position' - 1 = position
    <3>1. position \in Nat /\ position' = position + 1
      BY <2>1 DEF Typed
    <3> QED
      BY <3>1
  <2> QED
    BY <1>1, <1>2, <1>3, <2>1, <2>2, <2>3 DEF Grouped
<1> QED
  BY <1>4, <1>5

(* When the last file has been passed nothing is left over.                  *)
LEMMA WriteIndexGroups ==
  ASSUME Typed, Shards, Grouped, WriteIndex
  PROVE  Grouped'
<1>1. /\ pc = "reindex" /\ index # None /\ position > LastFile /\ index' = weightMap /\ pc' = "shutdown"
      /\ UNCHANGED <<input, position, carry, weightMap>>
  BY DEF WriteIndex, reindexVars
<1>2. LaidOut' /\ Tensors' = Tensors /\ (Complete' <=> Complete) /\ \A p : Reached(p)' = Reached(p)
  BY <1>1 DEF Grouped, LaidOut, IsListed, Tensors, Complete, Reached
<1>3. Reached(position - 1) = Tensors
  <2>1. LastFile \in Nat /\ Range(input.place) = 1 .. LastFile /\ position \in Nat
    BY <1>1, LastIsFile, FilesAreNumbers DEF Typed
  <2>2. \A n \in Tensors : input.place[n] \in 1 .. LastFile
    BY <2>1 DEF Range, Tensors
  <2>3. \A n \in Tensors : input.place[n] <= position - 1
    BY <1>1, <2>1, <2>2
  <2> QED
    BY <2>3 DEF Reached
<1>4. Complete => carry = {}
  BY <1>3 DEF Grouped, Complete
<1> QED
  BY <1>1, <1>2, <1>4 DEF Grouped

LEMMA GroupedHolds == Spec => []Grouped
<1>1. Typed /\ Shards /\ Split /\ Grouped /\ [Next]_vars => Grouped'
  <2> SUFFICES ASSUME Typed, Shards, Split, Grouped, [Next]_vars PROVE Grouped'
    OBVIOUS
  <2>1. CASE ReindexFile
    BY <2>1, ReindexFileGroups
  <2>2. CASE WriteIndex
    BY <2>2, WriteIndexGroups
  <2>3. CASE /\ UNCHANGED <<input, position, carry, weightMap, index>>
             /\ pc = "reindex" => pc' \in {"reindex", "raised"}
             /\ pc # "reindex" => pc' # "reindex"
             /\ pc = "raised" => pc' = "raised"
    <3>1. LaidOut' /\ Tensors' = Tensors /\ (Complete' <=> Complete) /\ \A p : Reached(p)' = Reached(p)
      BY <2>3 DEF Grouped, LaidOut, IsListed, Tensors, Complete, Reached
    <3>2. Complete /\ pc' \notin {"reindex", "raised"} => carry = {}
      BY <2>3 DEF Grouped
    <3>3. Reached(position - 1)' = Reached(position - 1) /\ (IsGrouped(weightMap)' <=> IsGrouped(weightMap))
      BY <2>3, <3>1 DEF IsGrouped, Reached
    <3>4. index' = None \/ index' = input'.place \/ (index' = weightMap' /\ pc' # "reindex")
      BY <2>3 DEF Grouped
    <3>5. Complete' =>
            /\ carry' = {n \in Reached(position - 1)' : ~(FusedWith(n) \subseteq Reached(position - 1)')}
            /\ IsGrouped(weightMap)' /\ (pc' \notin {"reindex", "raised"} => carry' = {})
      BY <2>3, <3>1, <3>2, <3>3 DEF Grouped
    <3> QED
      BY <3>1, <3>4, <3>5 DEF Grouped
  <2>4. CASE UNCHANGED vars
    BY <2>3, <2>4 DEF vars, reindexVars
  <2>5. CASE NothingToReindex \/ ReindexEnd \/ \E w \in writers : WriterSaves(w)
    BY <2>3, <2>5 DEF NothingToReindex, ReindexEnd, WriterSaves, Raise, reindexVars
  <2>6. CASE ValidateSafetensorsIndex \/ ValidationEnds \/ QuantizationEnds
    BY <2>3, <2>6 DEF ValidateSafetensorsIndex, ValidationEnds, QuantizationEnds, Raise, reindexVars
  <2>7. CASE \E f \in Files : StartJob(f) \/ ValidateFile(f) \/ ProcessFile(f)
    BY <2>3, <2>7 DEF StartJob, ValidateFile, ProcessFile, reindexVars
  <2> QED
    BY <2>1, <2>2, <2>4, <2>5, <2>6, <2>7 DEF Next
<1>2. FilesInv => Typed /\ Shards /\ Split
  BY DEF FilesInv
<1> QED
  BY InitGrouped, FilesInvHolds, <1>1, <1>2, PTL DEF Spec

-----------------------------------------------------------------------------
(* What the scales of a fused set are computed from                          *)

(* When no file of a checkpoint is rejected none cuts a set: the first that  *)
(* did would have left it open.                                              *)
LEMMA ValidFilesAreGrouped ==
  ASSUME LaidOut, Complete, \A f \in Files : Valid(Content(input.place, f))
  PROVE  IsGrouped(input.place)
<1> DEFINE Whole == {p \in 0 .. NumFiles : \A n \in Reached(p) : FusedWith(n) \subseteq Reached(p)}
<1>1. \A n \in Tensors : input.place[n] \in 1 .. NumFiles /\ input.place[n] \in Nat /\ n \in Names
  BY ModelFreeAssumption DEF LaidOut, Files
<1>2. NumFiles \in Nat /\ Tensors \subseteq Names
  BY ModelFreeAssumption DEF LaidOut
<1>3. 0 \in Whole
  <2>1. Reached(0) = {} /\ 0 \in 0 .. NumFiles
    BY <1>1, <1>2 DEF Reached
  <2> QED
    BY <2>1
<1>4. ASSUME NEW p \in 0 .. NumFiles, p \in Whole, p < NumFiles PROVE p + 1 \in Whole
  <2> DEFINE T == Content(input.place, p + 1)
  <2>1. p + 1 \in Files /\ p + 1 \in 0 .. NumFiles /\ p + 1 \in Nat /\ p \in Nat
    BY <1>2, <1>4 DEF Files
  <2>2. \A n \in Tensors : /\ n \in T <=> input.place[n] = p + 1
                           /\ n \in Reached(p + 1) <=> n \in Reached(p) \/ n \in T
                           /\ n \in T => n \notin Reached(p)
    <3>1. \A n \in Tensors : n \in T <=> input.place[n] = p + 1
      BY DEF Content, Tensors
    <3>2. \A n \in Tensors : /\ input.place[n] <= p + 1 <=> input.place[n] <= p \/ input.place[n] = p + 1
                             /\ input.place[n] = p + 1 => ~(input.place[n] <= p)
      BY <1>1, <2>1
    <3> QED
      BY <3>1, <3>2 DEF Reached
  <2>3. T \subseteq Tensors /\ Reached(p) \subseteq Tensors /\ Reached(p + 1) \subseteq Tensors
    BY DEF Content, Reached, Tensors
  <2>4. \A n \in Reached(p) : FusedWith(n) \subseteq Reached(p)
    BY <1>4
  <2>5. ASSUME NEW n \in T, NEW x \in FusedWith(n), x \in Reached(p + 1) PROVE x \in T
    <3>1. x \in Tensors /\ n \in FusedWith(x) /\ n \in Tensors
      BY <1>2, <2>3, <2>5, FusedTogether
    <3>2. x \notin Reached(p)
      BY <2>2, <2>4, <2>5, <3>1
    <3> QED
      BY <2>2, <2>5, <3>1, <3>2
  <2>6. ~MatchedTwice(T) /\ Unmatched(T) = {}
    BY <2>1 DEF Valid
  <2>7. T \in SUBSET Reached(p + 1)
    BY <2>2, <2>3
  <2>8. \A n \in T : FusedWith(n) \cap Reached(p + 1) \subseteq T
    BY <2>5
  <2> HIDE DEF T
  <2>9. \A n \in T : FusedWith(n) \subseteq Reached(p + 1)
    BY <2>1, <2>6, <2>7, <2>8, WhatIsLeftOver
  <2>10. \A n \in Reached(p + 1) : FusedWith(n) \subseteq Reached(p + 1)
    BY <2>2, <2>3, <2>4, <2>9
  <2> QED
    BY <2>1, <2>10
<1>5. \A p \in 0 .. NumFiles : \A n \in Reached(p) : FusedWith(n) \subseteq Reached(p)
  <2>1. 0 .. NumFiles \subseteq Whole
    <3> HIDE DEF Whole
    <3> QED
      BY <1>2, <1>3, <1>4, UpToN
  <2> QED
    BY <2>1
<1>6. ASSUME NEW n \in Tensors, NEW x \in FusedWith(n) PROVE input.place[x] <= input.place[n]
  <2>1. n \in Reached(input.place[n]) /\ input.place[n] \in 0 .. NumFiles
    BY <1>1, <1>2 DEF Reached
  <2>2. x \in Reached(input.place[n])
    BY <1>5, <1>6, <2>1
  <2> QED
    BY <2>2 DEF Reached
<1>7. ASSUME NEW n \in Tensors, NEW x \in FusedWith(n)
      PROVE  x \in Tensors /\ input.place[x] = input.place[n]
  <2>1. x \in Tensors /\ n \in FusedWith(x)
    BY <1>2, <1>7, FusedTogether
  <2>2. input.place[x] <= input.place[n] /\ input.place[n] <= input.place[x]
    BY <1>6, <1>7, <2>1
  <2> QED
    BY <1>1, <2>1, <2>2
<1> QED
  BY <1>7 DEF IsGrouped, Tensors

(* In a file that holds whole sets these are the sets found.                 *)
LEMMA WholeSetsAreFound ==
  ASSUME LaidOut, Complete, NEW S \in SUBSET Tensors, \A n \in S : FusedWith(n) \subseteq S
  PROVE  FusedSets(S) = {FusedWith(n) : n \in {x \in S : FusedWith(x) # {}}}
<1>1. S \in SUBSET Names /\ Tensors \subseteq Names
  BY DEF LaidOut
<1>2. \A n \in Tensors : input.place[n] <= NumFiles /\ NumFiles \in Nat
  BY ModelFreeAssumption DEF LaidOut, Files
<1>3. Reached(NumFiles) = Tensors
  BY <1>2 DEF Reached
<1>4. ASSUME NEW m \in FusedMappings
      PROVE  MatchNamesSetEager(S, m).matched = {FusedWith(n) : n \in Members(S, m)}
  <2> DEFINE T == Reached(NumFiles)
             layer(n) == InLayerOf(S, m, n)
  <2>1. ASSUME NEW n \in Members(S, m) PROVE layer(n) = FusedWith(n) /\ IsFull(S, m, n)
    <3>1. n \in S /\ n.role \in m /\ n \in Names
      BY <1>1 DEF Members
    <3>2. FusedWith(n) = {[layer |-> n.layer, role |-> r] : r \in m} /\ FusedWith(n) \subseteq S
      BY <3>1, FusedSetOf
    <3>3. ASSUME NEW x \in layer(n) PROVE x \in FusedWith(n)
      <4>1. x \in Names /\ x.layer = n.layer /\ x.role \in m
        BY <1>1 DEF InLayerOf, Members
      <4> QED
        BY <3>2, <4>1, NamesAreRecords
    <3>4. ASSUME NEW x \in FusedWith(n) PROVE x \in layer(n)
      BY <3>2, <3>4 DEF InLayerOf, Members
    <3>5. layer(n) = FusedWith(n)
      BY <3>3, <3>4
    <3>6. \A x \in layer(n) : x.role \in m
      BY DEF InLayerOf, Members
    <3>7. ASSUME NEW r \in m PROVE \E x \in layer(n) : x.role = r
      <4>1. [layer |-> n.layer, role |-> r] \in layer(n)
        BY <3>2, <3>5
      <4> QED
        BY <4>1
    <3>8. IsFull(S, m, n)
      BY <3>6, <3>7 DEF IsFull, RolesOf
    <3> QED
      BY <3>5, <3>8
  <2>2. IsCut(S, m)
    <3>1. ASSUME NEW n \in Members(S, m), NEW r \in m PROVE [layer |-> n.layer, role |-> r] \in S
      <4>1. n \in S /\ n.role \in m /\ n \in Names
        BY <1>1 DEF Members
      <4>2. FusedWith(n) = {[layer |-> n.layer, role |-> q] : q \in m} /\ FusedWith(n) \subseteq S
        BY <4>1, FusedSetOf
      <4> QED
        BY <4>2
    <3> QED
      BY <2>1, <3>1 DEF IsCut
  <2>3. MatchNamesSetEager(S, m).matched
          = {InLayerOf(S, m, n) : n \in {x \in Members(S, m) : IsFull(S, m, x)}}
    BY <1>1, <2>1, <2>2, MatchingIsByLayer
  <2> QED
    BY <2>1, <2>3
<1>5. ASSUME NEW n \in S PROVE FusedWith(n) # {} <=> \E m \in FusedMappings : n \in Members(S, m)
  <2>1. n \in Names
    BY <1>1
  <2>2. ASSUME NEW m \in FusedMappings, n.role \in m PROVE FusedWith(n) # {}
    <3>1. FusedWith(n) = {[layer |-> n.layer, role |-> r] : r \in m}
      BY <2>1, <2>2, FusedSetOf
    <3>2. [layer |-> n.layer, role |-> n.role] \in FusedWith(n)
      BY <2>2, <3>1
    <3> QED
      BY <3>2
  <2> QED
    BY <2>1, <2>2, FusedSetOf DEF Members
<1>6. \A m : Members(S, m) \subseteq S
  BY DEF Members
<1>7. ASSUME NEW set PROVE set \in FusedSets(S) <=> \E n \in S : FusedWith(n) # {} /\ set = FusedWith(n)
  <2>1. ASSUME set \in FusedSets(S) PROVE \E n \in S : FusedWith(n) # {} /\ set = FusedWith(n)
    <3>1. PICK m \in FusedMappings : set \in MatchNamesSetEager(S, m).matched
      BY <2>1 DEF FusedSets
    <3>2. PICK n \in Members(S, m) : set = FusedWith(n)
      BY <1>4, <3>1
    <3> QED
      BY <1>5, <1>6, <3>2
  <2>2. ASSUME NEW n \in S, FusedWith(n) # {}, set = FusedWith(n) PROVE set \in FusedSets(S)
    <3>1. PICK m \in FusedMappings : n \in Members(S, m)
      BY <1>5, <2>2
    <3>2. set \in MatchNamesSetEager(S, m).matched
      BY <1>4, <2>2, <3>1
    <3> QED
      BY <3>2 DEF FusedSets
  <2> QED
    BY <2>1, <2>2
<1> QED
  BY <1>7

-----------------------------------------------------------------------------
(* The theorems                                                              *)

(* Nothing is written for a checkpoint that has an unusable tensor or an     *)
(* incomplete fused set in any of its files: the index vouches for the files *)
(* of a checkpoint with several, the job itself for the only one.            *)
THEOREM ValidationGuardsWrites == Spec => []NothingWrittenUnlessValid
<1>1. FilesInv => NothingWrittenUnlessValid
  <2> SUFFICES ASSUME FilesInv, NEW g \in Files, saved[g] # None, NEW f \in ReadFiles
               PROVE  /\ Targeted(disk[f]) \cap input.malformed = {}
                      /\ input.microscale => Valid(disk[f])
    BY DEF NothingWrittenUnlessValid, Valid
  <2>1. SomethingSaved /\ Stored /\ Rounds /\ Written
    BY DEF SomethingSaved, FilesInv
  <2>2. Targeted(disk[f]) \cap input.malformed = {}
    BY <2>1 DEF Rounds, Usable
  <2>3. ASSUME input.microscale, index = None PROVE Valid(disk[f])
    <3>1. f = g
      BY <2>1, <2>3 DEF Stored, Written, ReadFiles
    <3> QED
      BY <2>1, <2>3, <3>1 DEF Written
  <2>4. ASSUME input.microscale, index # None PROVE Valid(disk[f])
    <3>1. disk[f] = Content(index, f)
      BY <2>1, <2>4 DEF Stored, Source, ReadFiles
    <3>2. CASE f \in Range(index)
      BY <2>1, <2>4, <3>1, <3>2 DEF Rounds, IndexValid, Valid
    <3>3. CASE f \notin Range(index)
      <4>1. Content(index, f) = {}
        BY <3>3, Zenon DEF Content, Range
      <4> QED
        BY <3>1, <4>1, EmptyFileIsValid
    <3> QED
      BY <3>2, <3>3
  <2> QED
    BY <2>2, <2>3, <2>4
<1> QED
  BY <1>1, FilesInvHolds, PTL

(* A checkpoint that has been quantized holds every tensor once, in the file *)
(* its index names, unless reindexing left it over or its writer failed.     *)
THEOREM TensorsAreStoredOnce == Spec => []StoredOnce
<1>1. FilesInv => StoredOnce
  <2> SUFFICES ASSUME FilesInv, pc = "done", NEW n \in Tensors \ (carry \cup Dropped)
               PROVE  /\ n \in DOMAIN savedIndex
                      /\ {f \in Files : saved[f] # None /\ n \in DOMAIN saved[f]} = {savedIndex[n]}
                      /\ Quantized(savedIndex[n], n) <=> n \notin input.ignored
    BY DEF StoredOnce
  <2> DEFINE processed == {f \in Files : saved[f] # None}
             p == Source[n]
  <2>1. Typed /\ Writing /\ Stored /\ Rounds /\ Written /\ savedIndex = FinalIndex
    BY DEF FilesInv, Rounds
  <2>2. n \in DOMAIN Source /\ p \in Files
    BY <2>1 DEF Stored, Source, Typed
  <2>3. disk[p] # None
    BY <2>1 DEF Stored, HasFile, Writing
  <2>4. saved[p] # None
    BY <2>1, <2>2, <2>3 DEF Rounds
  <2>5. \A f \in processed : DOMAIN saved[f] = disk[f] /\ (n \in disk[f] <=> f = p)
    <3>1. \A f \in processed : disk[f] = Content(Source, f) /\ DOMAIN saved[f] = disk[f]
      BY <2>1 DEF Written, Stored
    <3>2. \A f : n \in Content(Source, f) <=> f = p
      BY <2>2 DEF Content
    <3> QED
      BY <3>1, <3>2
  <2>6. n \in UNION {DOMAIN saved[f] : f \in processed}
    BY <2>2, <2>4, <2>5
  <2>7. savedIndex[n] = (CHOOSE f \in processed : n \in DOMAIN saved[f]) /\ n \in DOMAIN savedIndex
    BY <2>1, <2>6 DEF FinalIndex
  <2>8. savedIndex[n] = p
    BY <2>2, <2>4, <2>5, <2>7
  <2>9. {f \in Files : saved[f] # None /\ n \in DOMAIN saved[f]} = {p}
    BY <2>2, <2>4, <2>5
  <2>10. saved[p][n] = ScaleGroup(disk[p], n) /\ n \in disk[p]
    <3>1. saved[p] = [m \in disk[p] |-> ScaleGroup(disk[p], m)]
      BY <2>1, <2>2, <2>4 DEF Written
    <3>2. n \in disk[p]
      BY <2>2, <2>4, <2>5
    <3> QED
      BY <3>1, <3>2
  <2>11. saved[p][n] # {} <=> n \notin input.ignored
    BY <2>10 DEF ScaleGroup, Targeted
  <2> QED
    BY <2>2, <2>4, <2>5, <2>7, <2>8, <2>9, <2>10, <2>11 DEF Quantized
<1> QED
  BY <1>1, FilesInvHolds, PTL

(* No tensor is lost: what reindexing has left over when it is done is of    *)
(* sets the checkpoint does not have as a whole.                             *)
THEOREM NothingIsLost == Spec => []NothingLost
<1>1. Grouped /\ StoredOnce => NothingLost
  BY DEF Grouped, NothingLost
<1> QED
  BY <1>1, GroupedHolds, TensorsAreStoredOnce, PTL

(* What match_names_set_eager groups by the order of names alone are the     *)
(* fused sets, in whatever files reindexing or the writer of the checkpoint  *)
(* put them: a file in which it would group others has one set that is cut,  *)
(* and is rejected.                                                          *)
THEOREM FusedScalesAreShared == Spec => []FusedSetsShareScale
<1>1. FilesInv /\ Grouped => FusedSetsShareScale
  <2> SUFFICES ASSUME FilesInv, Grouped, pc = "done", input.microscale, Complete,
                      NEW f \in Files, NEW n \in Tensors, Quantized(f, n), FusedWith(n) # {}
               PROVE  saved[f][n] = FusedWith(n) \ input.ignored
    BY DEF FusedSetsShareScale
  <2> DEFINE S == disk[f]
  <2>1. Typed /\ Shards /\ Stored /\ Rounds /\ Written /\ LaidOut /\ Tensors \subseteq Names
    BY DEF FilesInv, Grouped, LaidOut
  <2>2. saved[f] = [x \in S |-> ScaleGroup(S, x)] /\ S # None /\ n \in S
    BY <2>1 DEF Written, Quantized
  <2>3. S = Content(Source, f)
    BY <2>1, <2>2 DEF Stored
  <2>4. IsGrouped(Source)
    <3>1. CASE index = None
      <4>1. Source = input.place
        BY <3>1 DEF Source
      <4>2. \A a \in Tensors : input.place[a] = 1
        <5>1. PICK c \in 0 .. NumFiles : Range(input.place) = 1 .. c /\ ~(c > 1)
          BY <2>1, <3>1 DEF Shards
        <5>2. \A a \in Tensors : input.place[a] \in 1 .. c
          BY <5>1 DEF Range, Tensors
        <5>3. c \in Nat /\ c <= 1
          BY <5>1, ModelFreeAssumption
        <5> QED
          BY <5>2, <5>3
      <4>3. \A a \in Tensors : FusedWith(a) \subseteq Tensors
        BY DEF Complete
      <4> QED
        BY <4>1, <4>2, <4>3 DEF IsGrouped, Tensors
    <3>2. CASE index # None /\ index = input.place
      <4>1. ASSUME NEW g \in Files PROVE Valid(Content(input.place, g))
        <5>1. CASE g \in Range(index)
          BY <2>1, <3>2, <5>1 DEF Rounds, IndexValid, Valid
        <5>2. CASE g \notin Range(index)
          <6>1. Content(index, g) = {}
            BY <5>2, Zenon DEF Content, Range
          <6> QED
            BY <3>2, <6>1, EmptyFileIsValid
        <5> QED
          BY <5>1, <5>2
      <4>2. IsGrouped(input.place)
        BY <2>1, <4>1, ValidFilesAreGrouped
      <4> QED
        BY <3>2, <4>2 DEF Source
    <3>3. CASE index # None /\ index = weightMap
      BY <3>3 DEF Source, Grouped
    <3> QED
      BY <3>1, <3>2, <3>3 DEF Grouped
  <2>5. DOMAIN Source \subseteq Tensors
    BY <2>1 DEF Source, Typed, Tensors
  <2>6. S \subseteq Tensors /\ \A x \in S : FusedWith(x) \subseteq S
    <3>1. S \subseteq Tensors
      BY <2>3, <2>5 DEF Content
    <3>2. ASSUME NEW x \in S, NEW y \in FusedWith(x) PROVE y \in S
      <4>1. x \in DOMAIN Source /\ Source[x] = f
        BY <2>3, <3>2 DEF Content
      <4>2. y \in DOMAIN Source /\ Source[y] = f
        BY <2>4, <3>2, <4>1 DEF IsGrouped
      <4> QED
        BY <2>3, <4>2 DEF Content
    <3> QED
      BY <3>1, <3>2
  <2>7. saved[f][n] = ScaleGroup(S, n) /\ n \in Targeted(S)
    BY <2>2 DEF Quantized, ScaleGroup
  <2> HIDE DEF S
  <2>8. FusedSets(S) = {FusedWith(x) : x \in {y \in S : FusedWith(y) # {}}}
    BY <2>1, <2>6, WholeSetsAreFound
  <2>9. n \in FusedWith(n) /\ FusedWith(n) \subseteq S /\ FusedWith(n) \in FusedSets(S)
    BY <2>1, <2>2, <2>6, <2>8, FusedTogether
  <2>10. ASSUME NEW x \in FusedWith(n) \ input.ignored PROVE x \in ScaleGroup(S, n)
    BY <2>7, <2>9, <2>10 DEF ScaleGroup, Targeted
  <2>11. ASSUME NEW x \in ScaleGroup(S, n) PROVE x \in FusedWith(n) \ input.ignored
    <3>1. x \in Targeted(S) /\ (x = n \/ \E s \in FusedSets(S) : {x, n} \subseteq s)
      BY <2>11 DEF ScaleGroup
    <3>2. x \notin input.ignored
      BY <3>1 DEF Targeted
    <3>3. ASSUME NEW s \in FusedSets(S), x \in s, n \in s PROVE x \in FusedWith(n)
      <4>1. PICK y \in S : s = FusedWith(y)
        BY <2>8, <3>3
      <4>2. FusedWith(n) = FusedWith(y)
        BY <2>1, <2>6, <3>3, <4>1, FusedTogether
      <4> QED
        BY <3>3, <4>1, <4>2
    <3> QED
      BY <2>9, <3>1, <3>2, <3>3
  <2> QED
    BY <2>7, <2>10, <2>11
<1> QED
  BY <1>1, FilesInvHolds, GroupedHolds, PTL

=============================================================================
