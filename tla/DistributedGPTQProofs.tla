------------------------ MODULE DistributedGPTQProofs ------------------------
(***************************************************************************)
(* GPTQ on any number of ranks, with any model, data and order of events:  *)
(* how the data are divided, and, if all ranks meet the modules alike,     *)
(* what a module is compressed with and that ranks end with the same       *)
(* parameters.  How greedy_bin_packing assigns modules to ranks and how a  *)
(* sum over ranks is computed are left open.                               *)
(***************************************************************************)
EXTENDS DistributedGPTQ, CountingInduction, SequenceTheorems, FiniteSetTheorems, TLAPS

Sequence(s) == s \in Seq(ToSet(s))
OfLength(f, n) == f = [i \in 1 .. n |-> f[i]]

Loading == {"load", "gather"}

Typed ==
  /\ run \in [datasets : Datasets, num_samples : Requests, block : Blocks, offload : BOOLEAN]
  /\ pc \in [Ranks -> Loading \cup {"forward", "reduce", "broadcast", "done", "raised"}]
  /\ batches \in [Ranks -> Seq(Samples)]
  /\ next \in [Ranks -> [batch : Nat \ {0}, subgraph : DOMAIN Subgraphs]]
  /\ hessians = [r \in Ranks |-> hessians[r]]
  /\ weights = [r \in Ranks |-> [m \in Modules |-> weights[r][m]]]
  /\ issued = [r \in Ranks |-> issued[r]] /\ \A r \in Ranks : Sequence(issued[r])

(* Loading data takes one collective, which shows the fingerprint.         *)
Gathered(r) ==
  /\ pc[r] = "load" => issued[r] = <<>>
  /\ pc[r] \notin {"load", "raised"} => issued[r] # <<>>
  /\ pc[r] \in Loading => batches[r] = <<>> /\ Len(issued[r]) <= 1
  /\ issued[r] # <<>> => /\ issued[r][1].kind = "all_gather"
                         /\ issued[r][1].value = run.datasets[r].fingerprint

-----------------------------------------------------------------------------
(* How the data are divided.                                               *)

SameEverywhere == \A r, q \in Ranks : run.datasets[r] = run.datasets[q]

PartOf(r) == Positions(run.num_samples, Len(Data(r)), TRUE, r, WorldSize)

Divided(r) ==
  SameEverywhere /\ batches[r] # <<>> =>
    /\ PartOf(r) \subseteq 1 .. Len(Data(r))
    /\ ToSet(batches[r]) = {Data(r)[i] : i \in PartOf(r)}

-----------------------------------------------------------------------------
(* What hessians and collectives hold.                                     *)

IsEntry(entry) ==
  entry = [hessian |-> entry.hessian, num |-> entry.num, since |-> entry.since]

UpTo(S, n) == {i \in S : i <= n}

(* An entry has what the first n batches of rank r gave to m.              *)
HasSeen(entry, r, m, n) ==
  /\ entry.hessian = [t \in Tokens |-> Cardinality(UpTo(BatchesWith(r, t, m), n))]
  /\ entry.num = Cardinality(UpTo(BatchesFor(r, m), n))

Seen(r) == next[r].batch - 1

Counted(r) ==
  pc[r] = "forward" =>
    /\ Seen(r) <= Len(batches[r])
    /\ DOMAIN hessians[r] \subseteq ToSet(Subgraph(r))
    /\ \A m \in ToSet(Subgraph(r)) :
         IF m \in DOMAIN hessians[r]
           THEN HasSeen(hessians[r][m], r, m, Seen(r)) /\ IsEntry(hessians[r][m])
         ELSE \A i \in BatchesFor(r, m) : i > Seen(r)

Forgotten(r) ==
  /\ pc[r] \in Loading \cup {"broadcast"} => DOMAIN hessians[r] = {}
  /\ pc[r] \in Loading => next[r].batch = 1

(* A rank issues reductions and broadcasts for modules of the subgraphs it *)
(* has reached; a reduction has all the rank has seen of the module.       *)
Reached(r, i) ==
  i < next[r].subgraph \/ (i = next[r].subgraph /\ pc[r] \in {"reduce", "broadcast", "done"})

IsOperation(op) ==
  op = [kind |-> op.kind, root |-> op.root, size |-> op.size, module |-> op.module,
        value |-> op.value]

Justified(op, r) ==
  /\ IsOperation(op)
  /\ op.kind # "all_gather" =>
       /\ op.root \in Ranks
       /\ \E i \in DOMAIN Subgraphs : op.module \in ToSet(Subgraphs[i]) /\ Reached(r, i)
  /\ op.kind = "reduce" => HasSeen(op.value, r, op.module, Len(batches[r]))

Issued(r) == \A k \in DOMAIN issued[r] : Justified(issued[r][k], r)

(* The reductions of a subgraph are the last operations a rank has issued  *)
(* when it waits for them.                                                 *)
ReductionsLast(r) ==
  pc[r] = "reduce" =>
    \E n \in 0 .. Len(issued[r]) :
      Operations(r, "reduce") = Len(issued[r]) - n + 1 .. Len(issued[r])

-----------------------------------------------------------------------------
(* What weights are compressed with.                                       *)

(* Once something is compressed, every rank has its data.                  *)
Joined ==
  (\E r \in Ranks : \/ \E m \in Modules : weights[r][m].num # 0
                    \/ \E k \in DOMAIN issued[r] : issued[r][k].kind = "broadcast")
    => \A r \in Ranks : pc[r] \notin Loading

(* The ranks issued their collectives for the same modules so far.         *)
ListsAgree ==
  \A r, q \in Ranks : \A k \in DOMAIN issued[r] \cap DOMAIN issued[q] :
    issued[r][k].module = issued[q][k].module

SumsRight ==
  ListsAgree /\ ~run.offload =>
    \A r \in Ranks :
      /\ \A m \in Modules : weights[r][m].num # 0 => weights[r][m] = SeenByAll(m)
      /\ \A k \in DOMAIN issued[r] :
           issued[r][k].kind = "broadcast" /\ issued[r][k].root = r
             => issued[r][k].value = SeenByAll(issued[r][k].module)

-----------------------------------------------------------------------------
(* Whose weights a rank has.                                               *)

Broadcasts(r, i) ==
  {k \in DOMAIN issued[r] : /\ issued[r][k].kind = "broadcast"
                            /\ issued[r][k].module \in ToSet(Subgraphs[i])}

(* Before a rank has received the parameters of a subgraph it has none but *)
(* those it is about to broadcast.                                         *)
NotYet ==
  \A r \in Ranks, i \in DOMAIN Subgraphs : ~Passed(r, i) =>
    \A m \in ToSet(Subgraphs[i]) :
      \/ weights[r][m] = Uncompressed
      \/ pc[r] = "broadcast" /\ \E k \in Broadcasts(r, i) : issued[r][k].module = m

(* What the root of the broadcast of m sent.                               *)
Sent(r, i, m) ==
  Received(r, CHOOSE k \in Broadcasts(r, i) : issued[r][k].module = m)

(* Afterwards it has what the roots of the broadcasts sent.                *)
FromRoots ==
  \A r \in Ranks, i \in DOMAIN Subgraphs : Passed(r, i) =>
    /\ \A k \in Broadcasts(r, i), q \in Ranks :
         k \in DOMAIN issued[q] /\ Agrees(issued[r][k], issued[q][k])
    /\ \A m \in ToSet(Subgraphs[i]) :
         weights[r][m] = IF \E k \in Broadcasts(r, i) : issued[r][k].module = m
                           THEN Sent(r, i, m) ELSE Uncompressed

-----------------------------------------------------------------------------
(* Parts of a data set.                                                    *)

LEMMA Division ==
  ASSUME NEW a \in Nat, NEW w \in Nat \ {0}
  PROVE  a \div w \in Nat /\ w * (a \div w) <= a /\ a < w * (a \div w) + w
OBVIOUS

LEMMA PartsInOrder ==
  ASSUME NEW n \in Nat, NEW w \in Nat \ {0}, NEW i \in Nat, NEW j \in Nat, i < j
  PROVE  PartitionEnd(n, i, w) <= PartitionStart(n, j, w)
<1>1. n * (i + 1) \in Nat /\ n * j \in Nat /\ n * (i + 1) <= n * j
  OBVIOUS
<1>2. \A a, b \in Nat : a <= b => a \div w <= b \div w
  OBVIOUS
<1> QED
  BY <1>1, <1>2 DEF PartitionEnd, PartitionStart

LEMMA PartsCover ==
  ASSUME NEW n \in Nat, NEW w \in Nat \ {0}, NEW i \in 1 .. n
  PROVE  \E r \in 0 .. w - 1 : i \in PartitionStart(n, r, w) + 1 .. PartitionEnd(n, r, w)
<1> DEFINE r == (i * w - 1) \div n
           start == (n * r) \div w
           end == (n * (r + 1)) \div w
<1>1. n # 0 /\ i * w - 1 \in Nat
  OBVIOUS
<1>2. r \in Nat /\ n * r <= i * w - 1 /\ i * w - 1 < n * r + n
  BY <1>1, Division
<1> HIDE DEF r
<1>3. n * r \in Nat /\ n * (r + 1) \in Nat /\ n * (r + 1) = n * r + n
  BY <1>2
<1>4. i * w <= n * w
  OBVIOUS
<1>5. r < w
  <2>1. n * r < n * w
    BY <1>1, <1>2, <1>3, <1>4
  <2>2. ASSUME w <= r PROVE n * w <= n * r
    BY <1>2, <2>2
  <2> QED
    BY <1>2, <1>3, <2>1, <2>2
<1>6. start \in Nat /\ w * start <= n * r
  BY <1>3, Division
<1>7. end \in Nat /\ n * (r + 1) < w * end + w
  BY <1>3, Division
<1> HIDE DEF start, end
<1>8. start < i
  <2>1. ASSUME i <= start PROVE i * w <= w * start
    BY <1>6, <2>1
  <2>2. w * start \in Nat /\ i * w \in Nat
    BY <1>6
  <2> QED
    BY <1>2, <1>3, <1>6, <2>1, <2>2
<1>9. i <= end
  <2>1. ASSUME end + 1 <= i PROVE w * (end + 1) <= i * w
    BY <1>7, <2>1
  <2>2. w * (end + 1) = w * end + w /\ w * end \in Nat /\ i * w \in Nat
    BY <1>7
  <2> QED
    BY <1>2, <1>3, <1>7, <2>1, <2>2
<1> QED
  BY <1>2, <1>5, <1>6, <1>7, <1>8, <1>9 DEF start, end, PartitionStart, PartitionEnd

(* A rank draws all of its part, which is a part of what is requested.     *)
LEMMA PartsAreDrawn ==
  ASSUME NEW n \in Nat, NEW w \in Nat \ {0}, NEW r \in 0 .. w - 1,
         NEW part, part = PartitionStart(n, r, w) + 1 .. PartitionEnd(n, r, w)
  PROVE  part \subseteq 1 .. n /\ IsFiniteSet(part) /\ NumDrawn(n, part) = Cardinality(part)
<1> DEFINE start == (n * r) \div w
           end == (n * (r + 1)) \div w
<1>1. n * r \in Nat /\ n * (r + 1) \in Nat /\ n * (r + 1) <= n * w /\ n * w \in Nat
  OBVIOUS
<1>2. start \in Nat
  BY <1>1, Division
<1>3. end \in Nat /\ w * end <= n * (r + 1)
  BY <1>1, Division
<1> HIDE DEF start, end
<1>4. end <= n
  <2>1. ASSUME n + 1 <= end PROVE w * (n + 1) <= w * end
    BY <1>3, <2>1
  <2>2. w * (n + 1) = n * w + w /\ w * end \in Nat
    BY <1>3
  <2> QED
    BY <1>1, <1>3, <2>1, <2>2
<1>5. part \subseteq 1 .. n
  BY <1>2, <1>3, <1>4 DEF start, end, PartitionStart, PartitionEnd
<1>6. IsFiniteSet(part) /\ Cardinality(part) \in Nat /\ Cardinality(part) <= n
  <2>1. IsFiniteSet(1 .. n) /\ Cardinality(1 .. n) = n
    BY FS_Interval
  <2> QED
    BY <1>5, <2>1, FS_Subset, FS_CardinalityType
<1>7. NumDrawn(n, part) = Cardinality(part)
  BY <1>6 DEF NumDrawn
<1> QED
  BY <1>5, <1>6, <1>7

(* A draw of as many positions as there are draws all of them.             *)
LEMMA DrawsAll ==
  ASSUME NEW S, IsFiniteSet(S), NEW draw \in Draws(S, Cardinality(S))
  PROVE  \A x \in S : \E i \in 1 .. Cardinality(S) : draw[i] = x
<1> DEFINE n == Cardinality(S)
<1>1. n \in Nat
  BY FS_CardinalityType
<1>2. IsFiniteSet(1 .. n) /\ Cardinality(1 .. n) = n
  BY <1>1, FS_Interval
<1>3. draw \in Injection(1 .. n, S)
  BY DEF Draws, Injection, IsInjective
<1>4. draw \in Surjection(1 .. n, S)
  BY <1>2, <1>3, FS_Injection
<1> QED
  BY <1>4 DEF Surjection

-----------------------------------------------------------------------------
(* What steps have in common.                                              *)

OfRank(r) ==
  Gathered(r) /\ Divided(r) /\ Forgotten(r) /\ Counted(r) /\ Issued(r) /\ ReductionsLast(r)

Inv ==
  Typed /\ (\A r \in Ranks : OfRank(r)) /\ Joined /\ SumsRight /\ NotYet /\ FromRoots

LEMMA SequenceFacts ==
  ASSUME NEW s, Sequence(s)
  PROVE  Len(s) \in Nat /\ DOMAIN s = 1 .. Len(s)
BY DEF Sequence

LEMMA Concatenation ==
  ASSUME NEW s, Sequence(s), NEW n \in Nat, NEW f, OfLength(f, n)
  PROVE  /\ Sequence(s \o f) /\ Len(s \o f) = Len(s) + n
         /\ \A k \in 1 .. Len(s) : (s \o f)[k] = s[k]
         /\ \A i \in 1 .. n : (s \o f)[Len(s) + i] = f[i]
<1> DEFINE A == ToSet(s) \cup ToSet(f)
<1>1. f \in [1 .. n -> A]
  BY DEF ToSet, OfLength
<1>2. s \in Seq(A) /\ f \in Seq(A) /\ Len(f) = n
  <2> HIDE DEF A
  <2>1. ToSet(s) \subseteq A
    BY DEF A
  <2>2. s \in Seq(A)
    BY <2>1, SeqDef DEF Sequence
  <2>3. f \in Seq(A)
    BY <1>1, SeqDef
  <2>4. DOMAIN f = 1 .. n /\ DOMAIN f = 1 .. Len(f) /\ Len(f) \in Nat
    BY <1>1, <2>3
  <2> QED
    BY <2>2, <2>3, <2>4
<1> HIDE DEF A
<1>3. s \o f \in Seq(A) /\ Len(s \o f) = Len(s) + n
  BY <1>2
<1>4. \A k \in 1 .. Len(s) : (s \o f)[k] = s[k]
  BY <1>2
<1>5. \A i \in 1 .. n : (s \o f)[Len(s) + i] = f[i]
  BY <1>2
<1>6. Sequence(s \o f)
  <2> DEFINE c == s \o f
  <2>1. c \in Seq(A)
    BY <1>3
  <2> HIDE DEF c
  <2>2. c \in [1 .. Len(c) -> ToSet(c)] /\ Len(c) \in Nat
    BY <2>1 DEF ToSet
  <2>3. c \in Seq(ToSet(c))
    BY <2>2
  <2> QED
    BY <2>3 DEF c, Sequence
<1> QED
  BY <1>3, <1>4, <1>5, <1>6

(* What has been issued stays where it is.                                 *)
Grows ==
  \A q \in Ranks : /\ DOMAIN issued[q] \subseteq DOMAIN issued'[q]
                   /\ \A k \in DOMAIN issued[q] : issued'[q][k] = issued[q][k]

IssuesNothing ==
  \A q \in Ranks : \A k \in DOMAIN issued'[q] : k \notin DOMAIN issued[q]
                      => issued'[q][k].kind # "broadcast"

(* Rank r issues n more operations, and what that means.                   *)
Appends(r, ops, n) ==
  /\ issued' = [q \in Ranks |-> issued'[q]] /\ \A q \in Ranks : Sequence(issued'[q])
  /\ \A q \in Ranks \ {r} : issued'[q] = issued[q]
  /\ DOMAIN issued[r] = 1 .. Len(issued[r]) /\ Len(issued[r]) \in Nat
  /\ DOMAIN issued'[r] = 1 .. Len(issued[r]) + n /\ Len(issued'[r]) = Len(issued[r]) + n
  /\ \A k \in Len(issued[r]) + 1 .. Len(issued[r]) + n :
       issued'[r][k] = ops[k - Len(issued[r])]

LEMMA Issuing ==
  ASSUME Typed, NEW r \in Ranks, NEW n \in Nat, NEW ops, OfLength(ops, n),
         Issue(r, ops)
  PROVE  Appends(r, ops, n) /\ Grows
<1>1. issued' = [q \in Ranks |-> IF q = r THEN issued[r] \o ops ELSE issued[q]]
  BY DEF Typed, Issue
<1>2. /\ Sequence(issued[r] \o ops) /\ Len(issued[r] \o ops) = Len(issued[r]) + n
      /\ \A k \in 1 .. Len(issued[r]) : (issued[r] \o ops)[k] = issued[r][k]
      /\ \A i \in 1 .. n : (issued[r] \o ops)[Len(issued[r]) + i] = ops[i]
  <2>1. PICK s : s = issued[r]
    OBVIOUS
  <2>2. Sequence(s)
    BY <2>1 DEF Typed
  <2>3. /\ Sequence(s \o ops) /\ Len(s \o ops) = Len(s) + n
        /\ \A k \in 1 .. Len(s) : (s \o ops)[k] = s[k]
        /\ \A i \in 1 .. n : (s \o ops)[Len(s) + i] = ops[i]
    BY <2>2, Concatenation
  <2> QED
    BY <2>1, <2>3
<1>3. DOMAIN issued[r] = 1 .. Len(issued[r]) /\ Len(issued[r]) \in Nat
  BY SequenceFacts DEF Typed
<1>4. DOMAIN (issued[r] \o ops) = 1 .. Len(issued[r]) + n
  BY <1>2, SequenceFacts
<1>5. issued'[r] = issued[r] \o ops /\ \A q \in Ranks \ {r} : issued'[q] = issued[q]
  BY <1>1
<1>6. issued' = [q \in Ranks |-> issued'[q]]
  BY <1>1
<1>7. \A q \in Ranks : Sequence(issued'[q])
  BY <1>2, <1>5 DEF Typed
<1>8. Grows
  <2>1. /\ DOMAIN issued[r] \subseteq DOMAIN issued'[r]
        /\ \A k \in DOMAIN issued[r] : issued'[r][k] = issued[r][k]
    BY <1>2, <1>3, <1>4, <1>5
  <2> QED
    BY <1>5, <2>1 DEF Grows
<1>9. ASSUME NEW k \in Len(issued[r]) + 1 .. Len(issued[r]) + n
      PROVE  issued'[r][k] = ops[k - Len(issued[r])]
  <2>1. PICK l \in Nat : l = Len(issued[r])
    BY <1>3
  <2>2. PICK i \in 1 .. n : i = k - l
    <3>1. k \in l + 1 .. l + n
      BY <1>9, <2>1
    <3> QED
      BY <3>1
  <2>3. k = Len(issued[r]) + i /\ i = k - Len(issued[r])
    BY <1>9, <2>1, <2>2
  <2> QED
    BY <1>2, <1>5, <2>2, <2>3
<1> QED
  BY <1>2, <1>3, <1>4, <1>5, <1>6, <1>7, <1>8, <1>9 DEF Appends

LEMMA AgreedBefore ==
  ASSUME Grows, ListsAgree'
  PROVE  ListsAgree
BY DEF Grows, ListsAgree

(* What depends on arguments and batches only.                             *)
LEMMA SameData ==
  ASSUME NEW r, UNCHANGED <<run, batches[r]>>
  PROVE  /\ \A entry, m, n : HasSeen(entry, r, m, n)' <=> HasSeen(entry, r, m, n)
         /\ \A t, m : BatchesWith(r, t, m)' = BatchesWith(r, t, m)
         /\ \A m : BatchesFor(r, m)' = BatchesFor(r, m)
         /\ Divided(r)' <=> Divided(r)
<1>1. \A t, m : BatchesWith(r, t, m)' = BatchesWith(r, t, m)
  BY DEF BatchesWith, Reaches, IsExpert
<1>2. \A m : BatchesFor(r, m)' = BatchesFor(r, m)
  BY DEF BatchesFor, Reaches, IsExpert
<1>3. ASSUME NEW entry, NEW m, NEW n
      PROVE  HasSeen(entry, r, m, n)' <=> HasSeen(entry, r, m, n)
  <2>1. [t \in Tokens |-> Cardinality(UpTo(BatchesWith(r, t, m)', n))]
          = [t \in Tokens |-> Cardinality(UpTo(BatchesWith(r, t, m), n))]
    BY <1>1
  <2> QED
    BY <1>2, <2>1 DEF HasSeen
<1>4. Divided(r)' <=> Divided(r)
  BY DEF Divided, SameEverywhere, PartOf, Data
<1> QED
  BY <1>1, <1>2, <1>3, <1>4

LEMMA SameSums ==
  ASSUME UNCHANGED <<run, batches>>, NEW m
  PROVE  SeenByAll(m)' = SeenByAll(m)
<1>1. \A r : (\A t : BatchesWith(r, t, m)' = BatchesWith(r, t, m))
             /\ BatchesFor(r, m)' = BatchesFor(r, m)
  BY SameData
<1> QED
  BY <1>1 DEF SeenByAll

LEMMA StillJustified ==
  ASSUME NEW r, UNCHANGED <<run, batches[r]>>, \A i \in DOMAIN Subgraphs : Reached(r, i) => Reached(r, i)',
         NEW op, Justified(op, r)
  PROVE  Justified(op, r)'
<1>1. HasSeen(op.value, r, op.module, Len(batches[r]))
        => HasSeen(op.value, r, op.module, Len(batches[r]))'
  BY SameData
<1> QED
  BY <1>1 DEF Justified

(* A rank that does not move.                                              *)
LEMMA Unmoved ==
  ASSUME NEW r \in Ranks, OfRank(r),
         UNCHANGED <<run, batches[r], pc[r], next[r], hessians[r], issued[r]>>
  PROVE  OfRank(r)'
<1>1. Gathered(r)' /\ Forgotten(r)'
  BY DEF OfRank, Gathered, Forgotten
<1>2. Divided(r)'
  BY SameData DEF OfRank
<1>3. Counted(r)'
  BY SameData DEF OfRank, Counted, Seen, Subgraph
<1>4. Issued(r)'
  <2>1. \A i \in DOMAIN Subgraphs : Reached(r, i) => Reached(r, i)'
    BY DEF Reached
  <2> QED
    BY <2>1, StillJustified DEF OfRank, Issued
<1>5. ReductionsLast(r)'
  BY DEF OfRank, ReductionsLast, Operations, Subgraph
<1> QED
  BY <1>1, <1>2, <1>3, <1>4, <1>5 DEF OfRank

(* What a rank has received stays what the roots sent.                     *)
LEMMA SentBefore ==
  ASSUME FromRoots, NEW r \in Ranks, Issued(r), Grows, NEW i \in DOMAIN Subgraphs, Passed(r, i),
         Broadcasts(r, i)' = Broadcasts(r, i),
         \A m \in ToSet(Subgraphs[i]) : weights'[r][m] = weights[r][m]
  PROVE  /\ \A k \in Broadcasts(r, i)', q \in Ranks :
              k \in DOMAIN issued'[q] /\ Agrees(issued'[r][k], issued'[q][k])
         /\ \A m \in ToSet(Subgraphs[i]) :
              weights'[r][m] = IF \E k \in Broadcasts(r, i)' : issued'[r][k].module = m
                                 THEN Sent(r, i, m)' ELSE Uncompressed
<1>1. \A k \in Broadcasts(r, i) : /\ k \in DOMAIN issued[r] /\ issued'[r][k] = issued[r][k]
                                  /\ issued[r][k].root \in Ranks
  BY DEF Broadcasts, Grows, Issued, Justified
<1>2. \A k \in Broadcasts(r, i), q \in Ranks :
        /\ k \in DOMAIN issued[q] /\ Agrees(issued[r][k], issued[q][k])
        /\ k \in DOMAIN issued'[q] /\ issued'[q][k] = issued[q][k]
  BY DEF FromRoots, Grows
<1>3. \A k \in Broadcasts(r, i), q \in Ranks :
        k \in DOMAIN issued'[q] /\ Agrees(issued'[r][k], issued'[q][k])
  BY <1>1, <1>2
<1>4. ASSUME NEW m \in ToSet(Subgraphs[i])
      PROVE  weights'[r][m] = IF \E k \in Broadcasts(r, i) : issued'[r][k].module = m
                                THEN Sent(r, i, m)' ELSE Uncompressed
  <2> DEFINE k1 == CHOOSE k \in Broadcasts(r, i) : issued[r][k].module = m
             k2 == CHOOSE k \in Broadcasts(r, i) : issued'[r][k].module = m
  <2>1. \A k \in Broadcasts(r, i) : issued'[r][k].module = m <=> issued[r][k].module = m
    BY <1>1
  <2>2. k1 = k2
    BY <2>1
  <2>3. ASSUME \E k \in Broadcasts(r, i) : issued[r][k].module = m
        PROVE  issued'[issued'[r][k2].root][k2].value = issued[issued[r][k1].root][k1].value
    <3>1. k1 \in Broadcasts(r, i)
      BY <2>3
    <3> HIDE DEF k1, k2
    <3> QED
      BY <1>1, <1>2, <2>2, <3>1
  <2>4. weights[r][m] = IF \E k \in Broadcasts(r, i) : issued[r][k].module = m
                          THEN Sent(r, i, m) ELSE Uncompressed
    BY DEF FromRoots
  <2>5. Sent(r, i, m) = issued[issued[r][k1].root][k1].value
    BY DEF Sent, Received
  <2>6. Sent(r, i, m)' = issued'[issued'[r][k2].root][k2].value
    BY DEF Sent, Received
  <2> QED
    BY <2>1, <2>3, <2>4, <2>5, <2>6
<1> QED
  BY <1>3, <1>4

(* A step that neither compresses nor receives anything.                   *)
LEMMA WeightsStay ==
  ASSUME Inv, UNCHANGED <<run, weights>>, Grows, IssuesNothing,
         \A q \in Ranks : /\ pc'[q] \in {"broadcast", "done"} <=> pc[q] \in {"broadcast", "done"}
                          /\ pc'[q] = "done" <=> pc[q] = "done"
                          /\ next'[q].subgraph = next[q].subgraph
                          /\ pc'[q] \in Loading => pc[q] \in Loading,
         batches' = batches \/ \E q \in Ranks : pc[q] \in Loading
  PROVE  Joined' /\ SumsRight' /\ NotYet' /\ FromRoots'
<1>1. Joined /\ SumsRight /\ NotYet /\ FromRoots /\ \A q \in Ranks : Issued(q)
  BY DEF Inv, OfRank
<1>2. \A q \in Ranks : \A k \in DOMAIN issued'[q] : issued'[q][k].kind = "broadcast" =>
        k \in DOMAIN issued[q] /\ issued[q][k] = issued'[q][k]
  BY DEF Grows, IssuesNothing
<1>3. \A q \in Ranks, i \in DOMAIN Subgraphs :
        (Passed(q, i)' <=> Passed(q, i)) /\ Broadcasts(q, i)' = Broadcasts(q, i)
  <2> SUFFICES ASSUME NEW q \in Ranks, NEW i \in DOMAIN Subgraphs
               PROVE  (Passed(q, i)' <=> Passed(q, i)) /\ Broadcasts(q, i)' = Broadcasts(q, i)
    OBVIOUS
  <2>1. Passed(q, i)' <=> Passed(q, i)
    BY DEF Passed
  <2>2. Broadcasts(q, i)' = Broadcasts(q, i)
    BY <1>2 DEF Broadcasts, Grows
  <2> QED
    BY <2>1, <2>2
<1>4. Joined'
  BY <1>1, <1>2 DEF Joined
<1>5. SumsRight'
  <2>1. CASE batches' = batches
    <3>1. \A m : SeenByAll(m)' = SeenByAll(m)
      BY <2>1, SameSums
    <3> QED
      BY <1>1, <1>2, <3>1, AgreedBefore DEF SumsRight
  <2>2. CASE \E q \in Ranks : pc[q] \in Loading
    BY <1>1, <1>2, <2>2 DEF Joined, SumsRight
  <2> QED
    BY <2>1, <2>2
<1>6. NotYet'
  <2> SUFFICES ASSUME NEW q \in Ranks, NEW i \in DOMAIN Subgraphs, ~Passed(q, i),
                      NEW m \in ToSet(Subgraphs[i])
               PROVE  \/ weights[q][m] = Uncompressed
                      \/ pc'[q] = "broadcast" /\ \E k \in Broadcasts(q, i) : issued'[q][k].module = m
    BY <1>3 DEF NotYet
  <2>1. CASE weights[q][m] = Uncompressed
    BY <2>1
  <2>2. CASE pc[q] = "broadcast" /\ \E k \in Broadcasts(q, i) : issued[q][k].module = m
    BY <2>2 DEF Grows, Broadcasts
  <2> QED
    BY <1>1, <2>1, <2>2 DEF NotYet
<1>7. FromRoots'
  BY <1>1, <1>3, SentBefore DEF FromRoots
<1> QED
  BY <1>4, <1>5, <1>6, <1>7

-----------------------------------------------------------------------------
(* Init, and what ranks do before they compress.                           *)

LEMMA ModelFacts ==
  /\ DOMAIN Subgraphs = 1 .. Len(Subgraphs) /\ Len(Subgraphs) \in Nat \ {0}
  /\ \A i \in DOMAIN Subgraphs : /\ Subgraphs[i] \in Seq(Modules)
                                 /\ ToSet(Subgraphs[i]) \subseteq Modules
                                 /\ IsFiniteSet(ToSet(Subgraphs[i]))
<1>1. Subgraphs \in Seq(Seq(Modules)) /\ Subgraphs # <<>>
  BY ModelAssumption
<1>2. DOMAIN Subgraphs = 1 .. Len(Subgraphs) /\ Len(Subgraphs) \in Nat \ {0}
  BY <1>1
<1>3. ASSUME NEW i \in DOMAIN Subgraphs
      PROVE  /\ Subgraphs[i] \in Seq(Modules)
             /\ ToSet(Subgraphs[i]) \subseteq Modules
             /\ IsFiniteSet(ToSet(Subgraphs[i]))
  <2>1. Subgraphs[i] \in Seq(Modules)
    BY <1>1, <1>3
  <2> DEFINE s == Subgraphs[i]
  <2>2. s \in [1 .. Len(s) -> Modules] /\ Len(s) \in Nat
    BY <2>1
  <2> HIDE DEF s
  <2>3. ToSet(s) \subseteq Modules
    BY <2>2 DEF ToSet
  <2>4. IsFiniteSet(1 .. Len(s))
    BY <2>2, FS_Interval
  <2>5. s \in Surjection(1 .. Len(s), ToSet(s))
    BY <2>2 DEF ToSet, Surjection
  <2>6. IsFiniteSet(ToSet(s))
    BY <2>4, <2>5, FS_Surjection
  <2> QED
    BY <2>1, <2>3, <2>6 DEF s
<1> QED
  BY <1>2, <1>3

LEMMA Initially ==
  ASSUME Init
  PROVE  Inv
<1>1. Sequence(<<>>)
  BY DEF Sequence
<1>2. Typed
  BY <1>1, ModelFacts DEF Init, Typed, Loading
<1>3. ASSUME NEW r \in Ranks
      PROVE  OfRank(r)
  BY <1>3 DEF Init, OfRank, Gathered, Divided, Forgotten, Counted, Issued, ReductionsLast, Loading
<1>4. Joined /\ SumsRight
  BY DEF Init, Joined, SumsRight, Uncompressed
<1>5. \A r \in Ranks, i \in DOMAIN Subgraphs : ~Passed(r, i)
  BY ModelFacts DEF Init, Passed
<1>6. NotYet /\ FromRoots
  BY <1>5, ModelFacts DEF Init, NotYet, FromRoots
<1> QED
  BY <1>2, <1>3, <1>4, <1>6 DEF Inv

LEMMA Loads ==
  ASSUME Inv, NEW r \in Ranks, Load(r)
  PROVE  Inv'
<1>1. Typed /\ \A q \in Ranks : OfRank(q)
  BY DEF Inv
<1>2. /\ Typed' /\ Grows /\ IssuesNothing /\ Gathered(r)'
      /\ \A q \in Ranks \ {r} : issued'[q] = issued[q] /\ pc'[q] = pc[q]
      /\ pc[r] = "load" /\ pc'[r] \in {"gather", "raised"}
      /\ \A k \in DOMAIN issued'[r] : /\ issued'[r][k].kind = "all_gather"
                                       /\ IsOperation(issued'[r][k])
  <2>1. issued[r] = <<>> /\ pc[r] = "load"
    BY <1>1 DEF Load, OfRank, Gathered
  <2>2. CASE UNCHANGED issued /\ Goto(r, "raised")
    BY <1>1, <2>1, <2>2
       DEF Typed, Load, Goto, Grows, IssuesNothing, Gathered, OfRank, Loading
  <2>3. CASE ~(UNCHANGED issued /\ Goto(r, "raised"))
    <3>1. PICK ops :
            /\ ops = <<[kind |-> "all_gather", root |-> 0, size |-> 1, module |-> "none",
                        value |-> run.datasets[r].fingerprint]>>
            /\ Issue(r, ops) /\ Goto(r, "gather")
      BY <2>3 DEF Load, Issue
    <3>2. OfLength(ops, 1) /\ ops[1].kind = "all_gather"
          /\ ops[1].value = run.datasets[r].fingerprint /\ IsOperation(ops[1])
      BY <3>1 DEF OfLength, IsOperation
    <3>3. Appends(r, ops, 1) /\ Grows
      BY <1>1, <3>1, <3>2, Issuing
    <3>4. Len(issued[r]) = 0
      BY <2>1
    <3>5. DOMAIN issued'[r] = 1 .. 1 /\ Len(issued'[r]) = 1 /\ issued'[r][1] = ops[1]
      BY <3>3, <3>4 DEF Appends
    <3>6. IssuesNothing
      BY <3>2, <3>3, <3>5 DEF IssuesNothing, Appends
    <3>7. pc' = [pc EXCEPT ![r] = "gather"] /\ UNCHANGED <<run, batches, next, hessians, weights>>
      BY <3>1 DEF Load, Goto
    <3>8. Typed'
      BY <1>1, <3>3, <3>7 DEF Typed, Loading, Appends
    <3>9. Gathered(r)'
      BY <1>1, <2>1, <3>2, <3>5, <3>7 DEF Typed, OfRank, Gathered, Loading
    <3> QED
      BY <1>1, <2>1, <3>2, <3>3, <3>5, <3>6, <3>7, <3>8, <3>9 DEF Typed, Appends
  <2> QED
    BY <2>2, <2>3
<1>3. UNCHANGED <<run, batches, next, hessians, weights>>
  BY DEF Load
<1>4. OfRank(r)'
  <2>1. Divided(r)'
    BY <1>1, <1>3, SameData DEF OfRank
  <2>2. Issued(r)'
    BY <1>2 DEF Issued, Justified
  <2> QED
    BY <1>1, <1>2, <1>3, <2>1, <2>2 DEF OfRank, Forgotten, Counted, ReductionsLast, Loading
<1>5. \A q \in Ranks \ {r} : OfRank(q)'
  BY <1>1, <1>2, <1>3, Unmoved
<1>6. Joined' /\ SumsRight' /\ NotYet' /\ FromRoots'
  BY <1>2, <1>3, WeightsStay DEF Loading
<1> QED
  BY <1>2, <1>4, <1>5, <1>6 DEF Inv


LEMMA DataFacts ==
  ASSUME Typed, NEW r \in Ranks
  PROVE  /\ Data(r) \in Seq(Samples) /\ IsInjective(Data(r)) /\ Len(Data(r)) \in Nat
         /\ Requested(run.num_samples, Len(Data(r))) \in Nat
<1>1. run.datasets \in Datasets /\ run.num_samples \in Nat
  BY DataAssumption DEF Typed
<1>2. Data(r) \in Seq(Samples) /\ IsInjective(Data(r))
  BY <1>1, DataAssumption DEF Data
<1> QED
  BY <1>1, <1>2 DEF Requested

LEMMA TypedStays ==
  ASSUME Typed, UNCHANGED <<run, next, hessians, weights, issued>>,
         batches' \in [Ranks -> Seq(Samples)], NEW r \in Ranks,
         pc' = [pc EXCEPT ![r] = pc'[r]], pc'[r] \in {"forward", "raised"}
  PROVE  Typed'
<1>1. pc' \in [Ranks -> Loading \cup {"forward", "reduce", "broadcast", "done", "raised"}]
  BY DEF Typed
<1>2. hessians' = [q \in Ranks |-> hessians'[q]]
  BY DEF Typed
<1>3. weights' = [q \in Ranks |-> [m \in Modules |-> weights'[q][m]]]
  BY DEF Typed
<1> QED
  BY <1>1, <1>2, <1>3 DEF Typed

LEMMA MakesSampler ==
  ASSUME Inv, NEW r \in Ranks, MakeSampler(r)
  PROVE  Inv'
<1> DEFINE length == Len(Data(r))
           positions == Positions(run.num_samples, length, SameDataset(r), r, WorldSize)
           n == NumDrawn(Requested(run.num_samples, length), positions)
<1>1. Typed /\ \A q \in Ranks : OfRank(q)
  BY DEF Inv
<1>2. /\ UNCHANGED <<run, next, hessians, weights, issued>>
      /\ pc[r] = "gather" /\ pc' = [pc EXCEPT ![r] = pc'[r]] /\ pc'[r] \in {"forward", "raised"}
      /\ \A q \in Ranks \ {r} : batches'[q] = batches[q] /\ pc'[q] = pc[q]
  BY <1>1 DEF MakeSampler, Goto, Typed
<1>3. /\ Len(issued[r]) = 1 /\ DOMAIN issued[r] = {1} /\ issued[r][1].kind = "all_gather"
      /\ hessians[r] = hessians'[r] /\ DOMAIN hessians[r] = {} /\ next[r].batch = 1
      /\ batches[r] = <<>>
  <2>1. Len(issued[r]) \in Nat /\ DOMAIN issued[r] = 1 .. Len(issued[r]) /\ Sequence(issued[r])
    BY <1>1, SequenceFacts DEF Typed
  <2>2. issued[r] # <<>> /\ Len(issued[r]) <= 1
    BY <1>1, <1>2 DEF OfRank, Gathered, Loading
  <2>3. Len(issued[r]) # 0
    BY <2>1, <2>2 DEF Sequence
  <2>4. Len(issued[r]) = 1 /\ DOMAIN issued[r] = {1}
    <3>1. \A l \in Nat : l <= 1 /\ l # 0 => l = 1
      OBVIOUS
    <3>2. 1 .. 1 = {1}
      OBVIOUS
    <3> QED
      BY <2>1, <2>2, <2>3, <3>1, <3>2
  <2>5. issued[r][1].kind = "all_gather" /\ batches[r] = <<>>
    BY <1>1, <1>2, <2>2 DEF OfRank, Gathered, Loading
  <2>6. DOMAIN hessians[r] = {} /\ next[r].batch = 1
    BY <1>1, <1>2 DEF OfRank, Forgotten, Loading
  <2> QED
    BY <1>2, <2>4, <2>5, <2>6
<1>4. \/ /\ batches' = batches /\ pc'[r] = "raised"
      \/ /\ n \in Nat /\ positions \subseteq 1 .. length /\ pc'[r] = "forward"
         /\ \E draw \in Draws(positions, n) :
              batches' = [batches EXCEPT ![r] = [i \in 1 .. n |-> Data(r)[draw[i]]]]
  <2>1. CASE Goto(r, "raised")
    BY <1>1, <1>2, <2>1 DEF MakeSampler, Goto, Typed
  <2>2. CASE ~Goto(r, "raised")
    <3>1. /\ positions \subseteq 1 .. length /\ Goto(r, "forward")
          /\ \E draw \in Draws(positions, n) :
               batches' = [batches EXCEPT ![r] = [i \in 1 .. n |-> Data(r)[draw[i]]]]
      BY <2>2 DEF MakeSampler, CanSelect
    <3>2. length \in Nat /\ Requested(run.num_samples, length) \in Nat
      BY <1>1, DataFacts
    <3> HIDE DEF length, positions
    <3>3. IsFiniteSet(positions) /\ Cardinality(positions) \in Nat
      <4>1. IsFiniteSet(1 .. length)
        BY <3>2, FS_Interval
      <4> QED
        BY <3>1, <4>1, FS_Subset, FS_CardinalityType
    <3>4. n \in Nat
      BY <3>2, <3>3 DEF NumDrawn
    <3> QED
      BY <1>1, <3>1, <3>4 DEF Goto, Typed
  <2> QED
    BY <2>1, <2>2
<1> HIDE DEF n, positions
<1>5. Typed' /\ Divided(r)' /\ Len(batches'[r]) \in Nat /\ DOMAIN batches'[r] = 1 .. Len(batches'[r])
      /\ (pc'[r] = "raised" => batches' = batches)
  <2>1. CASE batches' = batches /\ pc'[r] = "raised"
    <3>1. Divided(r)'
      BY <1>1, <1>2, <2>1, SameData DEF OfRank
    <3> QED
      <4>1. batches[r] \in Seq(Samples)
        BY <1>1 DEF Typed
      <4>2. Len(batches[r]) \in Nat /\ DOMAIN batches[r] = 1 .. Len(batches[r])
        BY <4>1
      <4>3. Typed'
        BY <1>1, <1>2, <2>1, TypedStays DEF Typed
      <4> QED
        BY <2>1, <3>1, <4>2, <4>3
  <2>2. CASE ~(batches' = batches /\ pc'[r] = "raised")
    <3>1. PICK draw \in Draws(positions, n) :
            batches' = [batches EXCEPT ![r] = [i \in 1 .. n |-> Data(r)[draw[i]]]]
      BY <1>4, <2>2
    <3>2. n \in Nat /\ positions \subseteq 1 .. length /\ pc'[r] = "forward"
      BY <1>4, <2>2
    <3>3. batches'[r] = [i \in 1 .. n |-> Data(r)[draw[i]]] /\ draw \in [1 .. n -> positions]
      BY <1>1, <3>1 DEF Typed, Draws
    <3>4. Data(r) \in Seq(Samples)
      BY <1>1, DataFacts
    <3>5. batches'[r] \in [1 .. n -> Samples]
      <4>1. ASSUME NEW i \in 1 .. n PROVE Data(r)[draw[i]] \in Samples
        <5>1. draw[i] \in 1 .. Len(Data(r))
          BY <3>2, <3>3, <4>1
        <5> QED
          BY <3>4, <5>1
      <4> QED
        BY <3>3, <4>1
    <3>6. batches'[r] \in Seq(Samples) /\ Len(batches'[r]) = n /\ DOMAIN batches'[r] = 1 .. n
      BY <3>2, <3>5
    <3>7. Typed'
      <4>1. batches' \in [Ranks -> Seq(Samples)]
        BY <1>1, <1>2, <3>1, <3>6 DEF Typed
      <4> QED
        BY <1>1, <1>2, <4>1, TypedStays
    <3>8. ASSUME SameEverywhere
          PROVE  /\ PartOf(r) \subseteq 1 .. Len(Data(r))
                 /\ ToSet(batches'[r]) = {Data(r)[i] : i \in PartOf(r)}
      <4>1. SameDataset(r)
        <5>1. ASSUME NEW q \in Ranks PROVE issued[q][1].value = run.datasets[r].fingerprint
          <6>1. 1 \in DOMAIN issued[q]
            BY <1>3, <5>1 DEF MakeSampler, Complete
          <6>2. issued[q] # <<>>
            BY <6>1
          <6> QED
            BY <1>1, <3>8, <6>2 DEF OfRank, Gathered, SameEverywhere
        <5> QED
          BY <5>1 DEF SameDataset
      <4> DEFINE R == Requested(run.num_samples, length)
      <4>2. R \in Nat /\ WorldSize \in Nat \ {0} /\ r \in 0 .. WorldSize - 1
        BY <1>1, DataFacts, WorldAssumption DEF Ranks
      <4>3. positions = PartOf(r)
            /\ positions = PartitionStart(R, r, WorldSize) + 1 .. PartitionEnd(R, r, WorldSize)
        BY <4>1 DEF positions, PartOf, Positions
      <4> HIDE DEF R
      <4>4. IsFiniteSet(positions) /\ NumDrawn(R, positions) = Cardinality(positions)
        BY <4>2, <4>3, PartsAreDrawn
      <4>5. n = Cardinality(positions)
        BY <4>4 DEF n, R
      <4>6. \A x \in positions : \E i \in 1 .. n : draw[i] = x
        BY <3>1, <4>4, <4>5, DrawsAll
      <4>7. ToSet(batches'[r]) = {Data(r)[i] : i \in positions}
        BY <3>3, <4>6 DEF ToSet
      <4> QED
        BY <3>2, <4>3, <4>7
    <3>9. Divided(r)'
      BY <1>2, <3>8 DEF Divided, SameEverywhere, PartOf, Data
    <3> QED
      BY <3>2, <3>6, <3>7, <3>9
  <2> QED
    BY <2>1, <2>2
<1>6. OfRank(r)'
  <2>1. Gathered(r)' /\ Forgotten(r)'
    BY <1>1, <1>2 DEF OfRank, Gathered, Forgotten, Loading
  <2>2. Counted(r)'
    BY <1>2, <1>3, <1>5 DEF Counted, Seen, Subgraph, BatchesFor
  <2>3. Issued(r)'
    <3>1. IsOperation(issued[r][1])
      BY <1>1, <1>3 DEF OfRank, Issued, Justified
    <3> QED
      BY <1>2, <1>3, <3>1 DEF Issued, Justified
  <2>4. ReductionsLast(r)'
    BY <1>2 DEF ReductionsLast
  <2> QED
    BY <1>5, <2>1, <2>2, <2>3, <2>4 DEF OfRank
<1>7. \A q \in Ranks \ {r} : OfRank(q)'
  BY <1>1, <1>2, Unmoved
<1>8. Joined' /\ SumsRight' /\ NotYet' /\ FromRoots'
  <2>1. /\ Grows /\ IssuesNothing /\ pc[r] \in Loading
        /\ \A q \in Ranks : /\ pc'[q] \in {"broadcast", "done"} <=> pc[q] \in {"broadcast", "done"}
                            /\ pc'[q] = "done" <=> pc[q] = "done"
                            /\ next'[q].subgraph = next[q].subgraph
                            /\ pc'[q] \in Loading => pc[q] \in Loading
    BY <1>2 DEF Grows, IssuesNothing, Loading
  <2> QED
    BY <1>2, <2>1, WeightsStay
<1> QED
  BY <1>5, <1>6, <1>7, <1>8 DEF Inv


-----------------------------------------------------------------------------
(* Calibration counts what a module sees.                                  *)

LEMMA CountsNext ==
  ASSUME NEW l \in Nat, NEW S \in SUBSET (1 .. l), NEW n \in Nat
  PROVE  /\ Cardinality(UpTo(S, n)) \in Nat
         /\ Cardinality(UpTo(S, n + 1))
              = IF n + 1 \in S THEN Cardinality(UpTo(S, n)) + 1 ELSE Cardinality(UpTo(S, n))
<1>1. IsFiniteSet(UpTo(S, n)) /\ Cardinality(UpTo(S, n)) \in Nat
  <2>1. IsFiniteSet(1 .. l)
    BY FS_Interval
  <2>2. UpTo(S, n) \subseteq 1 .. l
    BY DEF UpTo
  <2> QED
    BY <2>1, <2>2, FS_Subset, FS_CardinalityType
<1>2. \A i \in S : i <= n + 1 <=> i <= n \/ i = n + 1
  <2>1. \A i \in 1 .. l : i <= n + 1 <=> i <= n \/ i = n + 1
    OBVIOUS
  <2> QED
    BY <2>1
<1>3. ~(n + 1 <= n)
  OBVIOUS
<1>4. CASE n + 1 \in S
  <2>1. UpTo(S, n + 1) = UpTo(S, n) \cup {n + 1} /\ n + 1 \notin UpTo(S, n)
    BY <1>2, <1>3, <1>4, Zenon DEF UpTo
  <2>2. Cardinality(UpTo(S, n + 1)) = Cardinality(UpTo(S, n)) + 1
    BY <1>1, <2>1, FS_AddElement
  <2> QED
    BY <1>1, <1>4, <2>2
<1>5. CASE n + 1 \notin S
  <2>1. UpTo(S, n + 1) = UpTo(S, n)
    BY <1>2, <1>5, Zenon DEF UpTo
  <2> QED
    BY <1>1, <1>5, <2>1
<1> QED
  BY <1>4, <1>5

LEMMA CallsSee ==
  ASSUME NEW r \in Ranks, NEW s \in Samples, NEW m \in ToSet(Subgraph(r))
  PROVE  /\ m \in Called(r, s)
              <=> (IsExpert(m) /\ run.block.skips => \E t \in TokensOf[s] : Reaches(t, m))
         /\ \A t : t \in Input(m, s) <=> t \in TokensOf[s] /\ Reaches(t, m)
<1>1. TokensOf[s] # {}
  BY DataAssumption
<1>2. \A t : t \in Input(m, s) <=> t \in TokensOf[s] /\ Reaches(t, m)
  BY DEF Input, ExpertInput, RoutedTo, Reaches
<1>3. IsExpert(m) => Input(m, s) = ExpertInput(run.block, m, TokensOf[s])
  BY DEF Input
<1>4. m \in Called(r, s) <=> (IsExpert(m) /\ run.block.skips => Input(m, s) # {})
  BY <1>3 DEF Called, IsCalled
<1> QED
  BY <1>1, <1>2, <1>4

LEMMA Accumulated ==
  ASSUME NEW h, NEW c, NEW x, NEW tokens, NEW entry,
         entry = [hessian |-> h, num |-> c, since |-> x],
         NEW new, new = Accumulate(entry, tokens)
  PROVE  /\ new.hessian = [t \in Tokens |-> IF t \in tokens THEN h[t] + 1 ELSE h[t]]
         /\ new.num = c + 1 /\ IsEntry(new)
<1>1. new.hessian = [t \in Tokens |-> IF t \in tokens THEN h[t] + 1 ELSE h[t]]
  BY DEF Accumulate
<1>2. new.num = c + 1 /\ new.since = x
  BY DEF Accumulate
<1>3. new = [hessian |-> new.hessian, num |-> new.num, since |-> new.since]
  BY DEF Accumulate
<1> QED
  BY <1>1, <1>2, <1>3 DEF IsEntry

(* One more batch.                                                         *)
LEMMA SeesNext ==
  ASSUME Typed, NEW r \in Ranks, NEW m \in ToSet(Subgraph(r)),
         NEW n \in Nat, n + 1 \in DOMAIN batches[r], NEW entry, IsEntry(entry), HasSeen(entry, r, m, n)
  PROVE  IF m \in Called(r, batches[r][n + 1])
           THEN /\ HasSeen(Accumulate(entry, Input(m, batches[r][n + 1])), r, m, n + 1)
                /\ IsEntry(Accumulate(entry, Input(m, batches[r][n + 1])))
         ELSE HasSeen(entry, r, m, n + 1)
<1> DEFINE s == batches[r][n + 1]
           new == Accumulate(entry, Input(m, s))
<1>1. /\ Len(batches[r]) \in Nat /\ DOMAIN batches[r] = 1 .. Len(batches[r]) /\ s \in Samples
      /\ \A t : BatchesWith(r, t, m) \in SUBSET (1 .. Len(batches[r]))
      /\ BatchesFor(r, m) \in SUBSET (1 .. Len(batches[r]))
  <2>1. batches[r] \in Seq(Samples)
    BY DEF Typed
  <2>2. Len(batches[r]) \in Nat /\ DOMAIN batches[r] = 1 .. Len(batches[r])
    BY <2>1
  <2> QED
    BY <2>1, <2>2 DEF BatchesWith, BatchesFor
<1>2. n + 1 \in BatchesFor(r, m) <=> m \in Called(r, s)
  BY <1>1, CallsSee DEF BatchesFor
<1>3. \A t : n + 1 \in BatchesWith(r, t, m) <=> t \in Input(m, s)
  BY <1>1, CallsSee DEF BatchesWith
<1>4. \A t : n + 1 \in BatchesWith(r, t, m) => n + 1 \in BatchesFor(r, m)
  BY DEF BatchesWith, BatchesFor
<1>5. \A t : Cardinality(UpTo(BatchesWith(r, t, m), n + 1))
               = IF t \in Input(m, s) THEN Cardinality(UpTo(BatchesWith(r, t, m), n)) + 1
                 ELSE Cardinality(UpTo(BatchesWith(r, t, m), n))
  BY <1>1, <1>3, CountsNext
<1>6. Cardinality(UpTo(BatchesFor(r, m), n + 1))
        = IF m \in Called(r, s) THEN Cardinality(UpTo(BatchesFor(r, m), n)) + 1
          ELSE Cardinality(UpTo(BatchesFor(r, m), n))
  BY <1>1, <1>2, CountsNext
<1>7. /\ entry.hessian = [t \in Tokens |-> Cardinality(UpTo(BatchesWith(r, t, m), n))]
      /\ entry.num = Cardinality(UpTo(BatchesFor(r, m), n))
  BY DEF HasSeen
<1> HIDE DEF s
<1>8. CASE m \in Called(r, s)
  <2>1. /\ new.hessian = [t \in Tokens |-> IF t \in Input(m, s) THEN entry.hessian[t] + 1
                                          ELSE entry.hessian[t]]
        /\ new.num = entry.num + 1 /\ IsEntry(new)
    BY Accumulated DEF IsEntry
  <2> HIDE DEF new
  <2>2. new.hessian = [t \in Tokens |-> Cardinality(UpTo(BatchesWith(r, t, m), n + 1))]
    BY <1>5, <1>7, <2>1
  <2>3. new.num = Cardinality(UpTo(BatchesFor(r, m), n + 1))
    BY <1>6, <1>7, <1>8, <2>1
  <2>4. IsEntry(new)
    BY <2>1
  <2>5. HasSeen(new, r, m, n + 1)
    BY <2>2, <2>3 DEF HasSeen
  <2> QED
    BY <1>8, <2>4, <2>5 DEF new, s
<1>9. CASE m \notin Called(r, s)
  <2>1. entry.hessian = [t \in Tokens |-> Cardinality(UpTo(BatchesWith(r, t, m), n + 1))]
    BY <1>2, <1>3, <1>4, <1>5, <1>7, <1>9
  <2>2. entry.num = Cardinality(UpTo(BatchesFor(r, m), n + 1))
    BY <1>6, <1>7, <1>9
  <2>3. HasSeen(entry, r, m, n + 1)
    BY <2>1, <2>2 DEF HasSeen
  <2> QED
    BY <1>9, <2>3 DEF s
<1> QED
  BY <1>8, <1>9

(* A module that was not called has seen nothing.                          *)
LEMMA SeenNothing ==
  ASSUME NEW r \in Ranks, NEW m, NEW n \in Nat, \A i \in BatchesFor(r, m) : i > n,
         NEW entry, entry.hessian = Empty, entry.num = 0,
         \A i \in DOMAIN batches[r] : i \in Nat
  PROVE  HasSeen(entry, r, m, n)
<1>1. UpTo(BatchesFor(r, m), n) = {}
  BY DEF BatchesFor, UpTo
<1>2. \A t : BatchesWith(r, t, m) \subseteq BatchesFor(r, m)
  BY DEF BatchesWith, BatchesFor
<1>3. \A t : UpTo(BatchesWith(r, t, m), n) = {}
  BY <1>1, <1>2 DEF UpTo
<1>4. Cardinality({}) = 0
  BY FS_EmptySet
<1>5. entry.hessian = [t \in Tokens |-> Cardinality(UpTo(BatchesWith(r, t, m), n))]
  BY <1>3, <1>4 DEF Empty
<1> QED
  BY <1>1, <1>4, <1>5 DEF HasSeen


LEMMA Calibrates ==
  ASSUME Inv, NEW r \in Ranks, Calibrate(r)
  PROVE  Inv'
<1> DEFINE n == Seen(r)
           s == batches[r][n + 1]
           called == Called(r, s)
<1>1. Typed /\ \A q \in Ranks : OfRank(q)
  BY DEF Inv
<1>2. /\ UNCHANGED <<run, pc, batches, weights, issued>> /\ pc[r] = "forward"
      /\ next' = [next EXCEPT ![r].batch = @ + 1]
      /\ n \in Nat /\ n + 1 = next[r].batch /\ n + 1 <= Len(batches[r])
      /\ hessians' = [hessians EXCEPT ![r] = CalibrateModules(@, called, s, n + 1)]
  <2>1. next[r] \in [batch : Nat \ {0}, subgraph : DOMAIN Subgraphs]
    BY <1>1 DEF Typed
  <2>2. n \in Nat /\ n + 1 = next[r].batch
    BY <2>1 DEF Seen
  <2> QED
    BY <2>2 DEF Calibrate
<1>3. batches[r] \in Seq(Samples) /\ Len(batches[r]) \in Nat
      /\ DOMAIN batches[r] = 1 .. Len(batches[r]) /\ n + 1 \in DOMAIN batches[r] /\ s \in Samples
      /\ \A i \in DOMAIN batches[r] : i \in Nat
  <2>1. batches[r] \in Seq(Samples)
    BY <1>1 DEF Typed
  <2>2. Len(batches[r]) \in Nat /\ DOMAIN batches[r] = 1 .. Len(batches[r])
    BY <2>1
  <2>3. n + 1 \in DOMAIN batches[r]
    BY <1>2, <2>2
  <2> QED
    BY <2>1, <2>2, <2>3
<1> HIDE DEF s
<1>4. /\ \A q \in Ranks : next'[q].subgraph = next[q].subgraph
      /\ next'[r].batch = n + 2 /\ Seen(r)' = n + 1
      /\ \A q \in Ranks \ {r} : next'[q] = next[q] /\ hessians'[q] = hessians[q]
      /\ hessians'[r] = CalibrateModules(hessians[r], called, s, n + 1)
  <2>1. next'[r].batch = n + 2
    BY <1>1, <1>2 DEF Typed
  <2>2. Seen(r)' = n + 1
    BY <1>2, <2>1 DEF Seen
  <2> QED
    BY <1>1, <1>2, <2>1, <2>2 DEF Typed
<1>5. Typed'
  <2>1. next' \in [Ranks -> [batch : Nat \ {0}, subgraph : DOMAIN Subgraphs]]
    <3>1. next \in [Ranks -> [batch : Nat \ {0}, subgraph : DOMAIN Subgraphs]]
      BY <1>1 DEF Typed
    <3>2. [next[r] EXCEPT !.batch = @ + 1] \in [batch : Nat \ {0}, subgraph : DOMAIN Subgraphs]
      BY <3>1
    <3> QED
      BY <1>2, <3>1, <3>2
  <2>2. hessians' = [q \in Ranks |-> hessians'[q]]
    BY <1>1, <1>2 DEF Typed
  <2> QED
    BY <1>1, <1>2, <2>1, <2>2 DEF Typed
<1> HIDE DEF n, called
<1>6. Counted(r)'
  <2>1. Counted(r)
    BY <1>1 DEF OfRank
  <2>2. called \subseteq ToSet(Subgraph(r)) /\ Subgraph(r)' = Subgraph(r)
    BY <1>4 DEF called, Called, Subgraph
  <2>3. DOMAIN hessians'[r] = DOMAIN hessians[r] \cup called
    BY <1>4 DEF CalibrateModules
  <2>4. DOMAIN hessians[r] \subseteq ToSet(Subgraph(r))
    BY <1>2, <2>1 DEF Counted
  <2>5. ASSUME NEW m \in ToSet(Subgraph(r))
        PROVE  IF m \in DOMAIN hessians'[r]
                 THEN HasSeen(hessians'[r][m], r, m, n + 1) /\ IsEntry(hessians'[r][m])
               ELSE \A i \in BatchesFor(r, m) : i > n + 1
    <3>1. CASE m \in called
      <4>1. PICK entry : /\ HasSeen(entry, r, m, n) /\ IsEntry(entry)
                         /\ hessians'[r][m] = Accumulate(entry, Input(m, s))
        <5>1. CASE m \in DOMAIN hessians[r]
          <6>1. HasSeen(hessians[r][m], r, m, n) /\ IsEntry(hessians[r][m])
            BY <1>2, <2>1, <5>1 DEF Counted, n
          <6>2. hessians'[r][m] = Accumulate(hessians[r][m], Input(m, s))
            BY <1>4, <3>1, <5>1 DEF CalibrateModules
          <6> QED
            BY <6>1, <6>2
        <5>2. CASE m \notin DOMAIN hessians[r]
          <6>1. PICK entry : entry = [hessian |-> Empty, num |-> 0, since |-> n + 1]
            OBVIOUS
          <6>2. entry.hessian = Empty /\ entry.num = 0 /\ IsEntry(entry)
            BY <6>1 DEF IsEntry
          <6>3. \A i \in BatchesFor(r, m) : i > n
            BY <1>2, <2>1, <5>2 DEF Counted, n
          <6>4. HasSeen(entry, r, m, n)
            BY <1>2, <1>3, <6>2, <6>3, SeenNothing
          <6>5. hessians'[r][m] = Accumulate(entry, Input(m, s))
            BY <1>4, <3>1, <5>2, <6>1 DEF CalibrateModules
          <6> QED
            BY <6>2, <6>4, <6>5
        <5> QED
          BY <5>1, <5>2
      <4>2. HasSeen(hessians'[r][m], r, m, n + 1) /\ IsEntry(hessians'[r][m])
        BY <1>1, <1>2, <1>3, <3>1, <4>1, SeesNext DEF called, s
      <4> QED
        BY <2>3, <3>1, <4>2
    <3>2. CASE m \notin called /\ m \in DOMAIN hessians[r]
      <4>1. HasSeen(hessians[r][m], r, m, n) /\ IsEntry(hessians[r][m])
        BY <1>2, <2>1, <3>2 DEF Counted, n
      <4>2. hessians'[r][m] = hessians[r][m]
        BY <1>4, <3>2 DEF CalibrateModules
      <4>3. PICK entry : entry = hessians[r][m]
        OBVIOUS
      <4>4. HasSeen(entry, r, m, n + 1)
        BY <1>1, <1>2, <1>3, <3>2, <4>1, <4>3, SeesNext DEF called, s
      <4> QED
        BY <2>3, <3>2, <4>1, <4>2, <4>3, <4>4
    <3>3. CASE m \notin called /\ m \notin DOMAIN hessians[r]
      <4>1. \A i \in BatchesFor(r, m) : i > n
        BY <1>2, <2>1, <3>3 DEF Counted, n
      <4>2. n + 1 \notin BatchesFor(r, m)
        BY <1>3, <3>3, CallsSee DEF BatchesFor, called, s
      <4>3. \A i \in BatchesFor(r, m) : i \in Nat
        BY <1>3 DEF BatchesFor
      <4>4. \A i \in BatchesFor(r, m) : i > n + 1
        <5>1. \A i \in Nat : i > n /\ i # n + 1 => i > n + 1
          BY <1>2
        <5> QED
          BY <4>1, <4>2, <4>3, <5>1
      <4> QED
        BY <2>3, <3>3, <4>4
    <3> QED
      BY <3>1, <3>2, <3>3
  <2>6. ASSUME NEW m \in ToSet(Subgraph(r))
        PROVE  IF m \in DOMAIN hessians'[r]
                 THEN HasSeen(hessians[r][m], r, m, Seen(r))' /\ IsEntry(hessians'[r][m])
               ELSE \A i \in BatchesFor(r, m)' : i > Seen(r)'
    <3>1. BatchesFor(r, m)' = BatchesFor(r, m)
      BY <1>2, SameData
    <3>2. PICK entry : entry = hessians'[r][m]
      OBVIOUS
    <3>3. HasSeen(hessians[r][m], r, m, Seen(r))' <=> HasSeen(entry, r, m, n + 1)
      BY <1>2, <1>4, <3>1, <3>2 DEF HasSeen, BatchesWith, Reaches, IsExpert
    <3> QED
      BY <1>4, <2>5, <3>1, <3>2, <3>3
  <2>7. Seen(r)' <= Len(batches'[r])
    BY <1>2, <1>4
  <2>8. DOMAIN hessians'[r] \subseteq ToSet(Subgraph(r))'
    BY <2>2, <2>3, <2>4
  <2> QED
    BY <2>2, <2>6, <2>7, <2>8 DEF Counted
<1>7. OfRank(r)'
  <2>1. Gathered(r)' /\ Forgotten(r)'
    BY <1>1, <1>2 DEF OfRank, Gathered, Forgotten, Loading
  <2>2. Divided(r)'
    BY <1>1, <1>2, SameData DEF OfRank
  <2>3. Issued(r)'
    <3>1. \A i \in DOMAIN Subgraphs : Reached(r, i) => Reached(r, i)'
      BY <1>2, <1>4 DEF Reached
    <3> QED
      BY <1>1, <1>2, <3>1, StillJustified DEF OfRank, Issued
  <2>4. ReductionsLast(r)'
    BY <1>2 DEF ReductionsLast
  <2> QED
    BY <1>6, <2>1, <2>2, <2>3, <2>4 DEF OfRank
<1>8. \A q \in Ranks \ {r} : OfRank(q)'
  BY <1>1, <1>2, <1>4, Unmoved
<1>9. Joined' /\ SumsRight' /\ NotYet' /\ FromRoots'
  <2>1. Grows /\ IssuesNothing
    BY <1>2 DEF Grows, IssuesNothing
  <2> QED
    BY <1>2, <1>4, <2>1, WeightsStay
<1> QED
  BY <1>5, <1>7, <1>8, <1>9 DEF Inv


(* Rank r lists the c modules it has hessians of, and issues a reduction   *)
(* for each after its first l operations.                                  *)
Reduces(r, l, c, list, bins, ops) ==
  /\ l = Len(issued[r]) /\ c = Cardinality(DOMAIN hessians[r])
  /\ list \in SortedByWeight(r) /\ DOMAIN list = 1 .. c
  /\ hessians' = [hessians EXCEPT ![r] =
                    Restrict(@, {list[i] : i \in {j \in DOMAIN list : bins[j] = r}})]
  /\ Appends(r, ops, c) /\ Grows
  /\ \A i \in 1 .. c :
       /\ list[i] \in DOMAIN hessians[r]
       /\ ops[i].kind = "reduce" /\ ops[i].root \in Ranks /\ ops[i].module = list[i]
       /\ ops[i].value = hessians[r][list[i]]
       /\ IsOperation(ops[i])

LEMMA Reducing ==
  ASSUME Inv, NEW r \in Ranks, ReduceHessians(r)
  PROVE  \E l, c \in Nat : \E list, bins, ops : Reduces(r, l, c, list, bins, ops)
<1>1. Typed /\ \A q \in Ranks : OfRank(q)
  BY DEF Inv
<1>2. pc[r] = "forward"
  BY DEF ReduceHessians
<1>3. PICK list, bins, ops :
        /\ list \in SortedByWeight(r) /\ bins \in [DOMAIN list -> Ranks]
        /\ ops = [i \in DOMAIN list |->
                    [kind |-> "reduce", root |-> bins[i], size |-> Columns[list[i]],
                     module |-> list[i], value |-> hessians[r][list[i]]]]
        /\ Issue(r, ops)
        /\ hessians' = [hessians EXCEPT ![r] =
                          Restrict(@, {list[i] : i \in {j \in DOMAIN list : bins[j] = r}})]
  <2>1. PICK list \in SortedByWeight(r) : \E bins \in [DOMAIN list -> Ranks] :
          /\ Issue(r, [i \in DOMAIN list |->
                        [kind |-> "reduce", root |-> bins[i], size |-> Columns[list[i]],
                         module |-> list[i], value |-> hessians[r][list[i]]]])
          /\ hessians' = [hessians EXCEPT ![r] =
                            Restrict(@, {list[i] : i \in {j \in DOMAIN list : bins[j] = r}})]
    BY DEF ReduceHessians
  <2>2. PICK bins \in [DOMAIN list -> Ranks] :
          /\ Issue(r, [i \in DOMAIN list |->
                        [kind |-> "reduce", root |-> bins[i], size |-> Columns[list[i]],
                         module |-> list[i], value |-> hessians[r][list[i]]]])
          /\ hessians' = [hessians EXCEPT ![r] =
                            Restrict(@, {list[i] : i \in {j \in DOMAIN list : bins[j] = r}})]
    BY <2>1
  <2>3. PICK ops : ops = [i \in DOMAIN list |->
                        [kind |-> "reduce", root |-> bins[i], size |-> Columns[list[i]],
                         module |-> list[i], value |-> hessians[r][list[i]]]]
    OBVIOUS
  <2>4. Issue(r, ops)
    BY <2>2, <2>3 DEF Issue
  <2>5. WITNESS list, bins, ops
  <2> QED
    BY <2>1, <2>2, <2>3, <2>4
<1>4. PICK c \in Nat : c = Cardinality(DOMAIN hessians[r])
  <2>1. IsFiniteSet(ToSet(Subgraph(r)))
    BY <1>1, ModelFacts DEF Typed, Subgraph
  <2>2. DOMAIN hessians[r] \subseteq ToSet(Subgraph(r))
    BY <1>1, <1>2 DEF OfRank, Counted
  <2> QED
    BY <2>1, <2>2, FS_Subset, FS_CardinalityType
<1>5. DOMAIN list = 1 .. c /\ \A i \in 1 .. c : list[i] \in DOMAIN hessians[r]
  BY <1>3, <1>4 DEF SortedByWeight, Bijection, Injection
<1>6. /\ OfLength(ops, c)
      /\ \A i \in 1 .. c :
           /\ ops[i].kind = "reduce" /\ ops[i].root \in Ranks /\ ops[i].module = list[i]
           /\ ops[i].value = hessians[r][list[i]]
           /\ IsOperation(ops[i])
  BY <1>3, <1>5 DEF OfLength, IsOperation
<1>7. Appends(r, ops, c) /\ Grows
  BY <1>1, <1>3, <1>6, Issuing
<1>8. PICK l \in Nat : l = Len(issued[r])
  BY <1>7 DEF Appends
<1>9. Reduces(r, l, c, list, bins, ops)
  BY <1>3, <1>4, <1>5, <1>6, <1>7, <1>8 DEF Reduces
<1> QED
  BY <1>4, <1>8, <1>9

(* They are the rank's first reductions for the subgraph.                  *)
LEMMA ReducedOnce ==
  ASSUME Inv, NEW r \in Ranks, ReduceHessians(r), NEW l \in Nat, NEW c \in Nat,
         NEW list, NEW bins, NEW ops, Reduces(r, l, c, list, bins, ops)
  PROVE  Operations(r, "reduce")' = l + 1 .. l + c
<1>1. Typed /\ \A q \in Ranks : OfRank(q)
  BY DEF Inv
<1>2. pc[r] = "forward" /\ next' = next
  BY DEF ReduceHessians
<1>3. /\ DOMAIN issued[r] = 1 .. l /\ DOMAIN issued'[r] = 1 .. l + c
      /\ \A k \in 1 .. l : issued'[r][k] = issued[r][k]
      /\ \A k \in l + 1 .. l + c : \E i \in 1 .. c : issued'[r][k] = ops[i]
  <2>1. Appends(r, ops, c) /\ Grows /\ l = Len(issued[r])
    BY DEF Reduces
  <2>2. \A k \in l + 1 .. l + c : issued'[r][k] = ops[k - l] /\ k - l \in 1 .. c
    BY <2>1 DEF Appends
  <2> QED
    BY <2>1, <2>2 DEF Appends, Grows
<1>4. \A k \in DOMAIN issued'[r] : k \in 1 .. l \/ k \in l + 1 .. l + c
  BY <1>3
<1>5. next[r].subgraph \in DOMAIN Subgraphs /\ Subgraph(r)' = Subgraph(r)
  BY <1>1, <1>2 DEF Typed, Subgraph
<1>6. \A k \in 1 .. l : issued[r][k].kind = "reduce" => issued[r][k].module \notin ToSet(Subgraph(r))
  <2> SUFFICES ASSUME NEW k \in 1 .. l, issued[r][k].kind = "reduce",
                      issued[r][k].module \in ToSet(Subgraph(r))
               PROVE  FALSE
    OBVIOUS
  <2>1. PICK i \in DOMAIN Subgraphs : issued[r][k].module \in ToSet(Subgraphs[i]) /\ Reached(r, i)
    BY <1>1, <1>3 DEF OfRank, Issued, Justified
  <2>2. i < next[r].subgraph
    BY <1>2, <2>1 DEF Reached
  <2>3. i # next[r].subgraph
    BY <1>5, <2>2, ModelFacts
  <2> QED
    BY <1>5, <2>1, <2>3, ModelAssumption DEF Subgraph
<1>7. \A k \in l + 1 .. l + c : /\ issued'[r][k].kind = "reduce"
                                 /\ issued'[r][k].module \in ToSet(Subgraph(r))
  <2>1. \A i \in 1 .. c : ops[i].kind = "reduce" /\ ops[i].module \in DOMAIN hessians[r]
    BY DEF Reduces
  <2>2. DOMAIN hessians[r] \subseteq ToSet(Subgraph(r))
    BY <1>1, <1>2 DEF OfRank, Counted
  <2> QED
    BY <1>3, <2>1, <2>2
<1>8. \A k \in l + 1 .. l + c : k \in DOMAIN issued'[r]
  BY <1>3
<1> QED
  BY <1>3, <1>4, <1>5, <1>6, <1>7, <1>8, Zenon DEF Operations

LEMMA ReducesHessians ==
  ASSUME Inv, NEW r \in Ranks, ReduceHessians(r)
  PROVE  Inv'
<1>1. Typed /\ \A q \in Ranks : OfRank(q)
  BY DEF Inv
<1>2. /\ UNCHANGED <<run, batches, next, weights>> /\ pc[r] = "forward"
      /\ next[r].batch > Len(batches[r]) /\ pc' = [pc EXCEPT ![r] = "reduce"]
  BY DEF ReduceHessians, Goto
<1>0. PICK l \in Nat, c \in Nat : \E list, bins, ops : Reduces(r, l, c, list, bins, ops)
  BY Reducing
<1>3. PICK list, bins, ops : Reduces(r, l, c, list, bins, ops)
  BY <1>0
<1>4. hessians' = [hessians EXCEPT ![r] =
                    Restrict(@, {list[i] : i \in {j \in DOMAIN list : bins[j] = r}})]
  BY <1>3 DEF Reduces
<1>5. DOMAIN list = 1 .. c /\ \A i \in 1 .. c : list[i] \in DOMAIN hessians[r]
  BY <1>3 DEF Reduces
<1>6. \A i \in 1 .. c :
        /\ ops[i].kind = "reduce" /\ ops[i].root \in Ranks /\ ops[i].module = list[i]
        /\ ops[i].value = hessians[r][list[i]]
        /\ IsOperation(ops[i])
  BY <1>3 DEF Reduces
<1>7. Appends(r, ops, c) /\ Grows
  BY <1>3 DEF Reduces
<1>8. l = Len(issued[r])
  BY <1>3 DEF Reduces
<1>9. /\ DOMAIN issued[r] = 1 .. l /\ DOMAIN issued'[r] = 1 .. l + c /\ Len(issued'[r]) = l + c
      /\ \A k \in 1 .. l : issued'[r][k] = issued[r][k]
      /\ \A k \in l + 1 .. l + c : \E i \in 1 .. c : issued'[r][k] = ops[i]
      /\ \A q \in Ranks \ {r} : issued'[q] = issued[q]
  <2>1. \A k \in l + 1 .. l + c : issued'[r][k] = ops[k - l] /\ k - l \in 1 .. c
    BY <1>7, <1>8 DEF Appends
  <2>2. \A k \in 1 .. l : issued'[r][k] = issued[r][k]
    BY <1>7, <1>8 DEF Appends, Grows
  <2> QED
    BY <1>7, <1>8, <2>1, <2>2 DEF Appends
<1>10. \A k \in DOMAIN issued'[r] : k \in 1 .. l \/ k \in l + 1 .. l + c
  BY <1>9
<1>11. next[r].subgraph \in DOMAIN Subgraphs /\ Seen(r) = Len(batches[r])
       /\ Subgraph(r)' = Subgraph(r)
  <2>1. next[r] \in [batch : Nat \ {0}, subgraph : DOMAIN Subgraphs] /\ batches[r] \in Seq(Samples)
    BY <1>1 DEF Typed
  <2>2. Seen(r) <= Len(batches[r])
    BY <1>1, <1>2 DEF OfRank, Counted
  <2>3. Len(batches[r]) \in Nat
    BY <2>1
  <2> QED
    BY <1>2, <2>1, <2>2, <2>3 DEF Seen, Subgraph
<1>12. Typed'
  <2>1. pc' \in [Ranks -> Loading \cup {"forward", "reduce", "broadcast", "done", "raised"}]
    BY <1>1, <1>2 DEF Typed
  <2>2. hessians' = [q \in Ranks |-> hessians'[q]]
    BY <1>1, <1>4 DEF Typed
  <2>3. weights' = [q \in Ranks |-> [m \in Modules |-> weights'[q][m]]]
    BY <1>1, <1>2 DEF Typed
  <2> QED
    BY <1>1, <1>2, <1>7, <2>1, <2>2, <2>3 DEF Typed, Appends
<1>13. \A m \in DOMAIN hessians[r] : m \in ToSet(Subgraph(r))
         /\ HasSeen(hessians[r][m], r, m, Len(batches[r]))
  BY <1>1, <1>2, <1>11 DEF OfRank, Counted
<1>14. Issued(r)'
  <2>1. ASSUME NEW k \in 1 .. l
        PROVE  Justified(issued[r][k], r)'
    <3>1. PICK op : op = issued[r][k]
      OBVIOUS
    <3>2. issued'[r][k] = op /\ Justified(op, r)
      BY <1>1, <1>9, <3>1 DEF OfRank, Issued
    <3>3. \A i \in DOMAIN Subgraphs : Reached(r, i) => Reached(r, i)'
      BY <1>2 DEF Reached
    <3>4. Justified(op, r)'
      BY <1>2, <3>2, <3>3, StillJustified
    <3> QED
      BY <3>2, <3>4
  <2>2. ASSUME NEW k \in l + 1 .. l + c
        PROVE  Justified(issued[r][k], r)'
    <3>1. PICK i \in 1 .. c : issued'[r][k] = ops[i]
      BY <1>9, <2>2
    <3>2. PICK op : op = ops[i]
      OBVIOUS
    <3>3. list[i] \in DOMAIN hessians[r]
      BY <1>5
    <3>4. HasSeen(hessians[r][list[i]], r, list[i], Len(batches[r])) /\ list[i] \in ToSet(Subgraph(r))
      BY <1>13, <3>3
    <3>5. op.value = hessians[r][list[i]] /\ op.module = list[i] /\ op.kind = "reduce"
          /\ op.root \in Ranks /\ IsOperation(op)
      BY <1>6, <3>2
    <3>6. HasSeen(op.value, r, op.module, Len(batches[r]))
      BY <3>4, <3>5
    <3>7. HasSeen(op.value, r, op.module, Len(batches[r]))'
      BY <1>2, <3>6, SameData
    <3>8. Reached(r, next[r].subgraph)'
      BY <1>1, <1>2 DEF Reached, Typed
    <3>9. op.module \in ToSet(Subgraphs[next[r].subgraph])
      BY <3>4, <3>5 DEF Subgraph
    <3>10. Justified(op, r)'
      BY <1>2, <1>11, <3>5, <3>7, <3>8, <3>9 DEF Justified
    <3> QED
      BY <3>1, <3>2, <3>10
  <2> QED
    BY <1>10, <2>1, <2>2 DEF Issued
<1>15. ReductionsLast(r)'
  <2>1. Operations(r, "reduce")' = l + 1 .. l + c
    BY <1>3, ReducedOnce
  <2>2. c \in 0 .. Len(issued'[r]) /\ Len(issued'[r]) - c + 1 = l + 1
    BY <1>9
  <2> QED
    BY <1>9, <2>1, <2>2 DEF ReductionsLast
<1>16. OfRank(r)'
  <2>1. Gathered(r)'
    <3>1. issued[r] # <<>> /\ issued[r][1].kind = "all_gather"
          /\ issued[r][1].value = run.datasets[r].fingerprint
      BY <1>1, <1>2 DEF OfRank, Gathered
    <3>2. l # 0
      BY <1>1, <1>8, <3>1 DEF Typed, Sequence
    <3>3. issued'[r][1] = issued[r][1]
      BY <1>9, <3>2
    <3>4. issued'[r] # <<>>
      <4>1. l + c # 0
        BY <3>2
      <4> QED
        BY <1>9, <4>1
    <3> QED
      BY <1>1, <1>2, <3>1, <3>3, <3>4 DEF Gathered, Loading, Typed
  <2>2. Divided(r)'
    BY <1>1, <1>2, SameData DEF OfRank
  <2>3. Forgotten(r)' /\ Counted(r)'
    BY <1>1, <1>2 DEF Forgotten, Counted, Loading, Typed
  <2> QED
    BY <1>14, <1>15, <2>1, <2>2, <2>3 DEF OfRank
<1>17. \A q \in Ranks \ {r} : OfRank(q)'
  BY <1>1, <1>2, <1>4, <1>9, Unmoved DEF Typed
<1>18. Joined' /\ SumsRight' /\ NotYet' /\ FromRoots'
  <2>1. IssuesNothing
    <3>1. \A k \in DOMAIN issued'[r] : k \notin DOMAIN issued[r] => issued'[r][k].kind = "reduce"
      BY <1>6, <1>9, <1>10, SMTT(30)
    <3> QED
      BY <1>9, <3>1 DEF IssuesNothing
  <2>2. \A q \in Ranks : /\ pc'[q] \in {"broadcast", "done"} <=> pc[q] \in {"broadcast", "done"}
                         /\ pc'[q] = "done" <=> pc[q] = "done"
                         /\ next'[q].subgraph = next[q].subgraph
                         /\ pc'[q] \in Loading => pc[q] \in Loading
    BY <1>1, <1>2 DEF Typed, Loading
  <2> QED
    BY <1>2, <1>7, <2>1, <2>2, WeightsStay
<1> QED
  BY <1>12, <1>16, <1>17, <1>18 DEF Inv


-----------------------------------------------------------------------------
(* Compression.                                                            *)

(* What the reductions sum up to.                                          *)
LEMMA SumIsRight ==
  ASSUME Inv, NEW r \in Ranks, Complete(r), ListsAgree,
         NEW k \in DOMAIN issued[r], issued[r][k].kind = "reduce"
  PROVE  [hessian |-> SumOfHessians(k), num |-> SumOfNums(k)] = SeenByAll(issued[r][k].module)
<1> DEFINE m == issued[r][k].module
<1>1. ASSUME NEW q \in Ranks
      PROVE  /\ \A t \in Tokens : issued[q][k].value.hessian[t] = Cardinality(BatchesWith(q, t, m))
             /\ issued[q][k].value.num = Cardinality(BatchesFor(q, m))
  <2>1. k \in DOMAIN issued[q] /\ issued[q][k].kind = "reduce"
    BY <1>1 DEF Complete, Agrees
  <2>2. issued[q][k].module = m
    BY <1>1, <2>1 DEF ListsAgree
  <2>3. HasSeen(issued[q][k].value, q, m, Len(batches[q]))
    BY <1>1, <2>1, <2>2 DEF Inv, OfRank, Issued, Justified
  <2>4. batches[q] \in Seq(Samples)
    BY <1>1 DEF Inv, Typed
  <2>5. DOMAIN batches[q] = 1 .. Len(batches[q])
    BY <2>4
  <2>6. UpTo(BatchesFor(q, m), Len(batches[q])) = BatchesFor(q, m)
        /\ \A t : UpTo(BatchesWith(q, t, m), Len(batches[q])) = BatchesWith(q, t, m)
    BY <2>5 DEF UpTo, BatchesFor, BatchesWith
  <2> HIDE DEF m
  <2> QED
    BY <2>3, <2>6 DEF HasSeen
<1> HIDE DEF m
<1>2. SumOfHessians(k)
        = [t \in Tokens |-> SumFunction([q \in Ranks |-> Cardinality(BatchesWith(q, t, m))])]
  <2>1. ASSUME NEW t \in Tokens
        PROVE  [q \in Ranks |-> issued[q][k].value.hessian[t]]
                 = [q \in Ranks |-> Cardinality(BatchesWith(q, t, m))]
    BY <1>1, <2>1
  <2> QED
    BY <2>1 DEF SumOfHessians
<1>3. SumOfNums(k) = SumFunction([q \in Ranks |-> Cardinality(BatchesFor(q, m))])
  <2>1. [q \in Ranks |-> issued[q][k].value.num] = [q \in Ranks |-> Cardinality(BatchesFor(q, m))]
    BY <1>1
  <2> QED
    BY <2>1 DEF SumOfNums
<1> QED
  BY <1>2, <1>3 DEF SeenByAll, m

BroadcastWith(op, value) == [op EXCEPT !.kind = "broadcast", !.value = value]

LEMMA BroadcastOf ==
  ASSUME NEW op, IsOperation(op), NEW value, NEW new, new = BroadcastWith(op, value)
  PROVE  /\ new.kind = "broadcast" /\ new.root = op.root /\ new.module = op.module
         /\ new.value = value /\ IsOperation(new)
<1>1. PICK a, b, c, d, e : op = [kind |-> a, root |-> b, size |-> c, module |-> d, value |-> e]
  BY DEF IsOperation
<1>2. new.kind = "broadcast" /\ new.root = op.root /\ new.module = op.module /\ new.value = value
  BY <1>1 DEF BroadcastWith
<1>3. new = [kind |-> new.kind, root |-> new.root, size |-> new.size, module |-> new.module,
             value |-> new.value]
  BY <1>1 DEF BroadcastWith
<1> QED
  BY <1>2, <1>3 DEF IsOperation

(* Who has issued a second operation has its data, and so do all ranks     *)
(* once it is complete.                                                    *)
LEMMA AllHaveData ==
  ASSUME Inv, NEW r \in Ranks, Complete(r), NEW k \in DOMAIN issued[r],
         issued[r][k].kind # "all_gather", NEW q \in Ranks
  PROVE  pc[q] \notin Loading
<1>1. issued[r] # <<>> /\ Len(issued[r]) \in Nat /\ DOMAIN issued[r] = 1 .. Len(issued[r])
  BY SequenceFacts DEF Inv, Typed
<1>2. k \in Nat /\ k # 1 /\ k > 1
  BY <1>1 DEF Inv, OfRank, Gathered
<1>3. k \in DOMAIN issued[q] /\ Len(issued[q]) \in Nat /\ DOMAIN issued[q] = 1 .. Len(issued[q])
  BY SequenceFacts DEF Inv, Typed, Complete
<1>4. ~(Len(issued[q]) <= 1)
  BY <1>2, <1>3
<1> QED
  BY <1>4 DEF Inv, OfRank, Gathered


(* What a rank compresses, and what it then sends.                         *)
Mine(r) == {k \in Operations(r, "reduce") : issued[r][k].root = r}

LEMMA Compression ==
  ASSUME Inv, NEW r \in Ranks, CompressModules(r)
  PROVE  /\ weights' = [weights EXCEPT ![r] = [m \in Modules |-> weights'[r][m]]]
         /\ \A m \in Modules :
              IF \E k \in Mine(r) : issued[r][k].module = m
                THEN ListsAgree /\ ~run.offload => weights'[r][m] = SeenByAll(m)
              ELSE weights'[r][m] = weights[r][m]
<1> DEFINE Chosen(m) == CHOOSE k \in Mine(r) : issued[r][k].module = m
<1>1. PICK early \in SUBSET Mine(r) :
        /\ early # {} => run.offload
        /\ weights' = [weights EXCEPT ![r] = [m \in Modules |->
             IF \E k \in Mine(r) : issued[r][k].module = m
               THEN [hessian |-> IF Chosen(m) \in early THEN issued[r][Chosen(m)].value.hessian
                                                         ELSE SumOfHessians(Chosen(m)),
                     num |-> SumOfNums(Chosen(m))]
               ELSE @[m]]]
  BY DEF CompressModules, Mine
<1>2. \A m \in Modules : weights'[r][m] =
        IF \E k \in Mine(r) : issued[r][k].module = m
          THEN [hessian |-> IF Chosen(m) \in early THEN issued[r][Chosen(m)].value.hessian
                                                    ELSE SumOfHessians(Chosen(m)),
                num |-> SumOfNums(Chosen(m))]
          ELSE weights[r][m]
  BY <1>1 DEF Inv, Typed
<1>3. ASSUME NEW m \in Modules, \E k \in Mine(r) : issued[r][k].module = m, ListsAgree, ~run.offload
      PROVE  weights'[r][m] = SeenByAll(m)
  <2>1. Chosen(m) \in Mine(r) /\ issued[r][Chosen(m)].module = m
    BY <1>3
  <2>2. Chosen(m) \notin early
    BY <1>1, <1>3
  <2>3. weights'[r][m] = [hessian |-> SumOfHessians(Chosen(m)), num |-> SumOfNums(Chosen(m))]
    BY <1>2, <1>3, <2>2
  <2>4. PICK k : k = Chosen(m)
    OBVIOUS
  <2> HIDE DEF Chosen
  <2>5. k \in DOMAIN issued[r] /\ issued[r][k].kind = "reduce" /\ issued[r][k].module = m
    BY <2>1, <2>4 DEF Mine, Operations
  <2>6. Complete(r)
    BY DEF CompressModules
  <2>7. [hessian |-> SumOfHessians(k), num |-> SumOfNums(k)] = SeenByAll(m)
    BY <1>3, <2>5, <2>6, SumIsRight
  <2> QED
    BY <2>3, <2>4, <2>7
<1>4. weights' = [weights EXCEPT ![r] = [m \in Modules |-> weights'[r][m]]]
  BY <1>1 DEF Inv, Typed
<1> QED
  BY <1>2, <1>3, <1>4

(* The n reductions of r come after the first l - n operations; a          *)
(* broadcast follows for the module of each.                               *)
Sends(r, l, n, ops) ==
  /\ l = Len(issued[r]) /\ n <= l /\ Operations(r, "reduce") = l - n + 1 .. l
  /\ Appends(r, ops, n) /\ Grows
  /\ \A i \in 1 .. n : \E k \in Operations(r, "reduce") :
       /\ k = l - n + i
       /\ ops[i].kind = "broadcast" /\ ops[i].root = issued[r][k].root
       /\ ops[i].module = issued[r][k].module
       /\ ops[i].value = weights'[r][ops[i].module] /\ IsOperation(ops[i])
  /\ \A k \in Operations(r, "reduce") : \E i \in 1 .. n : ops[i].module = issued[r][k].module

LEMMA Sending ==
  ASSUME Inv, NEW r \in Ranks, CompressModules(r)
  PROVE  \E l, n \in Nat : \E ops : Sends(r, l, n, ops)
<1>1. Typed /\ OfRank(r)
  BY DEF Inv
<1>2. pc[r] = "reduce"
  BY DEF CompressModules
<1>3. PICK l \in Nat : l = Len(issued[r])
  BY <1>1, SequenceFacts DEF Typed
<1>4. PICK n \in 0 .. l : Operations(r, "reduce") = l - n + 1 .. l
  BY <1>1, <1>2, <1>3 DEF OfRank, ReductionsLast
<1>5. Cardinality(Operations(r, "reduce")) = n
  BY <1>4, FS_Interval
<1>6. PICK ops :
        /\ ops = [i \in 1 .. n |-> BroadcastWith(issued[r][l - n + i],
                                                 weights'[r][issued[r][l - n + i].module])]
        /\ Issue(r, ops)
  BY <1>3, <1>5 DEF CompressModules, Issue, BroadcastWith
<1>7. ASSUME NEW i \in 1 .. n
      PROVE  \E k \in Operations(r, "reduce") :
               /\ k = l - n + i
               /\ ops[i].kind = "broadcast" /\ ops[i].root = issued[r][k].root
               /\ ops[i].module = issued[r][k].module
               /\ ops[i].value = weights'[r][ops[i].module] /\ IsOperation(ops[i])
  <2>1. PICK k : k = l - n + i
    OBVIOUS
  <2>2. k \in Operations(r, "reduce")
    BY <1>4, <2>1
  <2>3. PICK op, value, new : /\ op = issued[r][k] /\ value = weights'[r][op.module]
                              /\ new = ops[i]
    OBVIOUS
  <2>4. IsOperation(op)
    BY <1>1, <2>2, <2>3 DEF OfRank, Issued, Justified, Operations
  <2>5. new = BroadcastWith(op, value)
    BY <1>6, <2>1, <2>3
  <2>6. /\ new.kind = "broadcast" /\ new.root = op.root /\ new.module = op.module
        /\ new.value = value /\ IsOperation(new)
    BY <2>4, <2>5, BroadcastOf
  <2> QED
    BY <2>1, <2>2, <2>3, <2>6
<1>8. ASSUME NEW k \in Operations(r, "reduce")
      PROVE  \E i \in 1 .. n : ops[i].module = issued[r][k].module
  <2>1. PICK i \in 1 .. n : k = l - n + i
    <3>1. k - (l - n) \in 1 .. n /\ k = l - n + (k - (l - n))
      BY <1>4, <1>8
    <3> QED
      BY <3>1
  <2> QED
    BY <1>7, <2>1
<1>9. Appends(r, ops, n) /\ Grows
  <2>1. OfLength(ops, n) /\ n \in Nat
    BY <1>6 DEF OfLength
  <2> QED
    BY <1>1, <1>6, <2>1, Issuing
<1>10. n \in Nat /\ n <= l
  OBVIOUS
<1>11. \A i \in 1 .. n : \E k \in Operations(r, "reduce") :
         /\ k = l - n + i
         /\ ops[i].kind = "broadcast" /\ ops[i].root = issued[r][k].root
         /\ ops[i].module = issued[r][k].module
         /\ ops[i].value = weights'[r][ops[i].module] /\ IsOperation(ops[i])
  BY <1>7
<1>12. Sends(r, l, n, ops)
  BY <1>3, <1>4, <1>8, <1>9, <1>10, <1>11 DEF Sends
<1> QED
  BY <1>10, <1>12


LEMMA Compressing ==
  ASSUME NEW r, CompressModules(r)
  PROVE  /\ UNCHANGED <<run, batches, next>> /\ pc[r] = "reduce" /\ Complete(r)
         /\ hessians' = [hessians EXCEPT ![r] = <<>>] /\ pc' = [pc EXCEPT ![r] = "broadcast"]
         /\ \E ops : Issue(r, ops)
BY Zenon DEF CompressModules, Goto

LEMMA CompressesModules ==
  ASSUME Inv, NEW r \in Ranks, CompressModules(r)
  PROVE  Inv'
<1>1. Typed /\ (\A q \in Ranks : OfRank(q)) /\ Joined /\ SumsRight /\ NotYet /\ FromRoots
  BY DEF Inv
<1>2. /\ UNCHANGED <<run, batches, next>> /\ pc[r] = "reduce" /\ Complete(r)
      /\ hessians' = [hessians EXCEPT ![r] = <<>>] /\ pc' = [pc EXCEPT ![r] = "broadcast"]
  BY Compressing
<1>0. PICK l \in Nat, n \in Nat : \E ops : Sends(r, l, n, ops)
  BY Sending
<1>3. PICK ops : Sends(r, l, n, ops)
  BY <1>0
<1>4. /\ DOMAIN issued[r] = 1 .. l /\ DOMAIN issued'[r] = 1 .. l + n
      /\ \A k \in 1 .. l : issued'[r][k] = issued[r][k]
      /\ \A k \in l + 1 .. l + n : \E i \in 1 .. n : issued'[r][k] = ops[i]
      /\ \A i \in 1 .. n : l + i \in l + 1 .. l + n /\ issued'[r][l + i] = ops[i]
      /\ \A q \in Ranks \ {r} : issued'[q] = issued[q]
      /\ issued' = [q \in Ranks |-> issued'[q]] /\ \A q \in Ranks : Sequence(issued'[q])
      /\ Grows
  <2>1. Appends(r, ops, n) /\ l = Len(issued[r]) /\ Grows
    BY <1>3 DEF Sends
  <2>2. \A k \in l + 1 .. l + n : issued'[r][k] = ops[k - l] /\ k - l \in 1 .. n
    BY <2>1 DEF Appends
  <2>3. \A i \in 1 .. n : l + i \in l + 1 .. l + n /\ l + i - l = i
    OBVIOUS
  <2>4. /\ DOMAIN issued[r] = 1 .. l /\ DOMAIN issued'[r] = 1 .. l + n
        /\ \A q \in Ranks \ {r} : issued'[q] = issued[q]
        /\ issued' = [q \in Ranks |-> issued'[q]] /\ \A q \in Ranks : Sequence(issued'[q])
    BY <2>1 DEF Appends
  <2>5. \A k \in 1 .. l : issued'[r][k] = issued[r][k]
    BY <2>1, <2>4 DEF Grows
  <2>6. \A k \in l + 1 .. l + n : \E i \in 1 .. n : issued'[r][k] = ops[i]
    BY <2>2
  <2>7. \A i \in 1 .. n : l + i \in l + 1 .. l + n /\ issued'[r][l + i] = ops[i]
    BY <2>2, <2>3
  <2> QED
    BY <2>1, <2>4, <2>5, <2>6, <2>7
<1>5. \A k \in DOMAIN issued'[r] : k \in 1 .. l \/ k \in l + 1 .. l + n
  BY <1>4
<1>6. next[r].subgraph \in DOMAIN Subgraphs /\ Subgraph(r)' = Subgraph(r)
      /\ Subgraph(r) = Subgraphs[next[r].subgraph]
  BY <1>1, <1>2 DEF Typed, Subgraph
<1>7. \A i \in 1 .. n : /\ ops[i].kind = "broadcast" /\ ops[i].root \in Ranks
                        /\ ops[i].module \in ToSet(Subgraph(r)) /\ IsOperation(ops[i])
                        /\ ops[i].value = weights'[r][ops[i].module]
  BY <1>1, <1>3 DEF Sends, Operations, OfRank, Issued, Justified
<1>8. /\ weights' = [weights EXCEPT ![r] = [m \in Modules |-> weights'[r][m]]]
      /\ \A m \in Modules :
           IF \E k \in Mine(r) : issued[r][k].module = m
             THEN ListsAgree /\ ~run.offload => weights'[r][m] = SeenByAll(m)
           ELSE weights'[r][m] = weights[r][m]
  BY Compression
<1>9. /\ \A q \in Ranks \ {r} : weights'[q] = weights[q] /\ hessians'[q] = hessians[q]
                                 /\ pc'[q] = pc[q]
      /\ hessians'[r] = <<>> /\ pc'[r] = "broadcast"
  BY <1>1, <1>2, <1>8 DEF Typed
<1>10. \A m \in Modules : m \notin ToSet(Subgraph(r)) => weights'[r][m] = weights[r][m]
  BY <1>8 DEF Mine, Operations
<1>11. Typed'
  <2>1. pc' \in [Ranks -> Loading \cup {"forward", "reduce", "broadcast", "done", "raised"}]
    BY <1>1, <1>2 DEF Typed
  <2>2. hessians' = [q \in Ranks |-> hessians'[q]]
    BY <1>1, <1>2 DEF Typed
  <2>3. weights' = [q \in Ranks |-> [m \in Modules |-> weights'[q][m]]]
    <3>1. weights = [q \in Ranks |-> [m \in Modules |-> weights[q][m]]]
      BY <1>1 DEF Typed
    <3>2. \A q \in Ranks : weights'[q] = [m \in Modules |-> weights'[q][m]]
      BY <1>8, <3>1
    <3>3. DOMAIN weights' = Ranks /\ weights' = [q \in Ranks |-> weights'[q]]
      BY <1>8, <3>1
    <3> QED
      BY <3>2, <3>3
  <2> QED
    BY <1>1, <1>2, <1>4, <2>1, <2>2, <2>3 DEF Typed
<1>12. OfRank(r)'
  <2>1. Gathered(r)'
    <3>1. issued[r] # <<>> /\ issued[r][1].kind = "all_gather"
          /\ issued[r][1].value = run.datasets[r].fingerprint
      BY <1>1, <1>2 DEF OfRank, Gathered
    <3>2. l # 0
      BY <1>1, <1>4, <3>1 DEF Typed, Sequence
    <3>3. issued'[r][1] = issued[r][1]
      <4>1. 1 \in 1 .. l
        BY <3>2
      <4> QED
        BY <1>4, <4>1
    <3>4. issued'[r] # <<>>
      <4>1. 1 \in 1 .. l + n
        BY <3>2
      <4> QED
        BY <1>4, <4>1
    <3> QED
      BY <1>2, <1>9, <3>1, <3>3, <3>4 DEF Gathered, Loading
  <2>2. Divided(r)'
    BY <1>1, <1>2, SameData DEF OfRank
  <2>3. Forgotten(r)' /\ Counted(r)' /\ ReductionsLast(r)'
    BY <1>9 DEF Forgotten, Counted, ReductionsLast, Loading
  <2>4. Issued(r)'
    <3>1. ASSUME NEW k \in 1 .. l PROVE Justified(issued[r][k], r)'
      <4>1. PICK op : op = issued[r][k]
        OBVIOUS
      <4>2. issued'[r][k] = op /\ Justified(op, r)
        BY <1>1, <1>4, <3>1, <4>1 DEF OfRank, Issued
      <4>3. \A i \in DOMAIN Subgraphs : Reached(r, i) => Reached(r, i)'
        BY <1>2, <1>9 DEF Reached
      <4>4. Justified(op, r)'
        BY <1>2, <4>2, <4>3, StillJustified
      <4> QED
        BY <4>2, <4>4
    <3>2. ASSUME NEW k \in l + 1 .. l + n PROVE Justified(issued[r][k], r)'
      <4>1. PICK i \in 1 .. n : issued'[r][k] = ops[i]
        BY <1>4, <3>2
      <4>2. PICK op : op = ops[i]
        OBVIOUS
      <4>3. op.kind = "broadcast" /\ op.root \in Ranks /\ IsOperation(op)
            /\ op.module \in ToSet(Subgraphs[next[r].subgraph])
        BY <1>6, <1>7, <4>2
      <4>4. Reached(r, next[r].subgraph)'
        BY <1>2, <1>9 DEF Reached
      <4>5. Justified(op, r)'
        <5>1. \E j \in DOMAIN Subgraphs : op.module \in ToSet(Subgraphs[j]) /\ Reached(r, j)'
          BY <1>2, <1>6, <4>3, <4>4
        <5> QED
          BY <4>3, <5>1 DEF Justified
      <4> QED
        BY <4>1, <4>2, <4>5
    <3> QED
      BY <1>5, <3>1, <3>2 DEF Issued
  <2> QED
    BY <2>1, <2>2, <2>3, <2>4 DEF OfRank
<1>13. \A q \in Ranks \ {r} : OfRank(q)'
  BY <1>1, <1>2, <1>4, <1>9, Unmoved
<1>14. Joined'
  <2>1. CASE Operations(r, "reduce") = {}
    <3>1. \A m \in Modules : weights'[r][m] = weights[r][m]
      BY <1>8, <2>1 DEF Mine
    <3>2. \A k \in DOMAIN issued'[r] : k \in DOMAIN issued[r] /\ issued'[r][k] = issued[r][k]
      BY <1>3, <1>4, <1>5, <2>1 DEF Sends
    <3> QED
      BY <1>1, <1>2, <1>4, <1>9, <3>1, <3>2 DEF Joined, Loading
  <2>2. CASE Operations(r, "reduce") # {}
    <3>1. \A q \in Ranks : pc[q] \notin Loading
      BY <1>2, <2>2, AllHaveData DEF Operations
    <3> QED
      BY <1>9, <3>1 DEF Joined, Loading
  <2> QED
    BY <2>1, <2>2
<1>15. SumsRight'
  <2> SUFFICES ASSUME ListsAgree', ~run.offload
               PROVE  \A q \in Ranks :
                        /\ \A m \in Modules : weights'[q][m].num # 0 => weights'[q][m] = SeenByAll(m)'
                        /\ \A k \in DOMAIN issued'[q] :
                             issued'[q][k].kind = "broadcast" /\ issued'[q][k].root = q
                               => issued'[q][k].value = SeenByAll(issued[q][k].module)'
    BY <1>2 DEF SumsRight
  <2>1. ListsAgree
    BY <1>4, AgreedBefore
  <2>2. \A m : SeenByAll(m)' = SeenByAll(m)
    BY <1>2, SameSums
  <2>3. \A m \in Modules : weights'[r][m].num # 0 => weights'[r][m] = SeenByAll(m)
    BY <1>1, <1>8, <2>1 DEF SumsRight
  <2>4. ASSUME NEW k \in l + 1 .. l + n, issued'[r][k].root = r
        PROVE  issued'[r][k].value = SeenByAll(issued'[r][k].module)
    <3>1. PICK i \in 1 .. n : issued'[r][k] = ops[i]
      BY <1>4, <2>4
    <3>2. PICK j \in Operations(r, "reduce") : ops[i].root = issued[r][j].root
                                              /\ ops[i].module = issued[r][j].module
      BY <1>3 DEF Sends
    <3>3. j \in Mine(r)
      BY <2>4, <3>1, <3>2 DEF Mine
    <3>4. ops[i].module \in Modules
      BY <1>6, <1>7, ModelFacts
    <3>5. weights'[r][ops[i].module] = SeenByAll(ops[i].module)
      BY <1>8, <2>1, <3>2, <3>3, <3>4
    <3> QED
      BY <1>7, <3>1, <3>5
  <2>5. \A k \in DOMAIN issued'[r] :
          issued'[r][k].kind = "broadcast" /\ issued'[r][k].root = r
            => issued'[r][k].value = SeenByAll(issued'[r][k].module)
    <3>1. \A k \in 1 .. l : k \in DOMAIN issued[r] /\ issued'[r][k] = issued[r][k]
      BY <1>4
    <3>2. \A k \in DOMAIN issued[r] : issued[r][k].kind = "broadcast" /\ issued[r][k].root = r
            => issued[r][k].value = SeenByAll(issued[r][k].module)
      BY <1>1, <1>2, <2>1 DEF SumsRight
    <3> QED
      BY <1>5, <2>4, <3>1, <3>2
  <2> QED
    BY <1>1, <1>4, <1>9, <2>1, <2>2, <2>3, <2>5 DEF SumsRight
<1>16. \A q \in Ranks, i \in DOMAIN Subgraphs : Passed(q, i)' <=> Passed(q, i)
  BY <1>2, <1>9 DEF Passed
<1>17. NotYet'
  <2> SUFFICES ASSUME NEW q \in Ranks, NEW i \in DOMAIN Subgraphs, ~Passed(q, i),
                      NEW m \in ToSet(Subgraphs[i])
               PROVE  \/ weights'[q][m] = Uncompressed
                      \/ pc'[q] = "broadcast" /\ \E k \in Broadcasts(q, i)' : issued'[q][k].module = m
    BY <1>16 DEF NotYet
  <2>1. \/ weights[q][m] = Uncompressed
        \/ pc[q] = "broadcast" /\ \E k \in Broadcasts(q, i) : issued[q][k].module = m
    BY <1>1 DEF NotYet
  <2>2. CASE q # r
    BY <1>4, <1>9, <2>1, <2>2 DEF Broadcasts
  <2>3. CASE q = r
    <3>1. weights[r][m] = Uncompressed /\ m \in Modules
      BY <1>2, <2>1, <2>3, ModelFacts
    <3>2. CASE \E k \in Mine(r) : issued[r][k].module = m
      <4>1. PICK k \in Operations(r, "reduce") : issued[r][k].module = m
        BY <3>2 DEF Mine
      <4>2. PICK j \in 1 .. n : ops[j].module = m
        BY <1>3, <4>1 DEF Sends
      <4>3. l + j \in DOMAIN issued'[r] /\ issued'[r][l + j] = ops[j]
        BY <1>4
      <4>4. l + j \in Broadcasts(r, i)'
        BY <1>7, <4>2, <4>3 DEF Broadcasts
      <4> QED
        BY <1>9, <2>3, <4>2, <4>3, <4>4
    <3>3. CASE ~ \E k \in Mine(r) : issued[r][k].module = m
      BY <1>8, <2>3, <3>1, <3>3
    <3> QED
      BY <3>2, <3>3
  <2> QED
    BY <2>2, <2>3
<1>18. FromRoots'
  <2>1. ASSUME NEW q \in Ranks, NEW i \in DOMAIN Subgraphs, Passed(q, i)
        PROVE  /\ Broadcasts(q, i)' = Broadcasts(q, i)
               /\ \A m \in ToSet(Subgraphs[i]) : weights'[q][m] = weights[q][m]
    <3>1. CASE q # r
      BY <1>4, <1>9, <3>1 DEF Broadcasts
    <3>2. CASE q = r
      <4>1. i # next[r].subgraph
        BY <1>2, <1>6, <2>1, <3>2, ModelFacts DEF Passed
      <4>2. ToSet(Subgraphs[i]) \cap ToSet(Subgraph(r)) = {}
        BY <1>6, <4>1, ModelAssumption
      <4>3. \A k \in l + 1 .. l + n : issued'[r][k].module \notin ToSet(Subgraphs[i])
        BY <1>4, <1>7, <4>2, ZenonT(60)
      <4>4. Broadcasts(r, i)' = Broadcasts(r, i)
        <5>1. \A k \in 1 .. l : k \in DOMAIN issued'[r]
          BY <1>4
        <5> QED
          BY <1>4, <1>5, <4>3, <5>1 DEF Broadcasts
      <4> QED
        BY <1>10, <3>2, <4>2, <4>4, ModelFacts
    <3> QED
      BY <3>1, <3>2
  <2>2. ASSUME NEW q \in Ranks, NEW i \in DOMAIN Subgraphs, Passed(q, i)
        PROVE  /\ \A k \in Broadcasts(q, i)', p \in Ranks :
                    k \in DOMAIN issued'[p] /\ Agrees(issued'[q][k], issued'[p][k])
               /\ \A m \in ToSet(Subgraphs[i]) :
                    weights'[q][m] = IF \E k \in Broadcasts(q, i)' : issued'[q][k].module = m
                                       THEN Sent(q, i, m)' ELSE Uncompressed
    BY <1>1, <1>4, <2>1, <2>2, SentBefore DEF OfRank
  <2> QED
    BY <1>16, <2>2 DEF FromRoots
<1> QED
  BY <1>9, <1>11, <1>12, <1>13, <1>14, <1>15, <1>17, <1>18 DEF Inv


LEMMA ReceivesParams ==
  ASSUME Inv, NEW r \in Ranks, ReceiveParams(r)
  PROVE  Inv'
<1> DEFINE here == next[r].subgraph
<1>1. Typed /\ (\A q \in Ranks : OfRank(q)) /\ Joined /\ SumsRight /\ NotYet /\ FromRoots
  BY DEF Inv
<1>2. UNCHANGED <<run, batches, hessians, issued>> /\ pc[r] = "broadcast" /\ Complete(r)
  BY DEF ReceiveParams
<1>3. next[r] \in [batch : Nat \ {0}, subgraph : DOMAIN Subgraphs]
      /\ here \in DOMAIN Subgraphs /\ here \in Nat /\ DOMAIN Subgraphs = 1 .. Len(Subgraphs)
  <2>1. next[r] \in [batch : Nat \ {0}, subgraph : DOMAIN Subgraphs]
    BY <1>1 DEF Typed
  <2> QED
    BY <2>1, ModelFacts
<1>4. \/ /\ here < Len(Subgraphs) /\ here + 1 \in DOMAIN Subgraphs
         /\ next' = [next EXCEPT ![r] = [batch |-> 1, subgraph |-> here + 1]]
         /\ pc' = [pc EXCEPT ![r] = "forward"]
      \/ here = Len(Subgraphs) /\ next' = next /\ pc' = [pc EXCEPT ![r] = "done"]
  <2>1. here < Len(Subgraphs) => here + 1 \in DOMAIN Subgraphs
    BY <1>3, ModelFacts
  <2> QED
    BY <2>1 DEF ReceiveParams, Goto
<1>5. /\ weights' = [weights EXCEPT ![r] = [m \in Modules |-> weights'[r][m]]]
      /\ \A m \in Modules :
           weights'[r][m] = IF \E k \in Broadcasts(r, here) : issued[r][k].module = m
                              THEN Sent(r, here, m) ELSE weights[r][m]
  <2>1. Broadcasts(r, here) = Operations(r, "broadcast")
    BY DEF Broadcasts, Operations, Subgraph
  <2>2. weights' = [weights EXCEPT ![r] = [m \in Modules |->
                      IF \E k \in Broadcasts(r, here) : issued[r][k].module = m
                        THEN Sent(r, here, m) ELSE @[m]]]
    BY <2>1 DEF ReceiveParams, Sent
  <2> HIDE DEF here
  <2>3. \A m \in Modules :
          weights'[r][m] = IF \E k \in Broadcasts(r, here) : issued[r][k].module = m
                             THEN Sent(r, here, m) ELSE weights[r][m]
    BY <1>1, <2>2 DEF Typed
  <2>4. weights' = [weights EXCEPT ![r] = [m \in Modules |-> weights'[r][m]]]
    BY <1>1, <2>2 DEF Typed
  <2> QED
    BY <2>3, <2>4
<1>6. /\ \A q \in Ranks \ {r} : weights'[q] = weights[q] /\ next'[q] = next[q] /\ pc'[q] = pc[q]
      /\ pc'[r] \in {"forward", "done"}
      /\ pc'[r] = "forward" => next'[r] = [batch |-> 1, subgraph |-> here + 1]
      /\ pc'[r] = "done" => next'[r].subgraph = here
  BY <1>1, <1>4, <1>5 DEF Typed
<1>7. Typed'
  <2>1. pc' \in [Ranks -> Loading \cup {"forward", "reduce", "broadcast", "done", "raised"}]
    BY <1>1, <1>4 DEF Typed
  <2>2. next' \in [Ranks -> [batch : Nat \ {0}, subgraph : DOMAIN Subgraphs]]
    <3>1. here + 1 \in DOMAIN Subgraphs
            => [batch |-> 1, subgraph |-> here + 1] \in [batch : Nat \ {0}, subgraph : DOMAIN Subgraphs]
      OBVIOUS
    <3> HIDE DEF here
    <3> QED
      BY <1>1, <1>4, <3>1 DEF Typed
  <2>3. weights' = [q \in Ranks |-> [m \in Modules |-> weights'[q][m]]]
    <3>1. weights = [q \in Ranks |-> [m \in Modules |-> weights[q][m]]]
      BY <1>1 DEF Typed
    <3>2. \A q \in Ranks : weights'[q] = [m \in Modules |-> weights'[q][m]]
      BY <1>5, <3>1
    <3>3. weights' = [q \in Ranks |-> weights'[q]]
      BY <1>5, <3>1
    <3> QED
      BY <3>2, <3>3
  <2>4. hessians' = [q \in Ranks |-> hessians'[q]]
    BY <1>1, <1>2 DEF Typed
  <2> QED
    BY <1>1, <1>2, <2>1, <2>2, <2>3, <2>4 DEF Typed
<1> HIDE DEF here
<1>8. OfRank(r)'
  <2>1. Gathered(r)'
    BY <1>1, <1>2, <1>6 DEF OfRank, Gathered, Loading
  <2>2. Divided(r)'
    BY <1>1, <1>2, SameData DEF OfRank
  <2>3. DOMAIN hessians[r] = {}
    BY <1>1, <1>2 DEF OfRank, Forgotten
  <2>4. Forgotten(r)' /\ ReductionsLast(r)'
    BY <1>6 DEF Forgotten, ReductionsLast, Loading
  <2>5. Counted(r)'
    <3>1. ASSUME pc'[r] = "forward" PROVE Seen(r)' = 0
      BY <1>6, <3>1 DEF Seen
    <3>2. batches[r] \in Seq(Samples)
      BY <1>1 DEF Typed
    <3>3. Len(batches[r]) \in Nat /\ DOMAIN batches[r] = 1 .. Len(batches[r])
      BY <3>2
    <3>4. \A m : \A i \in BatchesFor(r, m)' : i > 0
      BY <1>2, <3>3 DEF BatchesFor
    <3> QED
      BY <1>2, <2>3, <3>1, <3>3, <3>4 DEF Counted
  <2>6. Issued(r)'
    <3>1. \A i \in DOMAIN Subgraphs : Reached(r, i) => Reached(r, i)'
      BY <1>2, <1>3, <1>6 DEF Reached, here
    <3> QED
      BY <1>1, <1>2, <3>1, StillJustified DEF OfRank, Issued
  <2> QED
    BY <2>1, <2>2, <2>4, <2>5, <2>6 DEF OfRank
<1>9. \A q \in Ranks \ {r} : OfRank(q)'
  BY <1>1, <1>2, <1>6, Unmoved
<1>10. \A k \in Broadcasts(r, here) : k \in DOMAIN issued[r] /\ issued[r][k].kind = "broadcast"
         /\ issued[r][k].root \in Ranks /\ issued[r][k].module \in ToSet(Subgraphs[here])
  BY <1>1 DEF Broadcasts, OfRank, Issued, Justified
<1>11. \A m \in Modules : m \notin ToSet(Subgraphs[here]) => weights'[r][m] = weights[r][m]
  BY <1>5, <1>10
<1>12. Joined'
  <2>1. CASE Broadcasts(r, here) = {}
    BY <1>1, <1>2, <1>5, <1>6, <2>1 DEF Joined, Loading
  <2>2. CASE Broadcasts(r, here) # {}
    <3>1. \A q \in Ranks : pc[q] \notin Loading
      BY <1>2, <1>10, <2>2, AllHaveData
    <3> QED
      BY <1>6, <3>1 DEF Joined, Loading
  <2> QED
    BY <2>1, <2>2
<1>13. SumsRight'
  <2> SUFFICES ASSUME ListsAgree, ~run.offload
               PROVE  \A m \in Modules : weights'[r][m].num # 0 => weights'[r][m] = SeenByAll(m)
    <3>1. \A m : SeenByAll(m)' = SeenByAll(m)
      BY <1>2, SameSums
    <3>2. ListsAgree' <=> ListsAgree
      BY <1>2 DEF ListsAgree
    <3> QED
      BY <1>1, <1>2, <1>6, <3>1, <3>2 DEF SumsRight
  <2> SUFFICES ASSUME NEW m \in Modules
               PROVE  weights'[r][m].num # 0 => weights'[r][m] = SeenByAll(m)
    OBVIOUS
  <2>1. CASE ~ \E k \in Broadcasts(r, here) : issued[r][k].module = m
    BY <1>1, <1>5, <2>1 DEF SumsRight
  <2>2. CASE \E k \in Broadcasts(r, here) : issued[r][k].module = m
    <3>1. PICK k : k = CHOOSE first \in Broadcasts(r, here) : issued[r][first].module = m
      OBVIOUS
    <3>2. k \in Broadcasts(r, here) /\ issued[r][k].module = m
      BY <2>2, <3>1
    <3>3. PICK q \in Ranks : q = issued[r][k].root
      BY <1>10, <3>2
    <3>4. weights'[r][m] = issued[q][k].value
      BY <1>5, <2>2, <3>1, <3>3 DEF Sent, Received
    <3>5. k \in DOMAIN issued[q] /\ Agrees(issued[r][k], issued[q][k])
      BY <1>2, <1>10, <3>2 DEF Complete
    <3>6. issued[q][k].kind = "broadcast" /\ issued[q][k].root = q
      BY <1>10, <3>2, <3>3, <3>5 DEF Agrees
    <3>7. issued[q][k].module = m
      BY <1>10, <3>2, <3>5 DEF ListsAgree
    <3> QED
      BY <1>1, <3>4, <3>5, <3>6, <3>7 DEF SumsRight
  <2> QED
    BY <2>1, <2>2
<1>14. \A i \in DOMAIN Subgraphs : Passed(r, i)' <=> Passed(r, i) \/ i = here
  <2>1. \A i \in DOMAIN Subgraphs : Passed(r, i) <=> here > i
    BY <1>2 DEF Passed, here
  <2>2. CASE pc'[r] = "forward"
    <3>1. \A i \in DOMAIN Subgraphs : Passed(r, i)' <=> here + 1 > i
      BY <1>6, <2>2 DEF Passed
    <3>2. \A i \in DOMAIN Subgraphs : here + 1 > i <=> here > i \/ i = here
      BY <1>3, ModelFacts
    <3> QED
      BY <2>1, <3>1, <3>2
  <2>3. CASE pc'[r] = "done"
    <3>1. here = Len(Subgraphs)
      BY <1>1, <1>4, <2>3 DEF Typed
    <3>2. \A i \in DOMAIN Subgraphs : here > i \/ i = here
      BY <1>3, <3>1, ModelFacts
    <3> QED
      BY <2>1, <2>3, <3>2 DEF Passed
  <2> QED
    BY <1>6, <2>2, <2>3
<1>15. \A q \in Ranks \ {r}, i \in DOMAIN Subgraphs : Passed(q, i)' <=> Passed(q, i)
  BY <1>6 DEF Passed
<1>16. ~Passed(r, here)
  BY <1>2, <1>3 DEF Passed, here
<1>17. \A q, i : Broadcasts(q, i)' = Broadcasts(q, i)
  BY <1>2 DEF Broadcasts
<1>18. NotYet'
  <2> SUFFICES ASSUME NEW q \in Ranks, NEW i \in DOMAIN Subgraphs, ~Passed(q, i)',
                      NEW m \in ToSet(Subgraphs[i])
               PROVE  \/ weights'[q][m] = Uncompressed
                      \/ pc'[q] = "broadcast" /\ \E k \in Broadcasts(q, i) : issued[q][k].module = m
    BY <1>2, <1>17 DEF NotYet
  <2>1. CASE q # r
    BY <1>1, <1>6, <1>15, <2>1 DEF NotYet
  <2>2. CASE q = r
    <3>1. ~Passed(r, i) /\ i # here
      BY <1>14, <2>2
    <3>2. ToSet(Subgraphs[i]) \cap ToSet(Subgraphs[here]) = {}
      BY <1>3, <3>1, ModelAssumption
    <3>3. m \in Modules /\ weights'[r][m] = weights[r][m]
      BY <1>11, <3>2, ModelFacts
    <3>4. ASSUME NEW k \in Broadcasts(r, i), issued[r][k].module = m PROVE FALSE
      <4>1. PICK j \in DOMAIN Subgraphs : m \in ToSet(Subgraphs[j]) /\ Reached(r, j)
        BY <1>1, <3>4 DEF Broadcasts, OfRank, Issued, Justified
      <4>2. j = i
        BY <4>1, ModelAssumption
      <4> QED
        BY <1>2, <3>1, <4>1, <4>2 DEF Reached, Passed, here
    <3>5. weights[r][m] = Uncompressed
      BY <1>1, <3>1, <3>4 DEF NotYet
    <3> QED
      BY <2>2, <3>3, <3>5
  <2> QED
    BY <2>1, <2>2
<1>19. FromRoots'
  <2> SUFFICES ASSUME NEW q \in Ranks, NEW i \in DOMAIN Subgraphs, Passed(q, i)'
               PROVE  /\ \A k \in Broadcasts(q, i), p \in Ranks :
                           k \in DOMAIN issued[p] /\ Agrees(issued[q][k], issued[p][k])
                      /\ \A m \in ToSet(Subgraphs[i]) :
                           weights'[q][m] = IF \E k \in Broadcasts(q, i) : issued[q][k].module = m
                                              THEN Sent(q, i, m) ELSE Uncompressed
    <3>1. \A q, i, m : Sent(q, i, m)' = Sent(q, i, m)
      BY <1>2, <1>17 DEF Sent, Received
    <3> QED
      BY <1>2, <1>17, <3>1 DEF FromRoots
  <2>1. CASE q # r
    BY <1>1, <1>6, <1>15, <2>1 DEF FromRoots
  <2>2. CASE q = r /\ i # here
    <3>1. Passed(r, i)
      BY <1>14, <2>2
    <3>2. ToSet(Subgraphs[i]) \cap ToSet(Subgraphs[here]) = {}
      BY <1>3, <2>2, ModelAssumption
    <3>3. \A m \in ToSet(Subgraphs[i]) : weights'[r][m] = weights[r][m]
      BY <1>11, <3>2, ModelFacts
    <3> QED
      BY <1>1, <2>2, <3>1, <3>3 DEF FromRoots
  <2>3. CASE q = r /\ i = here
    <3>1. \A k \in Broadcasts(r, here), p \in Ranks :
            k \in DOMAIN issued[p] /\ Agrees(issued[r][k], issued[p][k])
      BY <1>2, <1>10 DEF Complete
    <3>2. ASSUME NEW m \in ToSet(Subgraphs[here])
          PROVE  weights'[r][m] = IF \E k \in Broadcasts(r, here) : issued[r][k].module = m
                                    THEN Sent(r, here, m) ELSE Uncompressed
      <4>1. m \in Modules
        BY <1>3, ModelFacts
      <4>2. (~ \E k \in Broadcasts(r, here) : issued[r][k].module = m)
              => weights[r][m] = Uncompressed
        BY <1>1, <1>3, <1>16 DEF NotYet
      <4> QED
        BY <1>5, <4>1, <4>2
    <3> QED
      BY <2>3, <3>1, <3>2
  <2> QED
    BY <2>1, <2>2, <2>3
<1> QED
  BY <1>7, <1>8, <1>9, <1>12, <1>13, <1>18, <1>19 DEF Inv


-----------------------------------------------------------------------------
(* Theorems.                                                               *)

LEMMA Invariance == Spec => []Inv
<1>1. Init => Inv
  BY Initially
<1>2. ASSUME Inv, [Next]_vars
      PROVE  Inv'
  <2>1. CASE UNCHANGED vars
    <3>1. UNCHANGED <<run, batches, pc, next, hessians, weights, issued>>
      BY <2>1 DEF vars
    <3>2. Typed'
      <4>1. hessians' = [q \in Ranks |-> hessians'[q]]
        BY <1>2, <3>1 DEF Inv, Typed
      <4>2. weights' = [q \in Ranks |-> [m \in Modules |-> weights'[q][m]]]
        BY <1>2, <3>1 DEF Inv, Typed
      <4> QED
        BY <1>2, <3>1, <4>1, <4>2 DEF Inv, Typed
    <3>3. \A q \in Ranks : OfRank(q)'
      BY <1>2, <3>1, Unmoved DEF Inv
    <3>4. Joined' /\ SumsRight' /\ NotYet' /\ FromRoots'
      <4>1. Grows /\ IssuesNothing
        BY <3>1 DEF Grows, IssuesNothing
      <4> QED
        BY <1>2, <3>1, <4>1, WeightsStay
    <3> QED
      BY <3>2, <3>3, <3>4 DEF Inv
  <2>2. ASSUME NEW r \in Ranks, Step(r)
        PROVE  Inv'
    BY <1>2, <2>2, Loads, MakesSampler, Calibrates, ReducesHessians, CompressesModules,
       ReceivesParams DEF Step
  <2> QED
    BY <1>2, <2>1, <2>2 DEF Next
<1> QED
  BY <1>1, <1>2, PTL DEF Spec

-----------------------------------------------------------------------------
(* What the data of a rank make it issue: for each subgraph the reductions *)
(* of the modules its samples reach, sorted, and then their broadcasts.    *)

SortedCalls(r, i) ==
  {list \in Bijection(1 .. Cardinality(CalledIn(r, i)), CalledIn(r, i)) :
     \A j, k \in DOMAIN list : j < k =>
       \/ Columns[list[j]] > Columns[list[k]]
       \/ Columns[list[j]] = Columns[list[k]] /\ MetBefore(r, i, list[j], list[k])}

Lists(r) == [i \in DOMAIN Subgraphs |-> CHOOSE list \in SortedCalls(r, i) : TRUE]
Sizes(r) == [i \in DOMAIN Subgraphs |-> Cardinality(CalledIn(r, i))]

(* The operations of the first n subgraphs: those of subgraph i follow     *)
(* start[i], after the one that loads the data.                            *)
Follows(c, lists, sizes, n) ==
  /\ c.start \in [1 .. n + 1 -> Nat] /\ c.start[1] = 1 /\ c.module[1] = "none"
  /\ \A i \in 1 .. n :
       /\ c.start[i + 1] = c.start[i] + sizes[i] + sizes[i]
       /\ \A j \in 1 .. sizes[i] : /\ c.module[c.start[i] + j] = lists[i][j]
                                   /\ c.module[c.start[i] + sizes[i] + j] = lists[i][j]

CourseOf(lists, sizes) == CHOOSE c : Follows(c, lists, sizes, Len(Subgraphs))
Course(r) == CourseOf(Lists(r), Sizes(r))

Here(r) == next[r].subgraph
Start(r) == Course(r).start[Here(r)]
Size(r) == Sizes(r)[Here(r)]

(* Every rank keeps to its course.                                         *)
OnCourse(r) ==
  /\ pc[r] \in Loading => Here(r) = 1
  /\ pc[r] \in Loading \cup {"raised"} => Len(issued[r]) <= 1
  /\ pc[r] = "forward" =>
       /\ Len(issued[r]) = Start(r)
       /\ \A m \in DOMAIN hessians[r] :
            /\ hessians[r][m].since \in BatchesFor(r, m)
            /\ \A i \in BatchesFor(r, m) : hessians[r][m].since <= i
  /\ pc[r] = "reduce" => /\ Len(issued[r]) = Start(r) + Size(r)
                         /\ Operations(r, "reduce") = Start(r) + 1 .. Start(r) + Size(r)
  /\ pc[r] = "broadcast" => Len(issued[r]) = Start(r) + Size(r) + Size(r)
  /\ \A k \in DOMAIN issued[r] : issued[r][k].module = Course(r).module[k]

AllOnCourse == \A r \in Ranks : OnCourse(r)

(* One more subgraph.                                                      *)
LEMMA FollowsFurther ==
  ASSUME NEW c, NEW lists, NEW n \in Nat, NEW sizes, \A i \in 1 .. n + 1 : sizes[i] \in Nat,
         Follows(c, lists, sizes, n), \A i \in 1 .. n + 1 : c.start[i] <= c.start[n + 1]
  PROVE  \E d : /\ Follows(d, lists, sizes, n + 1)
                /\ \A i \in 1 .. n + 2 : d.start[i] <= d.start[n + 2]
<1>1. PICK s, z \in Nat : s = c.start[n + 1] /\ z = sizes[n + 1]
  BY DEF Follows
<1>2. PICK start : start = [i \in 1 .. n + 2 |-> IF i = n + 2 THEN s + z + z ELSE c.start[i]]
  OBVIOUS
<1>3. PICK module : module = [k \in Nat |-> IF k <= s THEN c.module[k]
                                            ELSE IF k <= s + z THEN lists[n + 1][k - s]
                                            ELSE lists[n + 1][k - s - z]]
  OBVIOUS
<1>4. /\ \A i \in 1 .. n + 1 : /\ start[i] = c.start[i] /\ start[i] \in Nat /\ start[i] <= s
                               /\ i \in 1 .. n + 2
      /\ start[n + 2] = s + z + z
  BY <1>1, <1>2 DEF Follows
<1>5. start \in [1 .. n + 2 -> Nat]
  <2>1. \A i \in 1 .. n + 2 : i \in 1 .. n + 1 \/ i = n + 2
    OBVIOUS
  <2>2. \A i \in 1 .. n + 2 : start[i] \in Nat
    BY <1>1, <1>4, <2>1
  <2>3. start = [i \in 1 .. n + 2 |-> start[i]]
    BY <1>2
  <2> QED
    BY <2>2, <2>3
<1>6. start[1] = 1 /\ module[1] = "none"
  <2>1. 1 \in 1 .. n + 1 /\ 1 \in Nat /\ c.start[1] = 1
    BY DEF Follows
  <2>2. 1 <= s
    BY <1>1, <2>1
  <2> QED
    BY <1>3, <1>4, <2>1, <2>2 DEF Follows
<1>7. ASSUME NEW i \in 1 .. n + 1
      PROVE  /\ start[i + 1] = start[i] + sizes[i] + sizes[i]
             /\ \A j \in 1 .. sizes[i] : /\ module[start[i] + j] = lists[i][j]
                                         /\ module[start[i] + sizes[i] + j] = lists[i][j]
  <2>1. CASE i = n + 1
    <3>1. start[i] = s /\ sizes[i] = z /\ start[i + 1] = s + z + z
      BY <1>1, <1>4, <2>1
    <3>2. ASSUME NEW j \in 1 .. z
          PROVE  module[s + j] = lists[n + 1][j] /\ module[s + z + j] = lists[n + 1][j]
      <4>1. s + j \in Nat /\ ~(s + j <= s) /\ s + j <= s + z /\ s + j - s = j
        BY <1>1, <3>2
      <4>2. s + z + j \in Nat /\ ~(s + z + j <= s) /\ ~(s + z + j <= s + z) /\ s + z + j - s - z = j
        BY <1>1, <3>2
      <4> QED
        BY <1>3, <4>1, <4>2
    <3> QED
      BY <2>1, <3>1, <3>2
  <2>2. CASE i # n + 1
    <3>1. i \in 1 .. n /\ i + 1 \in 1 .. n + 1 /\ i \in 1 .. n + 1
      BY <2>2
    <3>2. PICK a, b, y \in Nat : a = c.start[i] /\ b = c.start[i + 1] /\ y = sizes[i]
      BY <1>4, <3>1
    <3>3. b = a + y + y /\ b <= s /\ start[i] = a /\ start[i + 1] = b
      BY <1>4, <3>1, <3>2 DEF Follows
    <3>4. ASSUME NEW j \in 1 .. y
          PROVE  module[a + j] = lists[i][j] /\ module[a + y + j] = lists[i][j]
      <4>1. a + j \in Nat /\ a + j <= s /\ a + y + j \in Nat /\ a + y + j <= s
        BY <1>1, <3>2, <3>3
      <4>2. c.module[a + j] = lists[i][j] /\ c.module[a + y + j] = lists[i][j]
        BY <3>1, <3>2 DEF Follows
      <4> QED
        BY <1>3, <4>1, <4>2
    <3> QED
      BY <3>2, <3>3, <3>4
  <2> QED
    BY <2>1, <2>2
<1>8. PICK d : d = [start |-> start, module |-> module]
  OBVIOUS
<1>9. d.start = start /\ d.module = module /\ n + 1 + 1 = n + 2
  BY <1>8
<1>10. \A i \in 1 .. n + 2 : start[i] <= start[n + 2]
  <2>1. \A i \in 1 .. n + 2 : i \in 1 .. n + 1 \/ i = n + 2
    OBVIOUS
  <2> QED
    BY <1>1, <1>4, <1>5, <2>1
<1>11. Follows(d, lists, sizes, n + 1)
  BY <1>5, <1>6, <1>7, <1>9 DEF Follows
<1> QED
  BY <1>9, <1>10, <1>11

LEMMA CourseExists ==
  ASSUME NEW lists, NEW sizes, \A i \in DOMAIN Subgraphs : sizes[i] \in Nat
  PROVE  Follows(CourseOf(lists, sizes), lists, sizes, Len(Subgraphs))
<1> DEFINE Reaching(n) == \E c : /\ Follows(c, lists, sizes, n)
                                 /\ \A i \in 1 .. n + 1 : c.start[i] <= c.start[n + 1]
           Defined == {n \in 0 .. Len(Subgraphs) : Reaching(n)}
<1>1. 0 \in Defined
  <2>1. PICK c : c = [start |-> [i \in 1 .. 1 |-> 1], module |-> [k \in 1 .. 1 |-> "none"]]
    OBVIOUS
  <2>2. c.start = [i \in 1 .. 1 |-> 1] /\ c.module = [k \in 1 .. 1 |-> "none"]
    BY <2>1
  <2>3. 1 \in 1 .. 1 /\ 0 + 1 = 1 /\ 1 .. 0 = {}
    OBVIOUS
  <2>4. Follows(c, lists, sizes, 0) /\ \A i \in 1 .. 1 : c.start[i] <= c.start[1]
    BY <2>2, <2>3 DEF Follows
  <2>5. 0 \in 0 .. Len(Subgraphs)
    BY ModelFacts
  <2> QED
    BY <2>3, <2>4, <2>5
<1>2. ASSUME NEW n \in 0 .. Len(Subgraphs), n \in Defined, n < Len(Subgraphs)
      PROVE  n + 1 \in Defined
  <2>1. PICK c : /\ Follows(c, lists, sizes, n)
                 /\ \A i \in 1 .. n + 1 : c.start[i] <= c.start[n + 1]
    BY <1>2
  <2>2. n \in Nat /\ n + 1 \in 0 .. Len(Subgraphs) /\ 1 .. n + 1 \subseteq DOMAIN Subgraphs
        /\ n + 1 + 1 = n + 2
    BY <1>2, ModelFacts
  <2>3. \A i \in 1 .. n + 1 : sizes[i] \in Nat
    BY <2>2
  <2>4. Reaching(n + 1)
    BY <2>1, <2>2, <2>3, FollowsFurther
  <2> HIDE DEF Reaching
  <2> QED
    BY <2>2, <2>4
<1>3. Len(Subgraphs) \in Defined
  <2> HIDE DEF Defined
  <2>1. 0 .. Len(Subgraphs) \subseteq Defined
    BY <1>1, <1>2, ModelFacts, UpToN
  <2> QED
    BY <2>1, ModelFacts
<1> QED
  BY <1>3 DEF CourseOf

LEMMA SizesAreNumbers ==
  ASSUME NEW r
  PROVE  \A i \in DOMAIN Subgraphs : /\ Sizes(r)[i] = Cardinality(CalledIn(r, i))
                                     /\ Sizes(r)[i] \in Nat
BY ModelFacts, FS_Subset, FS_CardinalityType DEF Sizes, CalledIn

LEMMA CourseFacts ==
  ASSUME NEW r
  PROVE  Follows(Course(r), Lists(r), Sizes(r), Len(Subgraphs))
BY SizesAreNumbers, CourseExists DEF Course

LEMMA StartFacts ==
  ASSUME Typed, NEW r \in Ranks
  PROVE  /\ Here(r) \in DOMAIN Subgraphs /\ Start(r) \in Nat /\ Size(r) \in Nat
         /\ Size(r) = Cardinality(CalledIn(r, Here(r)))
         /\ Here(r) = 1 => Start(r) = 1
         /\ Here(r) < Len(Subgraphs) => Course(r).start[Here(r) + 1] = Start(r) + Size(r) + Size(r)
         /\ \A j \in 1 .. Size(r) :
              /\ Course(r).module[Start(r) + j] = Lists(r)[Here(r)][j]
              /\ Course(r).module[Start(r) + Size(r) + j] = Lists(r)[Here(r)][j]
<1>1. Here(r) \in DOMAIN Subgraphs
  BY DEF Typed, Here
<1>2. Size(r) \in Nat /\ Size(r) = Cardinality(CalledIn(r, Here(r)))
  BY <1>1, SizesAreNumbers DEF Size
<1>3. Here(r) \in 1 .. Len(Subgraphs) /\ Here(r) \in 1 .. Len(Subgraphs) + 1
  BY <1>1, ModelFacts
<1>4. Start(r) \in Nat /\ (Here(r) = 1 => Start(r) = 1)
  BY <1>3, CourseFacts DEF Follows, Start
<1>5. /\ Course(r).start[Here(r) + 1] = Start(r) + Size(r) + Size(r)
      /\ \A j \in 1 .. Size(r) :
           /\ Course(r).module[Start(r) + j] = Lists(r)[Here(r)][j]
           /\ Course(r).module[Start(r) + Size(r) + j] = Lists(r)[Here(r)][j]
  BY <1>3, CourseFacts DEF Follows, Start, Size
<1> QED
  BY <1>1, <1>2, <1>4, <1>5

(* There is one sorted list of what a rank calls in a subgraph.            *)
LEMMA SortedOnce ==
  ASSUME NEW r \in Ranks, NEW i \in DOMAIN Subgraphs,
         \A m \in CalledIn(r, i) : FirstBatch(r, m) \in Nat,
         NEW f \in SortedCalls(r, i), NEW g \in SortedCalls(r, i)
  PROVE  f = g
<1> DEFINE Precedes(m, n) == \/ Columns[m] > Columns[n]
                             \/ Columns[m] = Columns[n] /\ MetBefore(r, i, m, n)
<1>1. PICK n \in Nat : n = Cardinality(CalledIn(r, i))
  BY SizesAreNumbers
<1>2. /\ f \in Bijection(1 .. n, CalledIn(r, i)) /\ g \in Bijection(1 .. n, CalledIn(r, i))
      /\ \A j, k \in 1 .. n : j < k => Precedes(f[j], f[k]) /\ Precedes(g[j], g[k])
  BY <1>1 DEF SortedCalls, Bijection, Injection
<1>3. ASSUME NEW m1 \in CalledIn(r, i), NEW m2 \in CalledIn(r, i), Precedes(m1, m2), Precedes(m2, m1)
      PROVE  FALSE
  <2>1. Columns[m1] \in Nat /\ Columns[m2] \in Nat
    BY ModelFacts, ModelAssumption DEF CalledIn
  <2>2. MetBefore(r, i, m1, m2) /\ MetBefore(r, i, m2, m1)
    BY <1>3, <2>1
  <2>3. FirstBatch(r, m1) \in Nat /\ FirstBatch(r, m2) \in Nat
    OBVIOUS
  <2>4. PICK s : s = Subgraphs[i] /\ s \in Seq(Modules) /\ IsInjective(s)
    BY ModelFacts, ModelAssumption
  <2>5. /\ \E j, k \in DOMAIN s : j < k /\ s[j] = m1 /\ s[k] = m2
        /\ \E j, k \in DOMAIN s : j < k /\ s[j] = m2 /\ s[k] = m1
    BY <2>2, <2>3, <2>4 DEF MetBefore
  <2>6. PICK j, k \in DOMAIN s : j < k /\ s[j] = m1 /\ s[k] = m2
    BY <2>5
  <2>7. PICK j2, k2 \in DOMAIN s : j2 < k2 /\ s[j2] = m2 /\ s[k2] = m1
    BY <2>5
  <2>8. j2 = k /\ k2 = j
    BY <2>4, <2>6, <2>7 DEF IsInjective
  <2>9. j \in Nat /\ k \in Nat
    BY <2>4
  <2> QED
    BY <2>6, <2>7, <2>8, <2>9
<1> HIDE DEF Precedes
<1>4. /\ f \in [1 .. n -> CalledIn(r, i)] /\ g \in [1 .. n -> CalledIn(r, i)]
      /\ \A j, k \in 1 .. n : (f[j] = f[k] => j = k) /\ (g[j] = g[k] => j = k)
      /\ \A m \in CalledIn(r, i) : (\E j \in 1 .. n : f[j] = m) /\ (\E j \in 1 .. n : g[j] = m)
  BY <1>2 DEF Bijection, Injection, Surjection, IsInjective
<1> DEFINE Same == {k \in 0 .. n : \A j \in 1 .. k : f[j] = g[j]}
<1>5. 0 \in Same
  OBVIOUS
<1>6. ASSUME NEW k \in 0 .. n, k \in Same, k < n PROVE k + 1 \in Same
  <2>1. k + 1 \in 1 .. n /\ \A j \in 1 .. k : f[j] = g[j] /\ j \in 1 .. n /\ j # k + 1
    BY <1>6
  <2>2. PICK a \in 1 .. n : g[a] = f[k + 1]
    BY <1>4, <2>1
  <2>3. PICK b \in 1 .. n : f[b] = g[k + 1]
    BY <1>4, <2>1
  <2>4. a \notin 1 .. k /\ b \notin 1 .. k
    <3>1. ASSUME a \in 1 .. k PROVE FALSE
      <4>1. f[a] = f[k + 1] /\ a # k + 1
        BY <2>1, <2>2, <3>1
      <4> QED
        BY <1>4, <2>1, <4>1
    <3>2. ASSUME b \in 1 .. k PROVE FALSE
      <4>1. g[b] = g[k + 1] /\ b # k + 1
        BY <2>1, <2>3, <3>2
      <4> QED
        BY <1>4, <2>1, <4>1
    <3> QED
      BY <3>1, <3>2
  <2>5. f[k + 1] = g[k + 1]
    <3>1. CASE a = k + 1
      BY <2>2, <3>1
    <3>2. CASE b = k + 1
      BY <2>3, <3>2
    <3>3. CASE a # k + 1 /\ b # k + 1
      <4>1. k + 1 < a /\ k + 1 < b
        BY <2>4, <3>3
      <4>2. Precedes(g[k + 1], f[k + 1]) /\ Precedes(f[k + 1], g[k + 1])
        BY <1>2, <2>1, <2>2, <2>3, <4>1
      <4>3. f[k + 1] \in CalledIn(r, i) /\ g[k + 1] \in CalledIn(r, i)
        BY <1>4, <2>1
      <4> QED
        BY <1>3, <4>2, <4>3
    <3> QED
      BY <3>1, <3>2, <3>3
  <2>6. \A j \in 1 .. k + 1 : j \in 1 .. k \/ j = k + 1
    BY <1>6
  <2> QED
    BY <2>1, <2>5, <2>6
<1>7. n \in Same
  <2> HIDE DEF Same
  <2>1. 0 .. n \subseteq Same
    BY <1>5, <1>6, UpToN
  <2> QED
    BY <2>1
<1> QED
  BY <1>4, <1>7

(* What hessians are kept of once all batches are seen, and the order in   *)
(* which a rank lists them.                                                *)
LEMMA ListsCalls ==
  ASSUME Inv, NEW r \in Ranks, OnCourse(r), ReduceHessians(r), NEW list \in SortedByWeight(r)
  PROVE  /\ DOMAIN hessians[r] = CalledIn(r, Here(r))
         /\ list = Lists(r)[Here(r)]
<1> DEFINE i == Here(r)
<1>1. Typed /\ OfRank(r) /\ i \in DOMAIN Subgraphs /\ Subgraph(r) = Subgraphs[i]
  BY StartFacts DEF Inv, Subgraph, Here
<1>2. batches[r] \in Seq(Samples) /\ Len(batches[r]) \in Nat /\ DOMAIN batches[r] = 1 .. Len(batches[r])
  <2>1. batches[r] \in Seq(Samples)
    BY <1>1 DEF Typed
  <2> QED
    BY <2>1
<1>3. pc[r] = "forward" /\ Seen(r) = Len(batches[r])
  <2>1. next[r].batch \in Nat /\ next[r].batch > Len(batches[r]) /\ pc[r] = "forward"
    BY <1>1 DEF ReduceHessians, Typed
  <2>2. Seen(r) <= Len(batches[r])
    BY <1>1, <2>1 DEF OfRank, Counted
  <2> QED
    BY <1>2, <2>1, <2>2 DEF Seen
<1>4. \A m : BatchesFor(r, m) \subseteq 1 .. Len(batches[r])
  BY <1>2 DEF BatchesFor
<1>5. \A m \in DOMAIN hessians[r] : /\ hessians[r][m].since \in BatchesFor(r, m)
                                    /\ \A j \in BatchesFor(r, m) : hessians[r][m].since <= j
  BY <1>3 DEF OnCourse
<1>6. DOMAIN hessians[r] = CalledIn(r, i)
  <2>1. DOMAIN hessians[r] \subseteq ToSet(Subgraph(r))
    BY <1>1, <1>3 DEF OfRank, Counted
  <2>2. ASSUME NEW m \in ToSet(Subgraph(r)), m \notin DOMAIN hessians[r]
        PROVE  BatchesFor(r, m) = {}
    <3>1. \A j \in BatchesFor(r, m) : j > Len(batches[r]) /\ j \in 1 .. Len(batches[r])
      BY <1>1, <1>3, <1>4, <2>2 DEF OfRank, Counted
    <3> QED
      BY <1>2, <3>1
  <2> QED
    BY <1>1, <1>5, <2>1, <2>2 DEF CalledIn
<1>7. ASSUME NEW m \in DOMAIN hessians[r]
      PROVE  hessians[r][m].since = FirstBatch(r, m) /\ FirstBatch(r, m) \in Nat
  <2>1. PICK b \in Nat : /\ b = hessians[r][m].since /\ b \in BatchesFor(r, m)
                         /\ \A j \in BatchesFor(r, m) : b <= j
    BY <1>4, <1>5
  <2>2. ASSUME NEW x \in BatchesFor(r, m), \A j \in BatchesFor(r, m) : x <= j PROVE x = b
    <3>1. x \in Nat /\ x <= b /\ b <= x
      BY <1>4, <2>1, <2>2
    <3> QED
      BY <3>1
  <2>3. FirstBatch(r, m) = b
    BY <2>1, <2>2 DEF FirstBatch, Min
  <2> QED
    BY <2>1, <2>3
<1>8. ASSUME NEW m \in DOMAIN hessians[r], NEW n \in DOMAIN hessians[r]
      PROVE  InsertedBefore(r, m, n) <=> MetBefore(r, i, m, n)
  BY <1>1, <1>7 DEF InsertedBefore, MetBefore
<1>9. list \in SortedCalls(r, i)
  <2>1. list \in Bijection(1 .. Cardinality(CalledIn(r, i)), CalledIn(r, i))
    BY <1>6 DEF SortedByWeight
  <2>2. \A j \in DOMAIN list : list[j] \in DOMAIN hessians[r]
    BY <1>6, <2>1 DEF Bijection, Injection
  <2> HIDE DEF i
  <2> QED
    BY <1>8, <2>1, <2>2 DEF SortedByWeight, SortedCalls
<1>10. \A m \in CalledIn(r, i) : FirstBatch(r, m) \in Nat
  BY <1>6, <1>7
<1>11. PICK chosen : chosen = CHOOSE l \in SortedCalls(r, i) : TRUE
  OBVIOUS
<1>12. chosen \in SortedCalls(r, i) /\ Lists(r)[i] = chosen
  BY <1>1, <1>9, <1>11 DEF Lists
<1>13. list = chosen
  BY <1>1, <1>9, <1>10, <1>12, SortedOnce
<1> QED
  BY <1>6, <1>12, <1>13

LEMMA SameCourse ==
  ASSUME NEW r, UNCHANGED <<run, batches[r]>>
  PROVE  /\ Course(r)' = Course(r) /\ Lists(r)' = Lists(r) /\ Sizes(r)' = Sizes(r)
         /\ \A m : BatchesFor(r, m)' = BatchesFor(r, m)
<1>1. \A m : BatchesFor(r, m)' = BatchesFor(r, m)
  BY SameData
<1>2. \A i \in DOMAIN Subgraphs : CalledIn(r, i)' = CalledIn(r, i)
  BY <1>1 DEF CalledIn
<1>3. \A m : FirstBatch(r, m)' = FirstBatch(r, m)
  BY <1>1 DEF FirstBatch
<1>4. \A i, m, n : MetBefore(r, i, m, n)' <=> MetBefore(r, i, m, n)
  BY <1>3 DEF MetBefore
<1>5. \A i \in DOMAIN Subgraphs : SortedCalls(r, i)' = SortedCalls(r, i)
  BY <1>2, <1>4 DEF SortedCalls
<1>6. Lists(r)' = Lists(r)
  BY <1>5 DEF Lists
<1>7. Sizes(r)' = Sizes(r)
  BY <1>2 DEF Sizes
<1>8. Course(r)' = Course(r)
  BY <1>6, <1>7 DEF Course, CourseOf
<1> QED
  BY <1>1, <1>6, <1>7, <1>8

LEMMA StaysOnCourse ==
  ASSUME NEW r \in Ranks, OnCourse(r),
         UNCHANGED <<run, batches[r], pc[r], next[r], hessians[r], issued[r]>>
  PROVE  OnCourse(r)'
<1>1. /\ Course(r)' = Course(r) /\ Sizes(r)' = Sizes(r)
      /\ \A m : BatchesFor(r, m)' = BatchesFor(r, m)
  BY SameCourse
<1>2. Here(r)' = Here(r) /\ Start(r)' = Start(r) /\ Size(r)' = Size(r)
  BY <1>1 DEF Here, Start, Size
<1>3. Operations(r, "reduce")' = Operations(r, "reduce")
  BY DEF Operations, Subgraph
<1> QED
  BY <1>1, <1>2, <1>3 DEF OnCourse

LEMMA LoadsOnCourse ==
  ASSUME Inv, NEW r \in Ranks, OnCourse(r), Load(r)
  PROVE  OnCourse(r)'
<1>1. Typed /\ OfRank(r)
  BY DEF Inv
<1>2. issued[r] = <<>> /\ pc[r] = "load" /\ UNCHANGED <<run, batches, next, hessians>>
  BY <1>1 DEF Load, OfRank, Gathered
<1>3. /\ pc'[r] \in {"gather", "raised"} /\ Len(issued'[r]) <= 1
      /\ \A k \in DOMAIN issued'[r] : k = 1 /\ issued'[r][k].module = "none"
  <2>1. CASE UNCHANGED issued /\ Goto(r, "raised")
    BY <1>1, <1>2, <2>1 DEF Typed, Goto
  <2>2. CASE ~(UNCHANGED issued /\ Goto(r, "raised"))
    <3>1. PICK ops :
            /\ ops = <<[kind |-> "all_gather", root |-> 0, size |-> 1, module |-> "none",
                        value |-> run.datasets[r].fingerprint]>>
            /\ Issue(r, ops) /\ Goto(r, "gather")
      BY <2>2 DEF Load, Issue
    <3>2. OfLength(ops, 1) /\ ops[1].module = "none"
      BY <3>1 DEF OfLength
    <3>3. Appends(r, ops, 1) /\ Len(issued[r]) = 0
      BY <1>1, <1>2, <3>1, <3>2, Issuing
    <3>4. DOMAIN issued'[r] = 1 .. 1 /\ Len(issued'[r]) = 1 /\ issued'[r][1] = ops[1]
      BY <3>3 DEF Appends
    <3> QED
      BY <1>1, <3>1, <3>2, <3>4 DEF Typed, Goto
  <2> QED
    BY <2>1, <2>2
<1>4. Course(r)' = Course(r) /\ Course(r).module[1] = "none" /\ Here(r)' = 1
  BY <1>2, SameCourse, CourseFacts DEF Follows, OnCourse, Loading, Here
<1> QED
  BY <1>3, <1>4 DEF OnCourse, Loading

LEMMA MakesSamplerOnCourse ==
  ASSUME Inv, Inv', NEW r \in Ranks, OnCourse(r), MakeSampler(r)
  PROVE  OnCourse(r)'
<1>1. Typed /\ OfRank(r) /\ Typed' /\ OfRank(r)'
  BY DEF Inv
<1>2. /\ UNCHANGED <<run, next, hessians, weights, issued>>
      /\ pc[r] = "gather" /\ pc'[r] \in {"forward", "raised"}
  BY <1>1 DEF MakeSampler, Goto, Typed
<1>3. Len(issued[r]) = 1 /\ DOMAIN issued[r] = 1 .. 1
  <2>1. Len(issued[r]) \in Nat /\ DOMAIN issued[r] = 1 .. Len(issued[r]) /\ Sequence(issued[r])
    BY <1>1, SequenceFacts DEF Typed
  <2>2. issued[r] # <<>> /\ Len(issued[r]) <= 1
    BY <1>1, <1>2 DEF OfRank, Gathered, Loading
  <2>3. Len(issued[r]) # 0
    BY <2>1, <2>2 DEF Sequence
  <2>4. \A l \in Nat : l <= 1 /\ l # 0 => l = 1
    OBVIOUS
  <2> QED
    BY <2>1, <2>2, <2>3, <2>4
<1>4. issued[r][1].module = "none" /\ Here(r) = 1
  <2>1. 1 \in DOMAIN issued[r]
    BY <1>3
  <2> QED
    BY <1>2, <2>1, CourseFacts DEF OnCourse, Follows, Loading
<1>5. /\ Here(r)' = 1 /\ issued'[r] = issued[r] /\ DOMAIN hessians'[r] = {}
      /\ Course(r)'.module[1] = "none" /\ Start(r)' = 1
  <2>1. Here(r)' = 1 /\ DOMAIN hessians'[r] = {}
    BY <1>1, <1>2, <1>4 DEF Here, OfRank, Forgotten, Loading
  <2>2. Course(r)'.start[1] = 1 /\ Course(r)'.module[1] = "none"
    <3>1. PICK lists, sizes : lists = Lists(r)' /\ sizes = Sizes(r)'
      OBVIOUS
    <3>2. \A i \in DOMAIN Subgraphs : sizes[i] \in Nat
      <4>1. ASSUME NEW i \in DOMAIN Subgraphs
            PROVE  sizes[i] = Cardinality(CalledIn(r, i)') /\ CalledIn(r, i)' \subseteq ToSet(Subgraphs[i])
        BY <3>1 DEF Sizes, CalledIn
      <4>2. \A i \in DOMAIN Subgraphs : IsFiniteSet(ToSet(Subgraphs[i]))
        BY ModelFacts
      <4> QED
        BY <4>1, <4>2, FS_Subset, FS_CardinalityType
    <3>3. Follows(CourseOf(lists, sizes), lists, sizes, Len(Subgraphs))
      BY <3>2, CourseExists
    <3>4. Course(r)' = CourseOf(lists, sizes)
      BY <3>1 DEF Course, CourseOf
    <3> QED
      BY <3>3, <3>4 DEF Follows
  <2>3. Start(r)' = 1
    BY <2>1, <2>2 DEF Start
  <2> QED
    BY <1>2, <2>1, <2>2, <2>3
<1> QED
  BY <1>2, <1>3, <1>4, <1>5 DEF OnCourse, Loading

LEMMA CalibratesOnCourse ==
  ASSUME Inv, NEW r \in Ranks, OnCourse(r), Calibrate(r)
  PROVE  OnCourse(r)'
<1> DEFINE n == next[r].batch
           s == batches[r][n]
           called == Called(r, s)
<1>1. Typed /\ OfRank(r)
  BY DEF Inv
<1>2. /\ UNCHANGED <<run, pc, batches, issued>> /\ pc[r] = "forward"
      /\ n \in Nat \ {0} /\ n <= Len(batches[r])
      /\ next'[r].subgraph = next[r].subgraph
      /\ hessians'[r] = CalibrateModules(hessians[r], called, s, n)
  BY <1>1 DEF Calibrate, Typed
<1>3. batches[r] \in Seq(Samples) /\ n \in DOMAIN batches[r] /\ s \in Samples
      /\ \A m : BatchesFor(r, m) \subseteq Nat
  <2>1. batches[r] \in Seq(Samples)
    BY <1>1 DEF Typed
  <2>2. Len(batches[r]) \in Nat /\ DOMAIN batches[r] = 1 .. Len(batches[r])
    BY <2>1
  <2> QED
    BY <1>2, <2>1, <2>2 DEF BatchesFor
<1> HIDE DEF n, s
<1>4. Course(r)' = Course(r) /\ Sizes(r)' = Sizes(r) /\ Here(r)' = Here(r)
      /\ \A m : BatchesFor(r, m)' = BatchesFor(r, m)
  BY <1>2, SameCourse DEF Here
<1>5. ASSUME NEW m \in DOMAIN hessians'[r]
      PROVE  /\ hessians'[r][m].since \in BatchesFor(r, m)
             /\ \A i \in BatchesFor(r, m) : hessians'[r][m].since <= i
  <2>1. CASE m \in DOMAIN hessians[r]
    <3>1. hessians'[r][m].since = hessians[r][m].since
      <4>1. PICK entry : entry = hessians[r][m]
        OBVIOUS
      <4>2. IsEntry(entry)
        BY <1>1, <1>2, <2>1, <4>1 DEF OfRank, Counted
      <4>3. \A tokens : Accumulate(entry, tokens).since = entry.since
        BY <4>2 DEF Accumulate, IsEntry
      <4> QED
        BY <1>2, <2>1, <4>1, <4>3 DEF CalibrateModules
    <3> QED
      BY <1>2, <2>1, <3>1 DEF OnCourse
  <2>2. CASE m \notin DOMAIN hessians[r]
    <3>1. m \in called /\ hessians'[r][m] = Accumulate([hessian |-> Empty, num |-> 0, since |-> n], Input(m, s))
      BY <1>2, <2>2 DEF CalibrateModules
    <3>2. hessians'[r][m].since = n
      BY <3>1 DEF Accumulate
    <3>3. m \in ToSet(Subgraph(r))
      BY <3>1 DEF Called
    <3>4. n \in BatchesFor(r, m)
      BY <1>3, <3>1, <3>3, CallsSee DEF BatchesFor, s
    <3>5. \A i \in BatchesFor(r, m) : i > n - 1 /\ i \in Nat
      BY <1>1, <1>2, <1>3, <2>2, <3>3 DEF OfRank, Counted, Seen, n
    <3>6. \A i \in BatchesFor(r, m) : n <= i
      BY <1>2, <3>5
    <3> QED
      BY <3>2, <3>4, <3>6
  <2> QED
    BY <2>1, <2>2
<1>6. Start(r)' = Start(r)
  BY <1>4 DEF Start
<1> QED
  BY <1>2, <1>4, <1>5, <1>6 DEF OnCourse, Loading

LEMMA ReducesOnCourse ==
  ASSUME Inv, NEW r \in Ranks, OnCourse(r), ReduceHessians(r)
  PROVE  OnCourse(r)'
<1>1. Typed /\ OfRank(r) /\ UNCHANGED <<run, batches, next>> /\ pc[r] = "forward" /\ pc'[r] = "reduce"
  BY DEF Inv, Typed, ReduceHessians, Goto
<1>2. PICK l \in Nat, c \in Nat : \E list, bins, ops : Reduces(r, l, c, list, bins, ops)
  BY Reducing
<1>3. PICK list, bins, ops : Reduces(r, l, c, list, bins, ops)
  BY <1>2
<1>4. list = Lists(r)[Here(r)] /\ c = Size(r) /\ l = Start(r)
  <2>1. list = Lists(r)[Here(r)] /\ DOMAIN hessians[r] = CalledIn(r, Here(r))
    BY <1>3, ListsCalls DEF Reduces
  <2> QED
    BY <1>1, <1>3, <2>1, StartFacts DEF Reduces, OnCourse
<1>5. Course(r)' = Course(r) /\ Start(r)' = l /\ Size(r)' = c /\ Here(r)' = Here(r)
  BY <1>1, <1>4, SameCourse DEF Here, Start, Size
<1>6. Len(issued'[r]) = l + c /\ Operations(r, "reduce")' = l + 1 .. l + c
  <2>1. Operations(r, "reduce")' = l + 1 .. l + c
    BY <1>3, ReducedOnce
  <2>2. Appends(r, ops, c) /\ l = Len(issued[r])
    BY <1>3 DEF Reduces
  <2> QED
    BY <2>1, <2>2 DEF Appends
<1>7. ASSUME NEW k \in DOMAIN issued'[r]
      PROVE  issued'[r][k].module = Course(r).module[k]
  <2>1. Appends(r, ops, c) /\ Grows /\ l = Len(issued[r])
    BY <1>3 DEF Reduces
  <2>2. CASE k \in 1 .. l
    BY <2>1, <2>2 DEF OnCourse, Appends, Grows
  <2>3. CASE k \notin 1 .. l
    <3>1. PICK j \in 1 .. c : k = l + j
      <4>1. k \in 1 .. l + c
        BY <2>1 DEF Appends
      <4>2. k - l \in 1 .. c /\ k = l + (k - l)
        BY <2>3, <4>1
      <4> QED
        BY <4>2
    <3>2. issued'[r][k] = ops[j]
      <4>1. k \in l + 1 .. l + c /\ k - l = j
        BY <3>1
      <4> QED
        BY <2>1, <4>1 DEF Appends
    <3>3. ops[j].module = list[j]
      BY <1>3 DEF Reduces
    <3>4. Course(r).module[l + j] = list[j]
      BY <1>1, <1>4, StartFacts
    <3> QED
      BY <3>1, <3>2, <3>3, <3>4
  <2> QED
    BY <2>2, <2>3
<1> QED
  BY <1>1, <1>5, <1>6, <1>7 DEF OnCourse, Loading

LEMMA CompressesOnCourse ==
  ASSUME Inv, NEW r \in Ranks, OnCourse(r), CompressModules(r)
  PROVE  OnCourse(r)'
<1>1. Typed /\ UNCHANGED <<run, batches, next>> /\ pc[r] = "reduce" /\ pc'[r] = "broadcast"
  <2>1. Typed
    BY DEF Inv
  <2>2. /\ UNCHANGED <<run, batches, next>> /\ pc[r] = "reduce" /\ Complete(r)
        /\ hessians' = [hessians EXCEPT ![r] = <<>>] /\ pc' = [pc EXCEPT ![r] = "broadcast"]
    BY Compressing
  <2> QED
    BY <2>1, <2>2 DEF Typed
<1>2. PICK l \in Nat, n \in Nat : \E ops : Sends(r, l, n, ops)
  BY Sending
<1>3. PICK ops : Sends(r, l, n, ops)
  BY <1>2
<1>4. PICK start \in Nat, size \in Nat : start = Start(r) /\ size = Size(r)
  BY <1>1, StartFacts
<1>5. l = start + size /\ Operations(r, "reduce") = start + 1 .. start + size
  BY <1>1, <1>3, <1>4 DEF OnCourse, Sends
<1>6. n = size /\ l - n = start
  <2>1. Cardinality(l - n + 1 .. l) = n
    <3>1. PICK a \in Int : a = l - n + 1
      OBVIOUS
    <3>2. n <= l
      BY <1>3 DEF Sends
    <3>3. Cardinality(a .. l) = IF a > l THEN 0 ELSE l - a + 1
      BY FS_Interval
    <3> QED
      BY <3>1, <3>2, <3>3
  <2>2. Cardinality(start + 1 .. start + size) = size
    BY FS_Interval
  <2> QED
    BY <1>3, <1>5, <2>1, <2>2 DEF Sends
<1>7. Course(r)' = Course(r) /\ Start(r)' = start /\ Size(r)' = size
  BY <1>1, <1>4, SameCourse DEF Here, Start, Size
<1>8. Appends(r, ops, size) /\ Grows /\ l = Len(issued[r])
  BY <1>3, <1>6 DEF Sends
<1>9. ASSUME NEW k \in DOMAIN issued'[r]
      PROVE  issued'[r][k].module = Course(r).module[k]
  <2>1. CASE k \in 1 .. l
    BY <1>8, <2>1 DEF OnCourse, Appends, Grows
  <2>2. CASE k \notin 1 .. l
    <3>1. PICK j \in 1 .. size : k = l + j
      <4>1. k \in 1 .. l + size
        BY <1>8 DEF Appends
      <4>2. k - l \in 1 .. size /\ k = l + (k - l)
        BY <2>2, <4>1
      <4> QED
        BY <4>2
    <3>2. issued'[r][k] = ops[j]
      <4>1. k \in l + 1 .. l + size /\ k - l = j
        BY <3>1
      <4> QED
        BY <1>8, <4>1 DEF Appends
    <3>3. start + j \in DOMAIN issued[r] /\ ops[j].module = issued[r][start + j].module
      <4>1. PICK k2 \in Operations(r, "reduce") : k2 = l - n + j /\ ops[j].module = issued[r][k2].module
        BY <1>3, <1>6 DEF Sends
      <4>2. k2 = start + j /\ k2 \in DOMAIN issued[r]
        BY <1>6, <4>1 DEF Operations
      <4> QED
        BY <4>1, <4>2
    <3>4. issued[r][start + j].module = Course(r).module[start + j]
      BY <3>3 DEF OnCourse
    <3>5. Course(r).module[start + j] = Course(r).module[start + size + j]
      BY <1>1, <1>4, StartFacts
    <3> QED
      BY <1>5, <3>1, <3>2, <3>3, <3>4, <3>5
  <2> QED
    BY <2>1, <2>2
<1> QED
  BY <1>1, <1>5, <1>7, <1>8, <1>9 DEF OnCourse, Loading, Appends

LEMMA ReceivesOnCourse ==
  ASSUME Inv, NEW r \in Ranks, OnCourse(r), ReceiveParams(r)
  PROVE  OnCourse(r)'
<1>1. Typed /\ UNCHANGED <<run, batches, hessians, issued>> /\ pc[r] = "broadcast"
      /\ DOMAIN hessians[r] = {}
  BY DEF Inv, OfRank, Forgotten, ReceiveParams
<1>2. Course(r)' = Course(r)
  BY <1>1, SameCourse
<1>3. CASE Here(r) < Len(Subgraphs) /\ Goto(r, "forward")
           /\ next' = [next EXCEPT ![r] = [batch |-> 1, subgraph |-> @.subgraph + 1]]
  <2>1. Here(r)' = Here(r) + 1 /\ pc'[r] = "forward"
    BY <1>1, <1>3 DEF Typed, Here, Goto
  <2>2. Start(r)' = Start(r) + Size(r) + Size(r)
    BY <1>1, <1>2, <1>3, <2>1, StartFacts DEF Start
  <2> QED
    BY <1>1, <1>2, <2>1, <2>2 DEF OnCourse, Loading
<1>4. CASE Goto(r, "done")
  <2>1. pc'[r] = "done"
    BY <1>1, <1>4 DEF Typed, Goto
  <2> QED
    BY <1>1, <1>2, <2>1 DEF OnCourse, Loading
<1> QED
  BY <1>3, <1>4 DEF ReceiveParams, Here

LEMMA Frame ==
  ASSUME Typed, NEW r \in Ranks, Step(r), NEW q \in Ranks \ {r}
  PROVE  UNCHANGED <<run, batches[q], pc[q], next[q], hessians[q], issued[q]>>
<1>1. /\ DOMAIN pc = Ranks /\ DOMAIN batches = Ranks /\ DOMAIN next = Ranks
      /\ DOMAIN hessians = Ranks /\ DOMAIN issued = Ranks
  BY DEF Typed
<1>2. CASE Load(r)
  <2>1. pc'[q] = pc[q] /\ run' = run
    BY <1>1, <1>2 DEF Load, Goto
  <2>2. batches'[q] = batches[q]
    BY <1>1, <1>2 DEF Load, Goto
  <2>3. next'[q] = next[q]
    BY <1>1, <1>2 DEF Load, Goto
  <2>4. hessians'[q] = hessians[q]
    BY <1>1, <1>2 DEF Load, Goto
  <2>5. issued'[q] = issued[q]
    BY <1>1, <1>2 DEF Load, Goto, Issue
  <2> QED
    BY <2>1, <2>2, <2>3, <2>4, <2>5
<1>3. CASE MakeSampler(r)
  <2>1. pc'[q] = pc[q] /\ run' = run
    BY <1>1, <1>3 DEF MakeSampler, Goto
  <2>2. batches'[q] = batches[q]
    BY <1>1, <1>3 DEF MakeSampler, Goto
  <2>3. next'[q] = next[q]
    BY <1>1, <1>3 DEF MakeSampler, Goto
  <2>4. hessians'[q] = hessians[q]
    BY <1>1, <1>3 DEF MakeSampler, Goto
  <2>5. issued'[q] = issued[q]
    BY <1>1, <1>3 DEF MakeSampler, Goto, Issue
  <2> QED
    BY <2>1, <2>2, <2>3, <2>4, <2>5
<1>4. CASE Calibrate(r)
  <2>1. pc'[q] = pc[q] /\ run' = run
    BY <1>1, <1>4 DEF Calibrate, Goto
  <2>2. batches'[q] = batches[q]
    BY <1>1, <1>4 DEF Calibrate, Goto
  <2>3. next'[q] = next[q]
    BY <1>1, <1>4 DEF Calibrate, Goto
  <2>4. hessians'[q] = hessians[q]
    BY <1>1, <1>4 DEF Calibrate, Goto
  <2>5. issued'[q] = issued[q]
    BY <1>1, <1>4 DEF Calibrate, Goto, Issue
  <2> QED
    BY <2>1, <2>2, <2>3, <2>4, <2>5
<1>5. CASE ReduceHessians(r)
  <2>1. pc'[q] = pc[q] /\ run' = run
    BY <1>1, <1>5 DEF ReduceHessians, Goto
  <2>2. batches'[q] = batches[q]
    BY <1>1, <1>5 DEF ReduceHessians, Goto
  <2>3. next'[q] = next[q]
    BY <1>1, <1>5 DEF ReduceHessians, Goto
  <2>4. hessians'[q] = hessians[q]
    BY <1>1, <1>5 DEF ReduceHessians, Goto
  <2>5. issued'[q] = issued[q]
    BY <1>1, <1>5 DEF ReduceHessians, Goto, Issue
  <2> QED
    BY <2>1, <2>2, <2>3, <2>4, <2>5
<1>6. CASE CompressModules(r)
  <2>1. pc'[q] = pc[q] /\ run' = run
    BY <1>1, <1>6, Compressing
  <2>2. batches'[q] = batches[q]
    BY <1>1, <1>6, Compressing
  <2>3. next'[q] = next[q]
    BY <1>1, <1>6, Compressing
  <2>4. hessians'[q] = hessians[q]
    BY <1>1, <1>6, Compressing
  <2>5. issued'[q] = issued[q]
    BY <1>1, <1>6, Compressing DEF Issue
  <2> QED
    BY <2>1, <2>2, <2>3, <2>4, <2>5
<1>7. CASE ReceiveParams(r)
  <2>1. pc'[q] = pc[q] /\ run' = run
    BY <1>1, <1>7 DEF ReceiveParams, Goto
  <2>2. batches'[q] = batches[q]
    BY <1>1, <1>7 DEF ReceiveParams, Goto
  <2>3. next'[q] = next[q]
    BY <1>1, <1>7 DEF ReceiveParams, Goto
  <2>4. hessians'[q] = hessians[q]
    BY <1>1, <1>7 DEF ReceiveParams, Goto
  <2>5. issued'[q] = issued[q]
    BY <1>1, <1>7 DEF ReceiveParams, Goto, Issue
  <2> QED
    BY <2>1, <2>2, <2>3, <2>4, <2>5
<1> QED
  BY <1>2, <1>3, <1>4, <1>5, <1>6, <1>7 DEF Step

LEMMA EveryRankOnCourse == Spec => []AllOnCourse
<1>1. Init => AllOnCourse
  <2> SUFFICES ASSUME Init, NEW r \in Ranks PROVE OnCourse(r)
    BY DEF AllOnCourse
  <2> QED
    BY DEF Init, OnCourse, Loading, Here
<1>2. ASSUME Inv, Inv', AllOnCourse, [Next]_vars
      PROVE  AllOnCourse'
  <2>1. CASE UNCHANGED vars
    BY <1>2, <2>1, StaysOnCourse DEF AllOnCourse, vars
  <2>2. ASSUME NEW r \in Ranks, Step(r)
        PROVE  AllOnCourse'
    <3>1. Typed
      BY <1>2 DEF Inv
    <3>2. OnCourse(r)'
      BY <1>2, <2>2, LoadsOnCourse, MakesSamplerOnCourse, CalibratesOnCourse, ReducesOnCourse,
         CompressesOnCourse, ReceivesOnCourse DEF Step, AllOnCourse
    <3>3. \A q \in Ranks \ {r} :
            UNCHANGED <<run, batches[q], pc[q], next[q], hessians[q], issued[q]>>
      BY <2>2, <3>1, Frame
    <3>4. \A q \in Ranks \ {r} : OnCourse(q)'
      BY <1>2, <3>3, StaysOnCourse DEF AllOnCourse
    <3> QED
      BY <3>2, <3>4 DEF AllOnCourse
  <2> QED
    BY <1>2, <2>1, <2>2 DEF Next
<1> QED
  BY <1>1, <1>2, Invariance, PTL DEF Spec

(* Ranks that meet the modules alike have one course.                      *)
LEMMA AlikeAgree ==
  ASSUME AllOnCourse, MetAlike
  PROVE  ListsAgree
<1> SUFFICES ASSUME NEW r \in Ranks, NEW q \in Ranks PROVE Course(r) = Course(q)
  BY DEF AllOnCourse, OnCourse, ListsAgree
<1>1. ASSUME NEW i \in DOMAIN Subgraphs
      PROVE  CalledIn(r, i) = CalledIn(q, i) /\ SortedCalls(r, i) = SortedCalls(q, i)
  <2>1. CalledIn(r, i) = CalledIn(q, i)
    BY DEF MetAlike
  <2>2. \A m, n \in CalledIn(r, i) :
          Columns[m] = Columns[n] => (MetBefore(r, i, m, n) <=> MetBefore(q, i, m, n))
    BY <2>1 DEF MetAlike
  <2>3. PICK B : B = Bijection(1 .. Cardinality(CalledIn(r, i)), CalledIn(r, i))
    OBVIOUS
  <2>4. \A list \in B : \A j \in DOMAIN list : list[j] \in CalledIn(r, i)
    BY <2>3 DEF Bijection, Injection
  <2>5. /\ SortedCalls(r, i) =
             {list \in B : \A j, k \in DOMAIN list : j < k =>
                \/ Columns[list[j]] > Columns[list[k]]
                \/ Columns[list[j]] = Columns[list[k]] /\ MetBefore(r, i, list[j], list[k])}
        /\ SortedCalls(q, i) =
             {list \in B : \A j, k \in DOMAIN list : j < k =>
                \/ Columns[list[j]] > Columns[list[k]]
                \/ Columns[list[j]] = Columns[list[k]] /\ MetBefore(q, i, list[j], list[k])}
    BY <2>1, <2>3 DEF SortedCalls
  <2>6. SortedCalls(r, i) = SortedCalls(q, i)
    BY <2>2, <2>4, <2>5
  <2> QED
    BY <2>1, <2>6
<1>2. Lists(r) = Lists(q) /\ Sizes(r) = Sizes(q)
  BY <1>1 DEF Lists, Sizes
<1> QED
  BY <1>2 DEF Course

(* However many ranks there are and whatever is requested, a data set that *)
(* all have is divided into parts that do not overlap and that are         *)
(* together what is requested (_get_partition_start and _end,              *)
(* _make_sampler).                                                         *)
THEOREM RanksDivideTheData == Spec => []SharedDatasetIsPartitioned
<1>1. ASSUME Inv, SameEverywhere
      PROVE  SharedDatasetIsPartitioned
  <2> DEFINE R == Requested(run.num_samples, Len(Data(0)))
  <2>1. 0 \in Ranks /\ WorldSize \in Nat \ {0} /\ Typed /\ \A r \in Ranks : r \in 0 .. WorldSize - 1
    BY <1>1, WorldAssumption DEF Inv, Ranks
  <2>2. R \in Nat /\ IsInjective(Data(0)) /\ Data(0) \in Seq(Samples)
    BY <2>1, DataFacts
  <2>3. \A r \in Ranks : Data(r) = Data(0)
    BY <1>1, <2>1 DEF SameEverywhere, Data
  <2>4. \A r \in Ranks :
          PartOf(r) = PartitionStart(R, r, WorldSize) + 1 .. PartitionEnd(R, r, WorldSize)
    BY <2>3 DEF PartOf, Positions
  <2> HIDE DEF R
  <2>5. ASSUME NEW r \in Ranks, batches[r] # <<>>
        PROVE  /\ PartOf(r) \subseteq DOMAIN Data(0)
               /\ ToSet(batches[r]) = {Data(0)[i] : i \in PartOf(r)}
    <3>1. Divided(r)
      BY <1>1 DEF Inv, OfRank
    <3>2. DOMAIN Data(0) = 1 .. Len(Data(0))
      BY <2>2
    <3> QED
      BY <1>1, <2>3, <2>5, <3>1, <3>2 DEF Divided
  <2>6. ASSUME NEW r \in Ranks, NEW q \in Ranks, r < q
        PROVE  PartOf(r) \cap PartOf(q) = {}
    <3>1. r \in Nat /\ q \in Nat
      BY <2>1
    <3>2. PartitionEnd(R, r, WorldSize) <= PartitionStart(R, q, WorldSize)
      BY <2>1, <2>2, <2>6, <3>1, PartsInOrder
    <3>3. PartitionEnd(R, r, WorldSize) \in Nat /\ PartitionStart(R, q, WorldSize) \in Nat
      BY <2>1, <2>2, <3>1, Division DEF PartitionEnd, PartitionStart
    <3>4. PICK a, b, c, d : /\ a = PartitionStart(R, r, WorldSize) /\ b = PartitionEnd(R, r, WorldSize)
                            /\ c = PartitionStart(R, q, WorldSize) /\ d = PartitionEnd(R, q, WorldSize)
      OBVIOUS
    <3>5. PartOf(r) = a + 1 .. b /\ PartOf(q) = c + 1 .. d /\ b \in Nat /\ c \in Nat /\ b <= c
      BY <2>4, <3>2, <3>3, <3>4
    <3>6. \A x : x \in a + 1 .. b => x \in Int /\ x <= b
      OBVIOUS
    <3>7. \A x : x \in c + 1 .. d => x \in Int /\ c < x
      BY <3>5
    <3> QED
      BY <3>5, <3>6, <3>7
  <2>7. ASSUME NEW r \in Ranks, NEW q \in Ranks, r # q
        PROVE  ToSet(batches[r]) \cap ToSet(batches[q]) = {}
    <3>1. PartOf(r) \cap PartOf(q) = {}
      <4>1. r < q \/ q < r
        BY <2>1, <2>7
      <4> QED
        BY <2>6, <4>1
    <3>2. CASE batches[r] = <<>> \/ batches[q] = <<>>
      <4>1. ToSet(<<>>) = {}
        BY DEF ToSet
      <4> QED
        BY <3>2, <4>1
    <3>3. CASE batches[r] # <<>> /\ batches[q] # <<>>
      <4> SUFFICES ASSUME NEW x, x \in ToSet(batches[r]), x \in ToSet(batches[q])
                   PROVE  FALSE
        OBVIOUS
      <4>1. PICK i \in PartOf(r) : x = Data(0)[i] /\ i \in DOMAIN Data(0)
        BY <2>5, <3>3
      <4>2. PICK j \in PartOf(q) : x = Data(0)[j] /\ j \in DOMAIN Data(0)
        BY <2>5, <3>3
      <4>3. i = j
        BY <2>2, <4>1, <4>2 DEF IsInjective
      <4> QED
        BY <3>1, <4>1, <4>2, <4>3
    <3> QED
      BY <3>2, <3>3
  <2>8. ASSUME \A r \in Ranks : batches[r] # <<>>, NEW i \in 1 .. R
        PROVE  \E r \in Ranks : Data(0)[i] \in ToSet(batches[r])
    <3>1. PICK r \in 0 .. WorldSize - 1 :
            i \in PartitionStart(R, r, WorldSize) + 1 .. PartitionEnd(R, r, WorldSize)
      BY <2>1, <2>2, PartsCover
    <3>2. r \in Ranks /\ i \in PartOf(r)
      BY <2>4, <3>1 DEF Ranks
    <3> QED
      BY <2>5, <2>8, <3>2
  <2> QED
    BY <2>7, <2>8 DEF SharedDatasetIsPartitioned, R
<1>2. Inv => SharedDatasetIsPartitioned
  BY <1>1 DEF SharedDatasetIsPartitioned, SameEverywhere
<1> QED
  BY <1>2, Invariance, PTL

(* If the samples of all ranks reach the same modules, those of one size   *)
(* in the same order (MetAlike), then whichever rank compresses a module,  *)
(* and however ranks and their collectives interleave, it has the sums     *)
(* over the samples of all ranks when it does, hessians not being          *)
(* offloaded (compress_modules).  What has to be seen is that the data     *)
(* alone fix the course of a rank: its lists follow the batches, not the   *)
(* interleaving, so that ranks with like data issue like operations.       *)
THEOREM ModulesSeeAllSamples == Spec => []CompressedOnAllSamples
<1>1. ASSUME Inv, AllOnCourse
      PROVE  CompressedOnAllSamples
  <2>1. SumsRight
    BY <1>1 DEF Inv
  <2>2. MetAlike => ListsAgree
    BY <1>1, AlikeAgree
  <2> QED
    BY <2>1, <2>2 DEF SumsRight, CompressedOnAllSamples
<1> QED
  BY <1>1, Invariance, EveryRankOnCourse, PTL

(* If the samples of all ranks reach the same modules, those of one size   *)
(* in the same order (MetAlike), ranks that are done with a subgraph have  *)
(* the parameters its roots sent for each of its modules, hence the same   *)
(* (compress_modules); offloading does not matter.  Without MetAlike it is *)
(* false: see SameWeights and the configuration MCMixedExperts.            *)
THEOREM RanksEndAlike == Spec => []SameWeightsEverywhere
<1>1. ASSUME Inv, ListsAgree, NEW r \in Ranks, NEW q \in Ranks, NEW i \in DOMAIN Subgraphs,
             Passed(r, i), Passed(q, i), NEW m \in ToSet(Subgraphs[i])
      PROVE  weights[r][m] = weights[q][m]
  <2>1. FromRoots
    BY <1>1 DEF Inv
  <2>2. ASSUME NEW a \in Ranks, NEW b \in Ranks, Passed(a, i), NEW k \in Broadcasts(a, i)
        PROVE  /\ k \in Broadcasts(b, i) /\ issued[a][k].module = issued[b][k].module
               /\ issued[a][k].root = issued[b][k].root
    <3>1. k \in DOMAIN issued[b] /\ Agrees(issued[a][k], issued[b][k])
      BY <2>1, <2>2 DEF FromRoots
    <3>2. issued[a][k].module = issued[b][k].module
      BY <1>1, <2>2, <3>1 DEF ListsAgree, Broadcasts
    <3> QED
      BY <3>1, <3>2 DEF Broadcasts, Agrees
  <2>3. Broadcasts(r, i) = Broadcasts(q, i)
    BY <1>1, <2>2
  <2> DEFINE kr == CHOOSE k \in Broadcasts(r, i) : issued[r][k].module = m
             kq == CHOOSE k \in Broadcasts(q, i) : issued[q][k].module = m
  <2>4. \A k \in Broadcasts(r, i) : issued[r][k].module = m <=> issued[q][k].module = m
    BY <1>1, <2>2
  <2>5. kr = kq
    BY <2>3, <2>4
  <2>6. ASSUME \E k \in Broadcasts(r, i) : issued[r][k].module = m
        PROVE  Sent(r, i, m) = Sent(q, i, m)
    <3>1. kr \in Broadcasts(r, i)
      BY <2>6
    <3>2. Sent(r, i, m) = Received(r, kr) /\ Sent(q, i, m) = Received(q, kq)
      BY DEF Sent
    <3> HIDE DEF kr, kq
    <3>3. issued[r][kr].root = issued[q][kr].root
      BY <1>1, <2>2, <3>1
    <3> QED
      BY <2>5, <3>2, <3>3 DEF Received
  <2> QED
    BY <1>1, <2>1, <2>3, <2>4, <2>6 DEF FromRoots
<1>2. ASSUME Inv, AllOnCourse, MetAlike
      PROVE  SameWeights
  <2>1. ListsAgree
    BY <1>2, AlikeAgree
  <2> QED
    BY <1>1, <1>2, <2>1 DEF SameWeights
<1>3. Inv /\ AllOnCourse => SameWeightsEverywhere
  BY <1>2 DEF SameWeightsEverywhere
<1> QED
  BY <1>3, Invariance, EveryRankOnCourse, PTL

-----------------------------------------------------------------------------
(* What a block of experts computes.                                       *)

(* One expert's part in the outputs of the tokens.                         *)
Contribution(block, tokens, output, e) ==
  [t \in tokens |-> IF IsCalled(block, e, tokens) /\ t \in Selected(block, e, tokens)
                      THEN Append(output[t], e) ELSE output[t]]

NoOutput(tokens) == [t \in tokens |-> <<>>]

(* How FoldLeft folds: over the last of the positions and the rest.        *)
Fold(block, tokens, f, s) ==
  IF s = {} THEN NoOutput(tokens)
  ELSE Contribution(block, tokens, f[s \ {Max(s)}], block.experts[Max(s)])

LEMMA ForwardIsFold ==
  ASSUME NEW block, NEW tokens
  PROVE  Forward(block, tokens)
           = (CHOOSE f : f = [s \in SUBSET (DOMAIN block.experts) |-> Fold(block, tokens, f, s)])
               [DOMAIN block.experts]
BY DEF Forward, FoldLeft, MapThenFoldSet, Fold, Contribution, NoOutput

LEMMA MaxOfInterval ==
  ASSUME NEW k \in Nat, NEW s \in SUBSET (1 .. k + 1), k + 1 \in s
  PROVE  Max(s) = k + 1
<1>1. \A x \in s : x \in Nat /\ k + 1 >= x
  OBVIOUS
<1>2. ASSUME NEW x \in s, \A y \in s : x >= y PROVE x = k + 1
  BY <1>1, <1>2
<1> QED
  BY <1>1, <1>2 DEF Max

LEMMA ForwardSteps ==
  ASSUME NEW block, NEW tokens, block.experts \in Seq(Modules),
         NEW n \in Nat, n = Len(block.experts)
  PROVE  \E Output : /\ Output[0] = NoOutput(tokens)
                     /\ \A k \in 1 .. n :
                          Output[k] = Contribution(block, tokens, Output[k - 1], block.experts[k])
                     /\ Forward(block, tokens) = Output[n]
<1> DEFINE IsFold(f, k) == f = [s \in SUBSET (1 .. k) |-> Fold(block, tokens, f, s)]
           Defined == {k \in 0 .. n : \E f : IsFold(f, k)}
<1>1. 0 \in Defined
  <2>1. PICK f : f = [s \in SUBSET (1 .. 0) |-> NoOutput(tokens)]
    OBVIOUS
  <2>2. \A s \in SUBSET (1 .. 0) : Fold(block, tokens, f, s) = NoOutput(tokens)
    BY DEF Fold
  <2>3. IsFold(f, 0)
    BY <2>1, <2>2
  <2> HIDE DEF IsFold
  <2>4. 0 \in 0 .. n
    OBVIOUS
  <2> QED
    BY <2>3, <2>4
<1>2. ASSUME NEW k \in 0 .. n, k \in Defined, k < n PROVE k + 1 \in Defined
  <2>1. PICK f : IsFold(f, k)
    BY <1>2
  <2>2. PICK g : g = [s \in SUBSET (1 .. k + 1) |->
                        IF k + 1 \in s
                          THEN Contribution(block, tokens, f[s \ {k + 1}], block.experts[k + 1])
                          ELSE f[s]]
    OBVIOUS
  <2>3. ASSUME NEW s \in SUBSET (1 .. k + 1) PROVE g[s] = Fold(block, tokens, g, s)
    <3>1. CASE k + 1 \in s
      <4>1. PICK rest : rest = s \ {k + 1}
        OBVIOUS
      <4>2. rest \in SUBSET (1 .. k) /\ rest \in SUBSET (1 .. k + 1) /\ k + 1 \notin rest /\ s # {}
        BY <3>1, <4>1
      <4>3. g[rest] = f[rest]
        BY <2>2, <4>2
      <4>4. Max(s) = k + 1
        BY <3>1, MaxOfInterval
      <4>5. Fold(block, tokens, g, s) = Contribution(block, tokens, g[rest], block.experts[k + 1])
        BY <4>1, <4>2, <4>4 DEF Fold
      <4>6. g[s] = Contribution(block, tokens, f[rest], block.experts[k + 1])
        BY <2>2, <3>1, <4>1
      <4> QED
        BY <4>3, <4>5, <4>6
    <3>2. CASE k + 1 \notin s
      <4>1. s \in SUBSET (1 .. k)
        BY <3>2
      <4>2. g[s] = f[s] /\ f[s] = Fold(block, tokens, f, s)
        BY <2>1, <2>2, <3>2, <4>1
      <4>3. PICK rest : rest = s \ {Max(s)}
        OBVIOUS
      <4>4. rest \in SUBSET (1 .. k) /\ rest \in SUBSET (1 .. k + 1) /\ k + 1 \notin rest
        BY <3>2, <4>1, <4>3
      <4>5. g[rest] = f[rest]
        BY <2>2, <4>4
      <4> QED
        BY <4>2, <4>3, <4>5 DEF Fold
    <3> QED
      BY <3>1, <3>2
  <2>4. IsFold(g, k + 1)
    BY <2>2, <2>3
  <2>5. k + 1 \in 0 .. n
    BY <1>2
  <2> HIDE DEF IsFold
  <2> QED
    BY <2>4, <2>5
<1>3. n \in Defined
  <2> HIDE DEF Defined
  <2>1. 0 .. n \subseteq Defined
    BY <1>1, <1>2, UpToN
  <2> QED
    BY <2>1
<1>4. PICK f : f = CHOOSE g : g = [s \in SUBSET (1 .. n) |-> Fold(block, tokens, g, s)]
  OBVIOUS
<1>5. f = [s \in SUBSET (1 .. n) |-> Fold(block, tokens, f, s)]
  BY <1>3, <1>4
<1>6. DOMAIN block.experts = 1 .. n
  BY LenProperties
<1>7. Forward(block, tokens) = f[1 .. n]
  BY <1>4, <1>6, ForwardIsFold
<1>8. PICK Output : Output = [k \in 0 .. n |-> f[1 .. k]]
  OBVIOUS
<1>9. Output[0] = NoOutput(tokens)
  <2>1. 1 .. 0 = {} /\ 0 \in 0 .. n
    OBVIOUS
  <2> QED
    BY <1>5, <1>8, <2>1 DEF Fold
<1>10. ASSUME NEW k \in 1 .. n
       PROVE  Output[k] = Contribution(block, tokens, Output[k - 1], block.experts[k])
  <2>1. PICK s : s = 1 .. k
    OBVIOUS
  <2>2. PICK l \in Nat : l = k - 1
    OBVIOUS
  <2>3. s \in SUBSET (1 .. n) /\ s \in SUBSET (1 .. l + 1) /\ l + 1 = k /\ k \in s /\ s # {}
        /\ s \ {k} = 1 .. k - 1
    <3>1. k \in Nat /\ 1 <= k /\ k <= n /\ l + 1 = k
      BY <2>2
    <3>2. s \in SUBSET (1 .. n) /\ s = 1 .. l + 1 /\ k \in s
      BY <2>1, <3>1
    <3>3. ASSUME NEW j PROVE j \in s \ {k} <=> j \in 1 .. k - 1
      BY <2>1, <3>1
    <3> QED
      BY <3>1, <3>2, <3>3
  <2>4. Max(s) = k
    BY <2>3, MaxOfInterval
  <2>5. f[s] = Contribution(block, tokens, f[1 .. k - 1], block.experts[k])
    BY <1>5, <2>3, <2>4 DEF Fold
  <2>6. Output[k] = f[s] /\ Output[k - 1] = f[1 .. k - 1]
    BY <1>8, <2>1
  <2> QED
    BY <2>5, <2>6
<1>11. Output[n] = f[1 .. n]
  BY <1>8
<1> QED
  BY <1>7, <1>9, <1>10, <1>11


(* The property's reference definition: the experts selected, in order.    *)
RoutedStep(experts, selected, f, k) ==
  IF k = 0 THEN <<>>
  ELSE IF experts[k] \in selected THEN Append(f[k - 1], experts[k]) ELSE f[k - 1]

RoutedExperts(experts, selected) ==
  CHOOSE f : f = [k \in 0 .. Len(experts) |-> RoutedStep(experts, selected, f, k)]

LEMMA RoutedSteps ==
  ASSUME NEW experts, NEW selected, NEW n \in Nat, n = Len(experts)
  PROVE  RoutedExperts(experts, selected)
           = [k \in 0 .. n |-> RoutedStep(experts, selected, RoutedExperts(experts, selected), k)]
<1> DEFINE IsRouted(f, k) == f = [j \in 0 .. k |-> RoutedStep(experts, selected, f, j)]
           Defined == {k \in 0 .. n : \E f : IsRouted(f, k)}
<1>1. 0 \in Defined
  <2>1. PICK f : f = [j \in 0 .. 0 |-> <<>>]
    OBVIOUS
  <2>2. \A j \in 0 .. 0 : RoutedStep(experts, selected, f, j) = <<>>
    BY DEF RoutedStep
  <2>3. IsRouted(f, 0) /\ 0 \in 0 .. n
    BY <2>1, <2>2
  <2> HIDE DEF IsRouted
  <2> QED
    BY <2>3
<1>2. ASSUME NEW k \in 0 .. n, k \in Defined, k < n PROVE k + 1 \in Defined
  <2>1. PICK f : IsRouted(f, k)
    BY <1>2
  <2>2. PICK g : g = [j \in 0 .. k + 1 |-> IF j <= k THEN f[j]
                                           ELSE RoutedStep(experts, selected, f, k + 1)]
    OBVIOUS
  <2>3. ASSUME NEW j \in 0 .. k + 1 PROVE g[j] = RoutedStep(experts, selected, g, j)
    <3>1. CASE j <= k
      <4>1. j \in 0 .. k /\ (j # 0 => j - 1 \in 0 .. k /\ j - 1 \in 0 .. k + 1 /\ j - 1 <= k)
        BY <3>1
      <4>2. g[j] = f[j] /\ f[j] = RoutedStep(experts, selected, f, j)
        BY <2>1, <2>2, <3>1, <4>1
      <4>3. j # 0 => g[j - 1] = f[j - 1]
        BY <2>2, <4>1
      <4> QED
        BY <4>2, <4>3 DEF RoutedStep
    <3>2. CASE j = k + 1
      <4>1. ~(j <= k) /\ j # 0 /\ j - 1 = k /\ k \in 0 .. k + 1 /\ k <= k
        BY <3>2
      <4>2. g[j] = RoutedStep(experts, selected, f, j) /\ g[j - 1] = f[j - 1]
        BY <2>2, <3>2, <4>1
      <4> QED
        BY <4>1, <4>2 DEF RoutedStep
    <3> QED
      BY <3>1, <3>2
  <2>4. IsRouted(g, k + 1) /\ k + 1 \in 0 .. n
    BY <1>2, <2>2, <2>3
  <2> HIDE DEF IsRouted
  <2> QED
    BY <2>4
<1>3. n \in Defined
  <2> HIDE DEF Defined
  <2>1. 0 .. n \subseteq Defined
    BY <1>1, <1>2, UpToN
  <2> QED
    BY <2>1
<1> QED
  BY <1>3 DEF RoutedExperts

(* Whether all experts compute or only those with tokens, a token gets the *)
(* outputs of those the router selects for it.                             *)
LEMMA ForwardIsRouted ==
  ASSUME NEW block, block.experts \in Seq(Modules), NEW tokens, NEW t \in tokens
  PROVE  Forward(block, tokens)[t]
           = RoutedExperts(block.experts, block.routes[t])[Len(block.experts)]
<1>1. PICK n \in Nat : n = Len(block.experts)
  BY LenProperties
<1>2. PICK Output : /\ Output[0] = NoOutput(tokens)
                    /\ \A k \in 1 .. n :
                         Output[k] = Contribution(block, tokens, Output[k - 1], block.experts[k])
                    /\ Forward(block, tokens) = Output[n]
  BY <1>1, ForwardSteps, SMTT(30)
<1>3. PICK R : R = RoutedExperts(block.experts, block.routes[t])
  OBVIOUS
<1>4. R = [k \in 0 .. n |-> RoutedStep(block.experts, block.routes[t], R, k)]
  BY <1>1, <1>3, RoutedSteps
<1>5. PICK S : S = {k \in 0 .. n : Output[k][t] = R[k]}
  OBVIOUS
<1>6. 0 \in S
  <2>1. 0 \in 0 .. n
    OBVIOUS
  <2>2. R[0] = <<>>
    BY <1>4, <2>1 DEF RoutedStep
  <2>3. Output[0][t] = <<>>
    BY <1>2 DEF NoOutput
  <2> QED
    BY <1>5, <2>1, <2>2, <2>3
<1>7. ASSUME NEW k \in 0 .. n, k \in S, k < n PROVE k + 1 \in S
  <2>1. k + 1 \in 1 .. n /\ k + 1 \in 0 .. n /\ (k + 1) - 1 = k /\ k + 1 # 0
    BY <1>7
  <2>2. PICK e : e = block.experts[k + 1]
    OBVIOUS
  <2>3. R[k + 1] = IF e \in block.routes[t] THEN Append(R[k], e) ELSE R[k]
    BY <1>4, <2>1, <2>2 DEF RoutedStep
  <2>4. Output[k + 1][t] = IF IsCalled(block, e, tokens) /\ t \in Selected(block, e, tokens)
                             THEN Append(Output[k][t], e) ELSE Output[k][t]
    <3>1. Output[k + 1] = Contribution(block, tokens, Output[k], e)
      BY <1>2, <2>1, <2>2
    <3> QED
      BY <3>1 DEF Contribution
  <2>5. IsCalled(block, e, tokens) /\ t \in Selected(block, e, tokens) <=> e \in block.routes[t]
    BY DEF IsCalled, Selected, RoutedTo, ExpertInput
  <2>6. Output[k][t] = R[k]
    BY <1>5, <1>7
  <2> QED
    BY <1>5, <2>1, <2>3, <2>4, <2>5, <2>6
<1>8. n \in S
  <2>1. 0 .. n \subseteq S
    BY <1>6, <1>7, UpToN
  <2> QED
    BY <2>1
<1> QED
  BY <1>1, <1>2, <1>3, <1>5, <1>8

(* Whatever the block of experts, the router and the samples: with all     *)
(* experts seeing all tokens, or only those with tokens called, a token    *)
(* gets the outputs of the experts the router selects, each once and in    *)
(* order (the forward methods of the calibration blocks, modeling/*.py).   *)
THEOREM CalibratingAllExpertsIsInvisible == Spec => []BlockComputesTheSame
<1>1. run.block \in Blocks => BlockComputesTheSame
  <2> SUFFICES ASSUME run.block \in Blocks, NEW s \in Samples, NEW t \in TokensOf[s]
               PROVE  Forward(run.block, TokensOf[s])[t]
                        = RoutedExperts(run.block.experts, run.block.routes[t])
                            [Len(run.block.experts)]
    BY DEF BlockComputesTheSame, RoutedExperts, RoutedStep
  <2>1. PICK block \in Blocks : block = run.block
    OBVIOUS
  <2>2. block.experts \in Seq(Modules)
    BY ModelAssumption
  <2>3. PICK tokens : tokens = TokensOf[s] /\ t \in tokens
    OBVIOUS
  <2>4. Forward(block, tokens)[t]
          = RoutedExperts(block.experts, block.routes[t])[Len(block.experts)]
    BY <2>2, <2>3, ForwardIsRouted
  <2> QED
    BY <2>1, <2>3, <2>4
<1>2. Init => run.block \in Blocks
  BY DEF Init
<1>3. run.block \in Blocks /\ [Next]_vars => (run.block \in Blocks)'
  BY DEF Next, Step, vars, Load, MakeSampler, Calibrate, ReduceHessians, CompressModules,
         ReceiveParams
<1> QED
  BY <1>1, <1>2, <1>3, PTL DEF Spec


=============================================================================
