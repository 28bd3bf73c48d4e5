------------------------ MODULE FreeBlockQueueProofs ------------------------
(***************************************************************************)
(* For every number of blocks: the linked list is intact (Linked) and is a *)
(* queue (QueueRefined), whatever mixture of popleft, popleft_n, remove,   *)
(* append and append_n the block pool calls.                               *)
(*                                                                         *)
(* Linked speaks of the walk over the links, which is not inductive: a     *)
(* method changes links in the middle of the walk.  The invariant says     *)
(* instead that there is a sequence of blocks along which both links of    *)
(* every node lead (Chained), and a method gives another such sequence;    *)
(* the walk is then determined (WalkIsChain, ListIsChain).                 *)
(***************************************************************************)
EXTENDS FreeBlockQueue, FiniteSetTheorems, SequenceTheorems, WellFoundedInduction, TLAPS

\* Node number k of the list with the blocks q, from the fake head on.
At(q, k) == IF k = 0 THEN FakeHead ELSE IF k = Len(q) + 1 THEN FakeTail ELSE q[k]

\* The links are those of a list with the free blocks in the order q.
Chained(q) ==
  /\ q \in Seq(Block) /\ IsInjective(q)
  /\ Range(q) = Block \ taken
  /\ numFree = Len(q)
  /\ \A k \in 0 .. Len(q) : /\ nextFree[At(q, k)] = At(q, k + 1)
                            /\ prevFree[At(q, k + 1)] = At(q, k)
  /\ nextFree[FakeTail] = None /\ prevFree[FakeHead] = None
  /\ \A b \in taken : nextFree[b] = None /\ prevFree[b] = None

IInv == TypeOK /\ \E q : Chained(q)

-----------------------------------------------------------------------------
(* Lists of blocks                                                         *)

\* The fake nodes are no blocks, None is no node.
LEMMA Nodes ==
  /\ FakeHead \notin Block /\ FakeTail \notin Block /\ FakeHead # FakeTail
  /\ None \notin Node /\ Block \subseteq Node /\ FakeHead \in Node /\ FakeTail \in Node
BY NumBlocksAssumption DEF Block, FakeHead, FakeTail, Node, None

\* A list without duplicates is no longer than there are blocks.
LEMMA ListLength ==
  ASSUME NEW S \in SUBSET Block, NEW q \in Seq(S), IsInjective(q)
  PROVE  /\ IsFiniteSet(S) /\ Cardinality(S) \in Nat /\ Cardinality(S) <= NumBlocks
         /\ Len(q) \in Nat /\ DOMAIN q = 1 .. Len(q)
         /\ Len(q) <= Cardinality(S) /\ Len(q) <= NumBlocks
<1>1. IsFiniteSet(Block) /\ Cardinality(Block) = NumBlocks
  <2>1. 0 \in Int /\ NumBlocks - 1 \in Int
    BY NumBlocksAssumption
  <2>2. IsFiniteSet(0 .. (NumBlocks - 1))
        /\ Cardinality(0 .. (NumBlocks - 1)) =
             IF 0 > NumBlocks - 1 THEN 0 ELSE NumBlocks - 1 - 0 + 1
    BY <2>1, FS_Interval
  <2> QED BY <2>2, NumBlocksAssumption DEF Block
<1>2. IsFiniteSet(S) /\ Cardinality(S) \in Nat /\ Cardinality(S) <= NumBlocks
  BY <1>1, FS_Subset, FS_CardinalityType
<1>3. Len(q) \in Nat /\ DOMAIN q = 1 .. Len(q) /\ q \in [1 .. Len(q) -> S]
  BY LenProperties
<1>4. q \in Injection(1 .. Len(q), S)
  BY <1>3 DEF Injection
<1>5. IsFiniteSet(1 .. Len(q)) /\ Cardinality(1 .. Len(q)) = Len(q)
  <2>1. 1 \in Int /\ Len(q) \in Int
    BY <1>3
  <2>2. IsFiniteSet(1 .. Len(q)) /\ Cardinality(1 .. Len(q)) = IF 1 > Len(q) THEN 0 ELSE Len(q) - 1 + 1
    BY <2>1, FS_Interval
  <2> QED BY <2>2, <1>3
<1>6. Len(q) <= Cardinality(S)
  BY <1>2, <1>4, <1>5, FS_Injection
<1> QED BY <1>2, <1>3, <1>6, NumBlocksAssumption

\* The nodes of a list: which they are, and that they differ.
LEMMA AtProperties ==
  ASSUME NEW q \in Seq(Block), IsInjective(q)
  PROVE  /\ Len(q) \in Nat /\ DOMAIN q = 1 .. Len(q)
         /\ At(q, 0) = FakeHead /\ At(q, Len(q) + 1) = FakeTail
         /\ \A k \in 1 .. Len(q) : At(q, k) = q[k] /\ q[k] \in Block
         /\ \A k \in 0 .. (Len(q) + 1) : At(q, k) \in Node
         /\ \A j, k \in 0 .. (Len(q) + 1) : At(q, j) = At(q, k) => j = k
<1>1. Len(q) \in Nat /\ DOMAIN q = 1 .. Len(q) /\ \A k \in 1 .. Len(q) : q[k] \in Block
  BY LenProperties, ElementOfSeq
<1>2. /\ At(q, 0) = FakeHead /\ At(q, Len(q) + 1) = FakeTail
      /\ \A k \in 1 .. Len(q) : At(q, k) = q[k]
  BY <1>1 DEF At
<1>3. \A k \in 0 .. (Len(q) + 1) : k = 0 \/ k = Len(q) + 1 \/ k \in 1 .. Len(q)
  BY <1>1
<1>4. \A k \in 0 .. (Len(q) + 1) : At(q, k) \in Node
  BY <1>1, <1>2, <1>3, Nodes
<1>5. ASSUME NEW j \in 0 .. (Len(q) + 1), NEW k \in 0 .. (Len(q) + 1), At(q, j) = At(q, k)
      PROVE  j = k
  BY <1>1, <1>2, <1>3, <1>5, Nodes DEF IsInjective
<1> QED BY <1>1, <1>2, <1>4, <1>5

-----------------------------------------------------------------------------
(* The walk over the links                                                 *)

\* A set of numbers has a least one.
LEMMA LeastElement ==
  ASSUME NEW S \in SUBSET Nat, S # {}
  PROVE  \E x \in S : \A y \in S : x <= y
<1> DEFINE R == OpToRel(<, Nat)
<1>1. IsWellFoundedOn(R, Nat)
  BY NatLessThanWellFounded
<1>2. \A x, y \in Nat : y < x => <<y, x>> \in R
  BY DEF OpToRel
<1> HIDE DEF R
<1>3. PICK x \in S : \A y \in S : ~(<<y, x>> \in R)
  BY <1>1, WFMin
<1>4. ASSUME NEW y \in S PROVE x <= y
  <2>1. x \in Nat /\ y \in Nat
    OBVIOUS
  <2>2. ~(y < x)
    BY <2>1, <1>2, <1>3, Zenon
  <2> QED BY <2>1, <2>2
<1> QED BY <1>4

\* The next node of a walk.
Step(x) == IF x = None THEN None ELSE nextFree[x]

\* Walk is defined: it satisfies its recursive equation.
LEMMA WalkEquation ==
  ASSUME NEW q, Chained(q)
  PROVE  \A k \in 0 .. NumBlocks : Walk[k] = IF k = 0 THEN nextFree[FakeHead] ELSE Step(Walk[k - 1])
<1> DEFINE w == [k \in 0 .. NumBlocks |-> IF k <= Len(q) THEN At(q, k + 1) ELSE None]
           E(v) == [k \in 0 .. NumBlocks |->
                      IF k = 0 THEN nextFree[FakeHead]
                      ELSE IF v[k - 1] = None THEN None ELSE nextFree[v[k - 1]]]
<1>1. /\ q \in Seq(Block) /\ IsInjective(q) /\ nextFree[FakeTail] = None
      /\ \A k \in 0 .. Len(q) : nextFree[At(q, k)] = At(q, k + 1)
  BY DEF Chained
<1>2. /\ Len(q) \in Nat /\ Len(q) <= NumBlocks /\ NumBlocks \in Nat
      /\ At(q, 0) = FakeHead /\ At(q, Len(q) + 1) = FakeTail
      /\ \A k \in 0 .. (Len(q) + 1) : At(q, k) # None
  BY <1>1, AtProperties, ListLength, Nodes, NumBlocksAssumption
<1>3. ASSUME NEW k \in 0 .. NumBlocks PROVE w[k] = E(w)[k]
  <2>1. CASE k = 0
    BY <2>1, <1>1, <1>2
  <2>2. CASE k # 0
    <3>1. k - 1 \in 0 .. NumBlocks /\ k \in Nat /\ (k - 1) + 1 = k
      BY <2>2, <1>2
    <3>2. CASE k <= Len(q)
      <4>1. w[k - 1] = At(q, k) /\ w[k] = At(q, k + 1) /\ k \in 0 .. Len(q) /\ k \in 0 .. (Len(q) + 1)
        BY <3>1, <3>2, <1>2
      <4> QED BY <4>1, <2>2, <1>1, <1>2
    <3>3. CASE k = Len(q) + 1
      <4>1. w[k - 1] = FakeTail /\ w[k] = None
        BY <3>1, <3>3, <1>2
      <4> QED BY <4>1, <2>2, <1>1
    <3>4. CASE k > Len(q) + 1
      <4>1. w[k - 1] = None /\ w[k] = None
        BY <3>1, <3>4, <1>2
      <4> QED BY <4>1, <2>2
    <3> QED BY <3>1, <3>2, <3>3, <3>4, <1>2
  <2> QED BY <2>1, <2>2
<1>4. w = E(w)
  BY <1>3
<1> HIDE DEF w
<1>5. \E v : v = E(v)
  BY <1>4
<1>6. Walk = CHOOSE v : v = E(v)
  BY DEF Walk
<1>7. Walk = E(Walk)
  BY <1>5, <1>6
<1> QED BY <1>7, Zenon DEF Step

\* The walk goes along the list, to its tail and beyond.
LEMMA WalkIsChain ==
  ASSUME NEW q, Chained(q)
  PROVE  \A k \in 0 .. NumBlocks : Walk[k] = IF k <= Len(q) THEN At(q, k + 1) ELSE None
<1> DEFINE V(k) == IF k <= Len(q) THEN At(q, k + 1) ELSE None
           Bad  == {k \in 0 .. NumBlocks : Walk[k] # V(k)}
<1>1. /\ q \in Seq(Block) /\ IsInjective(q) /\ nextFree[FakeTail] = None
      /\ \A k \in 0 .. Len(q) : nextFree[At(q, k)] = At(q, k + 1)
  BY DEF Chained
<1>2. /\ Len(q) \in Nat /\ Len(q) <= NumBlocks /\ NumBlocks \in Nat
      /\ At(q, 0) = FakeHead /\ At(q, Len(q) + 1) = FakeTail
      /\ \A k \in 0 .. (Len(q) + 1) : At(q, k) # None
  BY <1>1, AtProperties, ListLength, Nodes, NumBlocksAssumption
<1>3. \A k \in 0 .. NumBlocks : Walk[k] = IF k = 0 THEN nextFree[FakeHead] ELSE Step(Walk[k - 1])
  BY WalkEquation
<1>4. SUFFICES ASSUME Bad # {} PROVE FALSE
  OBVIOUS
<1>5. PICK k \in Bad : \A j \in Bad : k <= j
  <2>1. Bad \in SUBSET Nat
    BY <1>2
  <2> HIDE DEF Bad
  <2> QED BY <1>4, <2>1, LeastElement
<1>6. k \in 0 .. NumBlocks /\ Walk[k] # V(k)
  OBVIOUS
<1>7. k # 0
  <2>1. V(0) = At(q, 1) /\ Walk[0] = At(q, 1)
    BY <1>1, <1>2, <1>3
  <2> QED BY <2>1, <1>6
<1>8. k - 1 \in 0 .. NumBlocks /\ k - 1 < k /\ (k - 1) + 1 = k
  BY <1>2, <1>6, <1>7
<1>9. Walk[k - 1] = V(k - 1)
  BY <1>5, <1>6, <1>8
<1>10. Walk[k] = Step(Walk[k - 1])
  BY <1>3, <1>6, <1>7
<1>11. CASE k <= Len(q)
  <2>1. V(k - 1) = At(q, k) /\ V(k) = At(q, k + 1) /\ k \in 0 .. Len(q) /\ k \in 0 .. (Len(q) + 1)
    BY <1>2, <1>6, <1>8, <1>11
  <2>2. Step(At(q, k)) = At(q, k + 1)
    BY <2>1, <1>1, <1>2 DEF Step
  <2> QED BY <2>1, <2>2, <1>6, <1>9, <1>10
<1>12. CASE k = Len(q) + 1
  <2>1. V(k - 1) = FakeTail /\ V(k) = None
    BY <1>2, <1>8, <1>12
  <2>2. Step(FakeTail) = None
    BY <1>1 DEF Step
  <2> QED BY <2>1, <2>2, <1>6, <1>9, <1>10
<1>13. CASE k > Len(q) + 1
  <2>1. V(k - 1) = None /\ V(k) = None
    BY <1>2, <1>6, <1>8, <1>13
  <2>2. Step(None) = None
    BY DEF Step
  <2> QED BY <2>1, <2>2, <1>6, <1>9, <1>10
<1> QED BY <1>2, <1>6, <1>11, <1>12, <1>13

ListDetermined == \A q : Chained(q) => FreeList = q

\* The list that get_all_free_blocks returns is the only one the links follow.
LEMMA ListIsChain == ListDetermined
<1> SUFFICES ASSUME NEW q, Chained(q) PROVE FreeList = q
  BY DEF ListDetermined
<1> DEFINE n == Len(q)
<1>1. /\ q \in Seq(Block) /\ IsInjective(q)
      /\ n \in Nat /\ n <= NumBlocks /\ NumBlocks \in Nat /\ DOMAIN q = 1 .. n
      /\ At(q, n + 1) = FakeTail
      /\ \A k \in 1 .. n : At(q, k) = q[k] /\ q[k] \in Block
  BY AtProperties, ListLength, NumBlocksAssumption DEF Chained
<1>2. \A k \in 0 .. NumBlocks : Walk[k] = IF k <= n THEN At(q, k + 1) ELSE None
  BY WalkIsChain
<1> HIDE DEF n
<1>3. \A k \in 0 .. (n - 1) : Walk[k] = q[k + 1] /\ q[k + 1] \in Block
  <2> TAKE k \in 0 .. (n - 1)
  <2>1. k \in 0 .. NumBlocks /\ k <= n /\ k + 1 \in 1 .. n
    BY <1>1
  <2> QED BY <2>1, <1>1, <1>2
<1>4. n \in 0 .. NumBlocks /\ Walk[n] = FakeTail
  BY <1>1, <1>2
<1>5. Reaches(n)
  BY <1>3, <1>4, Nodes DEF Reaches
<1>6. ASSUME NEW k \in 0 .. NumBlocks, Reaches(k) PROVE k = n
  <2>1. ~(k < n)
    <3> SUFFICES ASSUME k < n PROVE FALSE
      OBVIOUS
    <3>1. k \in 0 .. (n - 1)
      BY <1>1
    <3> QED BY <3>1, <1>3, <1>6, Nodes DEF Reaches
  <2>2. ~(n < k)
    <3> SUFFICES ASSUME n < k PROVE FALSE
      OBVIOUS
    <3>1. n \in 0 .. (k - 1)
      BY <1>1
    <3> QED BY <3>1, <1>4, <1>6 DEF Reaches
  <2> QED BY <2>1, <2>2, <1>1
<1>7. FreeList = [i \in 1 .. n |-> Walk[i - 1]]
  <2>1. (CHOOSE k \in 0 .. NumBlocks : Reaches(k)) = n
    BY <1>4, <1>5, <1>6
  <2>2. \E k \in 0 .. NumBlocks : Reaches(k)
    BY <1>4, <1>5
  <2> QED BY <2>1, <2>2, Zenon DEF FreeList
<1>8. \A i \in 1 .. n : Walk[i - 1] = q[i]
  <2> TAKE i \in 1 .. n
  <2>1. i - 1 \in 0 .. (n - 1) /\ (i - 1) + 1 = i
    BY <1>1
  <2> QED BY <2>1, <1>3
<1>9. q = [i \in 1 .. n |-> q[i]]
  BY <1>1, LenProperties DEF n
<1> QED BY <1>7, <1>8, <1>9

\* The walk after a step is the sequence along which the new links lead.
LEMMA ListIsChainNext == ListDetermined'
BY ListIsChain, PTL

-----------------------------------------------------------------------------
(* The lists after a call                                                  *)

WithoutFirst(q, n) == SubSeq(q, n + 1, Len(q))
Without(q, i) == SubSeq(q, 1, i - 1) \o SubSeq(q, i + 1, Len(q))

\* popleft and popleft_n: the list without its first n blocks.
LEMMA ListWithoutFirst ==
  ASSUME NEW q \in Seq(Block), IsInjective(q), NEW n \in 1 .. Len(q)
  PROVE  /\ WithoutFirst(q, n) \in Seq(Block) /\ IsInjective(WithoutFirst(q, n))
         /\ Len(WithoutFirst(q, n)) = Len(q) - n
         /\ \A k \in 1 .. (Len(q) - n + 1) : At(WithoutFirst(q, n), k) = At(q, k + n)
         /\ Range(WithoutFirst(q, n)) = Range(q) \ {q[k] : k \in 1 .. n}
<1> DEFINE q2 == WithoutFirst(q, n)
           L  == Len(q)
           P  == {q[k] : k \in 1 .. n}
<1>1. /\ L \in Nat /\ DOMAIN q = 1 .. L
      /\ \A k \in 1 .. L : q[k] \in Block
      /\ \A j, k \in 1 .. L : q[j] = q[k] => j = k
      /\ n \in 1 .. L
  BY AtProperties DEF IsInjective
<1>2. q2 \in Seq(Block) /\ Len(q2) = L - n /\ \A k \in 1 .. (L - n) : q2[k] = q[k + n]
  <2>1. n + 1 \in Int /\ L \in Int /\ \A k \in (n + 1) .. L : q[k] \in Block
    BY <1>1
  <2>2. /\ q2 \in Seq(Block)
        /\ Len(q2) = IF n + 1 <= L THEN L - (n + 1) + 1 ELSE 0
        /\ \A k \in 1 .. (L - (n + 1) + 1) : q2[k] = q[(n + 1) + k - 1]
    BY <2>1, SubSeqProperties DEF WithoutFirst
  <2> HIDE DEF q2, L
  <2>3. Len(q2) = L - n
    BY <2>2, <1>1
  <2>4. ASSUME NEW k \in 1 .. (L - n) PROVE q2[k] = q[k + n]
    <3>1. k \in 1 .. (L - (n + 1) + 1) /\ (n + 1) + k - 1 = k + n
      BY <1>1
    <3> QED BY <2>2, <3>1
  <2> QED BY <2>2, <2>3, <2>4
<1>3. DOMAIN q2 = 1 .. (L - n)
  BY <1>2, LenProperties
<1>4. \A k \in 1 .. (L - n) : k + n \in 1 .. L /\ k + n \notin 1 .. n /\ k \in Int
  <2> HIDE DEF L
  <2> QED BY <1>1
<1>5. \A k \in 1 .. (L - n + 1) : At(q2, k) = At(q, k + n)
  <2> TAKE k \in 1 .. (L - n + 1)
  <2>1. CASE k = L - n + 1
    <3>1. At(q2, k) = FakeTail
      <4> HIDE DEF L, q2
      <4> QED BY <2>1, <1>1, <1>2 DEF At
    <3>2. k + n = L + 1 /\ L + 1 # 0
      <4> HIDE DEF L
      <4> QED BY <2>1, <1>1
    <3> QED BY <3>1, <3>2 DEF At
  <2>2. CASE k # L - n + 1
    <3>1. k \in 1 .. (L - n) /\ k # 0 /\ k + n # 0 /\ k + n # L + 1
      <4> HIDE DEF L
      <4> QED BY <2>2, <1>1
    <3> HIDE DEF q2
    <3> QED BY <3>1, <2>2, <1>2 DEF At
  <2> QED BY <2>1, <2>2
<1> HIDE DEF q2, L
<1>6. IsInjective(q2)
  <2> SUFFICES ASSUME NEW j \in 1 .. (L - n), NEW k \in 1 .. (L - n), q2[j] = q2[k] PROVE j = k
    BY <1>3 DEF IsInjective
  <2>1. j + n = k + n
    BY <1>1, <1>2, <1>4
  <2> QED BY <2>1, <1>1
<1>7. Range(q2) = Range(q) \ P
  <2>1. ASSUME NEW x \in Range(q2) PROVE x \in Range(q) \ P
    <3>1. PICK k \in 1 .. (L - n) : x = q2[k]
      BY <1>3 DEF Range
    <3>2. x = q[k + n] /\ k + n \in 1 .. L /\ k + n \notin 1 .. n
      BY <3>1, <1>2, <1>4
    <3>3. 1 .. n \subseteq 1 .. L
      BY <1>1
    <3> QED BY <3>2, <3>3, <1>1 DEF Range
  <2>2. ASSUME NEW x \in Range(q) \ P PROVE x \in Range(q2)
    <3>1. PICK k \in 1 .. L : x = q[k]
      BY <1>1 DEF Range
    <3>2. k \notin 1 .. n
      BY <3>1
    <3>3. k - n \in 1 .. (L - n) /\ (k - n) + n = k
      BY <3>2, <1>1
    <3>4. x = q2[k - n]
      BY <3>1, <3>3, <1>2
    <3> QED BY <3>3, <3>4, <1>3 DEF Range
  <2> QED BY <2>1, <2>2
<1> QED BY <1>2, <1>5, <1>6, <1>7 DEF q2, L

\* remove: the list without the block at i.
LEMMA ListWithout ==
  ASSUME NEW q \in Seq(Block), IsInjective(q), NEW i \in 1 .. Len(q)
  PROVE  /\ Without(q, i) \in Seq(Block) /\ IsInjective(Without(q, i))
         /\ Len(Without(q, i)) = Len(q) - 1
         /\ \A k \in 0 .. Len(q) :
              At(Without(q, i), k) = IF k < i THEN At(q, k) ELSE At(q, k + 1)
         /\ Range(Without(q, i)) = Range(q) \ {q[i]}
<1> DEFINE q2 == Without(q, i)
           L  == Len(q)
           s1 == SubSeq(q, 1, i - 1)
           s2 == SubSeq(q, i + 1, Len(q))
<1>1. /\ L \in Nat /\ DOMAIN q = 1 .. L
      /\ \A k \in 1 .. L : q[k] \in Block
      /\ \A j, k \in 1 .. L : q[j] = q[k] => j = k
      /\ i \in 1 .. L
  BY AtProperties DEF IsInjective
<1>2. s1 \in Seq(Block) /\ Len(s1) = i - 1 /\ \A k \in 1 .. (i - 1) : s1[k] = q[k]
  <2>1. 1 \in Int /\ i - 1 \in Int /\ \A k \in 1 .. (i - 1) : q[k] \in Block
    BY <1>1
  <2>2. /\ s1 \in Seq(Block)
        /\ Len(s1) = IF 1 <= i - 1 THEN (i - 1) - 1 + 1 ELSE 0
        /\ \A k \in 1 .. ((i - 1) - 1 + 1) : s1[k] = q[1 + k - 1]
    BY <2>1, SubSeqProperties
  <2> HIDE DEF s1, L
  <2>3. Len(s1) = i - 1
    BY <2>2, <1>1
  <2>4. ASSUME NEW k \in 1 .. (i - 1) PROVE s1[k] = q[k]
    <3>1. k \in 1 .. ((i - 1) - 1 + 1) /\ 1 + k - 1 = k
      BY <1>1
    <3> QED BY <2>2, <3>1
  <2> QED BY <2>2, <2>3, <2>4
<1>3. s2 \in Seq(Block) /\ Len(s2) = L - i /\ \A k \in 1 .. (L - i) : s2[k] = q[k + i]
  <2>1. i + 1 \in Int /\ L \in Int /\ \A k \in (i + 1) .. L : q[k] \in Block
    BY <1>1
  <2>2. /\ s2 \in Seq(Block)
        /\ Len(s2) = IF i + 1 <= L THEN L - (i + 1) + 1 ELSE 0
        /\ \A k \in 1 .. (L - (i + 1) + 1) : s2[k] = q[(i + 1) + k - 1]
    BY <2>1, SubSeqProperties
  <2> HIDE DEF s2, L
  <2>3. Len(s2) = L - i
    BY <2>2, <1>1
  <2>4. ASSUME NEW k \in 1 .. (L - i) PROVE s2[k] = q[k + i]
    <3>1. k \in 1 .. (L - (i + 1) + 1) /\ (i + 1) + k - 1 = k + i
      BY <1>1
    <3> QED BY <2>2, <3>1
  <2> QED BY <2>2, <2>3, <2>4
<1>4. q2 = s1 \o s2
  BY DEF Without
<1> HIDE DEF s1, s2, q2
<1>5. /\ q2 \in Seq(Block)
      /\ Len(q2) = Len(s1) + Len(s2)
      /\ \A k \in 1 .. Len(s1) + Len(s2) : q2[k] = IF k <= Len(s1) THEN s1[k] ELSE s2[k - Len(s1)]
  <2>1. s1 \in Seq(Block) /\ s2 \in Seq(Block)
    BY <1>2, <1>3
  <2>2. /\ s1 \o s2 \in Seq(Block)
        /\ Len(s1 \o s2) = Len(s1) + Len(s2)
        /\ \A k \in 1 .. Len(s1) + Len(s2) :
             (s1 \o s2)[k] = IF k <= Len(s1) THEN s1[k] ELSE s2[k - Len(s1)]
    BY <2>1, ConcatProperties
  <2> QED BY <2>2, <1>4
<1>6. Len(q2) = L - 1
  <2> HIDE DEF L
  <2> QED BY <1>1, <1>2, <1>3, <1>5
<1>7. ASSUME NEW k \in 1 .. (L - 1) PROVE q2[k] = IF k < i THEN q[k] ELSE q[k + 1]
  <2> HIDE DEF L
  <2>1. k \in 1 .. Len(s1) + Len(s2)
    BY <1>1, <1>2, <1>3
  <2>2. CASE k < i
    <3>1. k \in 1 .. (i - 1) /\ k <= Len(s1)
      BY <2>2, <1>1, <1>2
    <3> QED BY <3>1, <2>1, <2>2, <1>2, <1>5
  <2>3. CASE ~(k < i)
    <3>1. k - (i - 1) \in 1 .. (L - i) /\ ~(k <= Len(s1)) /\ (k - (i - 1)) + i = k + 1
      BY <2>3, <1>1, <1>2
    <3>2. q2[k] = s2[k - (i - 1)]
      BY <2>1, <3>1, <1>2, <1>5
    <3> QED BY <3>1, <3>2, <2>3, <1>3
  <2> QED BY <2>2, <2>3
<1>8. DOMAIN q2 = 1 .. (L - 1)
  BY <1>5, <1>6, LenProperties
<1>9. \A k \in 0 .. L : At(q2, k) = IF k < i THEN At(q, k) ELSE At(q, k + 1)
  <2> TAKE k \in 0 .. L
  <2>1. CASE k = 0
    <3>1. k < i
      <4> HIDE DEF L
      <4> QED BY <2>1, <1>1
    <3> QED BY <2>1, <3>1 DEF At
  <2>2. CASE k = L
    <3>1. ~(k < i) /\ k # 0 /\ k = Len(q2) + 1 /\ k + 1 # 0 /\ k + 1 = L + 1
      <4> HIDE DEF L
      <4> QED BY <2>2, <1>1, <1>6
    <3> QED BY <3>1 DEF At
  <2>3. CASE k # 0 /\ k # L
    <3>1. /\ k \in 1 .. (L - 1) /\ k # Len(q2) + 1 /\ k # L + 1
          /\ k + 1 # 0 /\ k + 1 # L + 1
      <4> HIDE DEF L
      <4> QED BY <2>3, <1>1, <1>6
    <3>2. At(q2, k) = q2[k] /\ At(q, k) = q[k] /\ At(q, k + 1) = q[k + 1]
      BY <3>1, <2>3 DEF At
    <3> QED BY <3>1, <3>2, <1>7
  <2> QED BY <2>1, <2>2, <2>3
<1> HIDE DEF L
<1>10. \A k \in 1 .. (L - 1) : \E j \in 1 .. L :
         q2[k] = q[j] /\ j # i /\ (k < i => j = k) /\ (~(k < i) => j = k + 1)
  <2> TAKE k \in 1 .. (L - 1)
  <2>1. k \in 1 .. L /\ k + 1 \in 1 .. L
    BY <1>1
  <2>2. CASE k < i
    <3>1. q2[k] = q[k] /\ k # i
      BY <2>2, <1>1, <1>7
    <3> QED BY <3>1, <2>1, <2>2
  <2>3. CASE ~(k < i)
    <3>1. q2[k] = q[k + 1] /\ k + 1 # i
      BY <2>3, <1>1, <1>7
    <3> QED BY <3>1, <2>1, <2>3
  <2> QED BY <2>2, <2>3
<1>11. IsInjective(q2)
  <2> SUFFICES ASSUME NEW j \in 1 .. (L - 1), NEW k \in 1 .. (L - 1), q2[j] = q2[k] PROVE j = k
    BY <1>8 DEF IsInjective
  <2>1. PICK a \in 1 .. L : q2[j] = q[a] /\ (j < i => a = j) /\ (~(j < i) => a = j + 1)
    BY <1>10
  <2>2. PICK b \in 1 .. L : q2[k] = q[b] /\ (k < i => b = k) /\ (~(k < i) => b = k + 1)
    BY <1>10
  <2>3. a = b
    BY <2>1, <2>2, <1>1
  <2> QED BY <2>1, <2>2, <2>3, <1>1
<1>12. Range(q2) = Range(q) \ {q[i]}
  <2>1. ASSUME NEW x \in Range(q2) PROVE x \in Range(q) \ {q[i]}
    <3>1. PICK k \in 1 .. (L - 1) : x = q2[k]
      BY <1>8 DEF Range
    <3>2. PICK j \in 1 .. L : x = q[j] /\ j # i
      BY <3>1, <1>10
    <3> QED BY <3>2, <1>1 DEF Range
  <2>2. ASSUME NEW x \in Range(q) \ {q[i]} PROVE x \in Range(q2)
    <3>1. PICK k \in 1 .. L : x = q[k] /\ k # i
      BY <1>1 DEF Range
    <3>2. PICK j \in 1 .. (L - 1) : x = q2[j]
      <4>1. CASE k < i
        <5>1. k \in 1 .. (L - 1)
          BY <4>1, <1>1
        <5> QED BY <5>1, <4>1, <3>1, <1>7
      <4>2. CASE ~(k < i)
        <5>1. k - 1 \in 1 .. (L - 1) /\ ~(k - 1 < i) /\ (k - 1) + 1 = k
          BY <4>2, <3>1, <1>1
        <5>2. q2[k - 1] = q[k]
          BY <5>1, <1>7
        <5> QED BY <5>1, <5>2, <3>1
      <4> QED BY <4>1, <4>2
    <3> QED BY <3>2, <1>8 DEF Range
  <2> QED BY <2>1, <2>2
<1> QED BY <1>5, <1>6, <1>9, <1>11, <1>12 DEF q2, L

\* append and append_n: the list with the blocks bs behind it.
LEMMA ListWith ==
  ASSUME NEW q \in Seq(Block), IsInjective(q), NEW bs \in Seq(Block), IsInjective(bs),
         Range(q) \cap Range(bs) = {}
  PROVE  /\ q \o bs \in Seq(Block) /\ IsInjective(q \o bs)
         /\ Len(q \o bs) = Len(q) + Len(bs)
         /\ \A k \in 0 .. Len(q) : At(q \o bs, k) = At(q, k)
         /\ \A k \in 1 .. Len(bs) : At(q \o bs, Len(q) + k) = bs[k]
         /\ At(q \o bs, Len(q) + Len(bs) + 1) = FakeTail
         /\ Range(q \o bs) = Range(q) \cup Range(bs)
<1> DEFINE q2 == q \o bs
<1>1. /\ Len(q) \in Nat /\ DOMAIN q = 1 .. Len(q)
      /\ \A j, k \in 1 .. Len(q) : q[j] = q[k] => j = k
  BY AtProperties DEF IsInjective
<1>2. /\ Len(bs) \in Nat /\ DOMAIN bs = 1 .. Len(bs)
      /\ \A j, k \in 1 .. Len(bs) : bs[j] = bs[k] => j = k
  BY AtProperties DEF IsInjective
<1>3. /\ q2 \in Seq(Block)
      /\ Len(q2) = Len(q) + Len(bs)
      /\ \A k \in 1 .. Len(q) + Len(bs) : q2[k] = IF k <= Len(q) THEN q[k] ELSE bs[k - Len(q)]
  BY ConcatProperties
<1> HIDE DEF q2
<1>4. DOMAIN q2 = 1 .. Len(q2)
  BY <1>3, LenProperties
<1>5. \A k \in 1 .. Len(q) : q2[k] = q[k]
  BY <1>1, <1>2, <1>3
<1>6. \A k \in 1 .. Len(bs) : q2[Len(q) + k] = bs[k]
  <2> TAKE k \in 1 .. Len(bs)
  <2>1. Len(q) + k \in 1 .. Len(q) + Len(bs) /\ ~(Len(q) + k <= Len(q)) /\ (Len(q) + k) - Len(q) = k
    BY <1>1, <1>2
  <2> QED BY <2>1, <1>3
<1>7. /\ \A x : x \in Range(q) <=> \E k \in 1 .. Len(q) : x = q[k]
      /\ \A x : x \in Range(bs) <=> \E k \in 1 .. Len(bs) : x = bs[k]
      /\ \A x : x \in Range(q2) <=> \E k \in 1 .. Len(q2) : x = q2[k]
  BY <1>1, <1>2, <1>4, Zenon DEF Range
<1>8. \A j \in 1 .. Len(q), k \in 1 .. Len(bs) : q[j] # bs[k]
  BY <1>7
<1>9. \A k \in 1 .. Len(q2) : k \in 1 .. Len(q) \/ \E m \in 1 .. Len(bs) : k = Len(q) + m
  <2> TAKE k \in 1 .. Len(q2)
  <2>1. k \in 1 .. Len(q) \/ (k - Len(q) \in 1 .. Len(bs) /\ k = Len(q) + (k - Len(q)))
    BY <1>1, <1>2, <1>3
  <2> QED BY <2>1
<1>10. IsInjective(q2)
  <2> SUFFICES ASSUME NEW j \in 1 .. Len(q2), NEW k \in 1 .. Len(q2), q2[j] = q2[k] PROVE j = k
    BY <1>4 DEF IsInjective
  <2>1. CASE j \in 1 .. Len(q) /\ k \in 1 .. Len(q)
    BY <2>1, <1>1, <1>5
  <2>2. CASE j \in 1 .. Len(q) /\ k \notin 1 .. Len(q)
    <3>1. PICK m \in 1 .. Len(bs) : k = Len(q) + m
      BY <2>2, <1>9
    <3>2. q2[j] = q[j] /\ q2[k] = bs[m]
      BY <2>2, <3>1, <1>5, <1>6
    <3> QED BY <2>2, <3>2, <1>8
  <2>3. CASE j \notin 1 .. Len(q) /\ k \in 1 .. Len(q)
    <3>1. PICK m \in 1 .. Len(bs) : j = Len(q) + m
      BY <2>3, <1>9
    <3>2. q2[k] = q[k] /\ q2[j] = bs[m]
      BY <2>3, <3>1, <1>5, <1>6
    <3> QED BY <2>3, <3>2, <1>8
  <2>4. CASE j \notin 1 .. Len(q) /\ k \notin 1 .. Len(q)
    <3>1. PICK m \in 1 .. Len(bs) : j = Len(q) + m
      BY <2>4, <1>9
    <3>2. PICK l \in 1 .. Len(bs) : k = Len(q) + l
      BY <2>4, <1>9
    <3> QED BY <3>1, <3>2, <1>2, <1>6
  <2> QED BY <2>1, <2>2, <2>3, <2>4
<1>11. \A k \in 0 .. Len(q) : At(q2, k) = At(q, k)
  BY <1>1, <1>2, <1>3, <1>5 DEF At
<1>12. \A k \in 1 .. Len(bs) : At(q2, Len(q) + k) = bs[k]
  <2> TAKE k \in 1 .. Len(bs)
  <2>1. Len(q) + k # 0 /\ Len(q) + k # Len(q2) + 1
    BY <1>1, <1>2, <1>3
  <2> QED BY <2>1, <1>6 DEF At
<1>13. At(q2, Len(q) + Len(bs) + 1) = FakeTail
  BY <1>1, <1>2, <1>3 DEF At
<1>14. Range(q2) = Range(q) \cup Range(bs)
  <2>1. \A k \in 1 .. Len(q) : k \in 1 .. Len(q2)
    BY <1>1, <1>2, <1>3
  <2>2. \A k \in 1 .. Len(bs) : Len(q) + k \in 1 .. Len(q2)
    BY <1>1, <1>2, <1>3
  <2>3. Range(q2) \subseteq Range(q) \cup Range(bs)
    <3> SUFFICES ASSUME NEW k \in 1 .. Len(q2) PROVE q2[k] \in Range(q) \cup Range(bs)
      BY <1>7
    <3>1. CASE k \in 1 .. Len(q)
      BY <3>1, <1>7, <1>5
    <3>2. CASE \E m \in 1 .. Len(bs) : k = Len(q) + m
      BY <3>2, <1>7, <1>6
    <3> QED BY <3>1, <3>2, <1>9
  <2>4. Range(q) \subseteq Range(q2)
    BY <2>1, <1>7, <1>5
  <2>5. Range(bs) \subseteq Range(q2)
    <3> SUFFICES ASSUME NEW k \in 1 .. Len(bs) PROVE bs[k] \in Range(q2)
      BY <1>7
    <3> QED BY <2>2, <1>7, <1>6
  <2> QED BY <2>3, <2>4, <2>5
<1> QED BY <1>3, <1>10, <1>11, <1>12, <1>13, <1>14 DEF q2

-----------------------------------------------------------------------------
(* The links after a call                                                  *)

\* What a chained list says of its nodes.
LEMMA ChainFacts ==
  ASSUME TypeOK, NEW q, Chained(q)
  PROVE  /\ q \in Seq(Block) /\ IsInjective(q) /\ Len(q) \in Nat /\ Len(q) <= NumBlocks
         /\ At(q, 0) = FakeHead /\ At(q, Len(q) + 1) = FakeTail
         /\ \A k \in 1 .. Len(q) : At(q, k) = q[k] /\ q[k] \in Block
         /\ \A k \in 0 .. (Len(q) + 1) : At(q, k) \in Node /\ At(q, k) \notin taken
         /\ \A j, k \in 0 .. (Len(q) + 1) : At(q, j) = At(q, k) => j = k
         /\ \A k \in 0 .. Len(q) : nextFree[At(q, k)] = At(q, k + 1) /\ prevFree[At(q, k + 1)] = At(q, k)
         /\ \A x : x \in Block /\ x \notin taken => \E k \in 1 .. Len(q) : x = q[k]
<1>1. /\ q \in Seq(Block) /\ IsInjective(q) /\ Range(q) = Block \ taken
      /\ \A k \in 0 .. Len(q) : nextFree[At(q, k)] = At(q, k + 1) /\ prevFree[At(q, k + 1)] = At(q, k)
  BY DEF Chained
<1>2. /\ Len(q) \in Nat /\ DOMAIN q = 1 .. Len(q)
      /\ At(q, 0) = FakeHead /\ At(q, Len(q) + 1) = FakeTail
      /\ \A k \in 1 .. Len(q) : At(q, k) = q[k] /\ q[k] \in Block
      /\ \A k \in 0 .. (Len(q) + 1) : At(q, k) \in Node
      /\ \A j, k \in 0 .. (Len(q) + 1) : At(q, j) = At(q, k) => j = k
  BY <1>1, AtProperties
<1>3. Len(q) <= NumBlocks
  BY <1>1, ListLength
<1>4. \A x : x \in Range(q) <=> \E k \in 1 .. Len(q) : x = q[k]
  BY <1>2, Zenon DEF Range
<1>5. \A k \in 1 .. Len(q) : At(q, k) \notin taken
  BY <1>1, <1>2, <1>4
<1>6. taken \cap {FakeHead, FakeTail} = {}
  BY Nodes DEF TypeOK
<1> QED BY <1>1, <1>2, <1>3, <1>4, <1>5, <1>6

\* popleft and popleft_n: the first n blocks leave the list.
LEMMA TakeKeepsChain ==
  ASSUME TypeOK, NEW q, Chained(q), NEW n \in 1 .. Len(q), NEW P, P = {q[k] : k \in 1 .. n},
         nextFree' \in [Node -> Node \cup {None}], prevFree' \in [Node -> Node \cup {None}],
         \A x \in Node : nextFree'[x] = IF x \in P THEN None
                                        ELSE IF x = FakeHead THEN At(q, n + 1) ELSE nextFree[x],
         \A x \in Node : prevFree'[x] = IF x = At(q, n + 1) THEN FakeHead
                                        ELSE IF x \in P THEN None ELSE prevFree[x],
         numFree' = numFree - n, taken' = taken \cup P
  PROVE  TypeOK' /\ Chained(WithoutFirst(q, n))'
<1> DEFINE q2 == WithoutFirst(q, n)
           L  == Len(q)
<1>1. /\ q \in Seq(Block) /\ IsInjective(q) /\ L \in Nat /\ L <= NumBlocks
      /\ At(q, 0) = FakeHead /\ At(q, L + 1) = FakeTail
      /\ \A k \in 1 .. L : At(q, k) = q[k] /\ q[k] \in Block
      /\ \A k \in 0 .. (L + 1) : At(q, k) \in Node /\ At(q, k) \notin taken
      /\ \A j, k \in 0 .. (L + 1) : At(q, j) = At(q, k) => j = k
      /\ \A k \in 0 .. L : nextFree[At(q, k)] = At(q, k + 1) /\ prevFree[At(q, k + 1)] = At(q, k)
  BY ChainFacts
<1>2. /\ numFree = L /\ Range(q) = Block \ taken
      /\ nextFree[FakeTail] = None /\ prevFree[FakeHead] = None
      /\ \A b \in taken : nextFree[b] = None /\ prevFree[b] = None
  BY DEF Chained
<1>3. /\ q2 \in Seq(Block) /\ IsInjective(q2) /\ Len(q2) = L - n
      /\ \A k \in 1 .. (L - n + 1) : At(q2, k) = At(q, k + n)
      /\ Range(q2) = Range(q) \ P
  BY <1>1, ListWithoutFirst
<1>4. n \in 1 .. L
  OBVIOUS
<1>5. At(q2, 0) = FakeHead
  BY DEF At
<1>6. \A x : x \in P <=> \E k \in 1 .. n : x = q[k]
  OBVIOUS
<1> HIDE DEF q2, L
<1>7. \A k \in 0 .. (L + 1) : At(q, k) \in P <=> k \in 1 .. n
  <2> TAKE k \in 0 .. (L + 1)
  <2>1. \A j \in 1 .. n : j \in 1 .. L /\ j \in 0 .. (L + 1)
    BY <1>1, <1>4
  <2>2. ASSUME k \in 1 .. n PROVE At(q, k) \in P
    <3>1. At(q, k) = q[k]
      BY <2>1, <2>2, <1>1
    <3> QED BY <2>2, <3>1, <1>6
  <2>3. ASSUME At(q, k) \in P PROVE k \in 1 .. n
    <3>1. PICK j \in 1 .. n : At(q, k) = q[j]
      BY <2>3, <1>6
    <3>2. At(q, k) = At(q, j)
      BY <3>1, <2>1, <1>1
    <3> QED BY <3>2, <2>1, <1>1
  <2> QED BY <2>2, <2>3
<1>8. n + 1 \in 0 .. (L + 1) /\ 0 \in 0 .. (L + 1) /\ L + 1 \in 0 .. (L + 1) /\ n + 1 \notin 1 .. n
      /\ 0 \notin 1 .. n /\ L + 1 \notin 1 .. n /\ n + 1 # 0 /\ L + 1 # 0
  BY <1>1, <1>4
<1>9. P \subseteq Block
  BY <1>1, <1>4, <1>6
<1>10. TypeOK'
  <2>1. numFree' \in 0 .. NumBlocks
    BY <1>1, <1>2, <1>4, NumBlocksAssumption
  <2> QED BY <2>1, <1>9 DEF TypeOK, Node, Block, FakeHead, FakeTail, None
<1>11. Range(q2) = Block \ taken'
  BY <1>2, <1>3
<1>12. numFree' = Len(q2)
  BY <1>2, <1>3
<1>13. ASSUME NEW k \in 0 .. Len(q2)
       PROVE  nextFree'[At(q2, k)] = At(q2, k + 1) /\ prevFree'[At(q2, k + 1)] = At(q2, k)
  <2>1. CASE k = 0
    <3>1. At(q2, 1) = At(q, n + 1)
      <4>1. 1 \in 1 .. (L - n + 1) /\ 1 + n = n + 1
        BY <1>1, <1>4
      <4> QED BY <4>1, <1>3
    <3>2. nextFree'[FakeHead] = At(q, n + 1)
      BY <1>1, <1>7, <1>8, Nodes
    <3>3. prevFree'[At(q, n + 1)] = FakeHead
      BY <1>1, <1>8
    <3> QED BY <2>1, <3>1, <3>2, <3>3, <1>5
  <2>2. CASE k # 0
    <3>1. /\ k \in 1 .. (L - n + 1) /\ k + 1 \in 1 .. (L - n + 1)
          /\ k + n \in 0 .. L /\ k + n \in 0 .. (L + 1) /\ (k + n) + 1 \in 0 .. (L + 1)
          /\ (k + 1) + n = (k + n) + 1
          /\ k + n \notin 1 .. n /\ k + n # 0 /\ (k + n) + 1 \notin 1 .. n /\ (k + n) + 1 # n + 1
      <4>1. k \in 0 .. (L - n) /\ L \in Nat
        BY <1>1, <1>3
      <4> QED BY <4>1, <2>2, <1>4
    <3>2. At(q2, k) = At(q, k + n) /\ At(q2, k + 1) = At(q, (k + n) + 1)
      BY <3>1, <1>3
    <3>3. At(q, k + n) \notin P /\ At(q, k + n) # FakeHead /\ At(q, k + n) \in Node
      BY <3>1, <1>1, <1>7, <1>8
    <3>4. nextFree'[At(q, k + n)] = At(q, (k + n) + 1)
      <4>1. nextFree'[At(q, k + n)] = nextFree[At(q, k + n)]
        BY <3>3
      <4> QED BY <4>1, <3>1, <1>1
    <3>5. /\ At(q, (k + n) + 1) \notin P /\ At(q, (k + n) + 1) # At(q, n + 1)
          /\ At(q, (k + n) + 1) \in Node
      BY <3>1, <1>1, <1>7, <1>8
    <3>6. prevFree'[At(q, (k + n) + 1)] = At(q, k + n)
      <4>1. prevFree'[At(q, (k + n) + 1)] = prevFree[At(q, (k + n) + 1)]
        BY <3>5
      <4> QED BY <4>1, <3>1, <1>1
    <3> QED BY <3>2, <3>4, <3>6
  <2> QED BY <2>1, <2>2
<1>14. nextFree'[FakeTail] = None
  BY <1>1, <1>2, <1>7, <1>8, Nodes
<1>15. prevFree'[FakeHead] = None
  BY <1>1, <1>2, <1>7, <1>8, Nodes
<1>16. ASSUME NEW b \in taken' PROVE nextFree'[b] = None /\ prevFree'[b] = None
  <2>1. CASE b \in P
    <3>1. b # At(q, n + 1) /\ b \in Node
      BY <2>1, <1>7, <1>8, <1>9, Nodes
    <3> QED BY <2>1, <3>1
  <2>2. CASE b \notin P
    <3>1. b \in taken /\ b \in Node /\ b # FakeHead
      BY <2>2, Nodes DEF TypeOK
    <3>2. b # At(q, n + 1)
      BY <3>1, <1>1, <1>8
    <3> QED BY <2>2, <3>1, <3>2, <1>2
  <2> QED BY <2>1, <2>2
<1>17. Chained(q2)'
  BY <1>3, <1>11, <1>12, <1>13, <1>14, <1>15, <1>16 DEF Chained
<1> QED BY <1>10, <1>17 DEF q2

\* remove: the block at i leaves the list.
LEMMA RemoveKeepsChain ==
  ASSUME TypeOK, NEW q, Chained(q), NEW i \in 1 .. Len(q),
         nextFree' \in [Node -> Node \cup {None}], prevFree' \in [Node -> Node \cup {None}],
         \A x \in Node : nextFree'[x] = IF x = q[i] THEN None
                                        ELSE IF x = At(q, i - 1) THEN At(q, i + 1) ELSE nextFree[x],
         \A x \in Node : prevFree'[x] = IF x = q[i] THEN None
                                        ELSE IF x = At(q, i + 1) THEN At(q, i - 1) ELSE prevFree[x],
         numFree' = numFree - 1, taken' = taken \cup {q[i]}
  PROVE  TypeOK' /\ Chained(Without(q, i))'
<1> DEFINE q2 == Without(q, i)
           L  == Len(q)
<1>1. /\ q \in Seq(Block) /\ IsInjective(q) /\ L \in Nat /\ L <= NumBlocks
      /\ At(q, 0) = FakeHead /\ At(q, L + 1) = FakeTail
      /\ \A k \in 1 .. L : At(q, k) = q[k] /\ q[k] \in Block
      /\ \A k \in 0 .. (L + 1) : At(q, k) \in Node /\ At(q, k) \notin taken
      /\ \A j, k \in 0 .. (L + 1) : At(q, j) = At(q, k) => j = k
      /\ \A k \in 0 .. L : nextFree[At(q, k)] = At(q, k + 1) /\ prevFree[At(q, k + 1)] = At(q, k)
  BY ChainFacts
<1>2. /\ numFree = L /\ Range(q) = Block \ taken
      /\ nextFree[FakeTail] = None /\ prevFree[FakeHead] = None
      /\ \A b \in taken : nextFree[b] = None /\ prevFree[b] = None
  BY DEF Chained
<1>3. /\ q2 \in Seq(Block) /\ IsInjective(q2) /\ Len(q2) = L - 1
      /\ \A k \in 0 .. L : At(q2, k) = IF k < i THEN At(q, k) ELSE At(q, k + 1)
      /\ Range(q2) = Range(q) \ {q[i]}
  BY <1>1, ListWithout
<1>4. i \in 1 .. L
  OBVIOUS
<1> HIDE DEF q2, L
<1>5. /\ i - 1 \in 0 .. L /\ i - 1 \in 0 .. (L + 1) /\ i \in 0 .. L /\ i \in 0 .. (L + 1)
      /\ i + 1 \in 0 .. (L + 1) /\ 0 \in 0 .. (L + 1) /\ L + 1 \in 0 .. (L + 1)
      /\ i - 1 # i /\ i + 1 # i /\ i - 1 # L + 1 /\ i + 1 # 0 /\ i # 0 /\ i # L + 1
  BY <1>1, <1>4
<1>6. /\ \A x \in Node : nextFree'[x] = IF x = At(q, i) THEN None
                                       ELSE IF x = At(q, i - 1) THEN At(q, i + 1) ELSE nextFree[x]
      /\ \A x \in Node : prevFree'[x] = IF x = At(q, i) THEN None
                                       ELSE IF x = At(q, i + 1) THEN At(q, i - 1) ELSE prevFree[x]
      /\ taken' = taken \cup {At(q, i)} /\ Range(q2) = Range(q) \ {At(q, i)} /\ At(q, i) \in Block
  BY <1>1, <1>3, <1>4
<1>7. TypeOK'
  <2>1. numFree' \in 0 .. NumBlocks
    BY <1>1, <1>2, <1>4, NumBlocksAssumption
  <2> QED BY <2>1, <1>6 DEF TypeOK
<1>8. Range(q2) = Block \ taken'
  BY <1>2, <1>6
<1>9. numFree' = Len(q2)
  BY <1>2, <1>3
<1>10. ASSUME NEW k \in 0 .. Len(q2)
       PROVE  nextFree'[At(q2, k)] = At(q2, k + 1) /\ prevFree'[At(q2, k + 1)] = At(q2, k)
  <2>1. k \in 0 .. (L - 1)
    BY <1>3
  <2>2. k \in 0 .. L /\ k + 1 \in 0 .. L /\ k \in 0 .. (L + 1) /\ k + 1 \in 0 .. (L + 1)
        /\ k \in Int /\ (k + 1) + 1 \in 0 .. (L + 1)
    BY <2>1, <1>1
  <2>3. CASE k + 1 < i
    <3>1. k < i /\ k # i /\ k # i - 1 /\ k + 1 # i /\ k + 1 # i + 1
      BY <2>2, <2>3, <1>4
    <3>2. At(q2, k) = At(q, k) /\ At(q2, k + 1) = At(q, k + 1)
      BY <2>2, <2>3, <3>1, <1>3
    <3>3. At(q, k) \in Node /\ At(q, k) # At(q, i) /\ At(q, k) # At(q, i - 1)
      BY <2>2, <3>1, <1>1, <1>5
    <3>4. At(q, k + 1) \in Node /\ At(q, k + 1) # At(q, i) /\ At(q, k + 1) # At(q, i + 1)
      BY <2>2, <3>1, <1>1, <1>5
    <3>5. nextFree'[At(q, k)] = nextFree[At(q, k)] /\ prevFree'[At(q, k + 1)] = prevFree[At(q, k + 1)]
      BY <3>3, <3>4, <1>6
    <3> QED BY <2>2, <3>2, <3>5, <1>1
  <2>4. CASE k + 1 = i
    <3>1. k < i /\ ~(k + 1 < i) /\ k = i - 1 /\ (k + 1) + 1 = i + 1
      BY <2>2, <2>4, <1>4
    <3>2. At(q2, k) = At(q, i - 1) /\ At(q2, k + 1) = At(q, i + 1)
      BY <2>2, <3>1, <1>3
    <3>3. /\ At(q, i - 1) \in Node /\ At(q, i - 1) # At(q, i)
          /\ At(q, i + 1) \in Node /\ At(q, i + 1) # At(q, i)
      BY <1>1, <1>5
    <3> QED BY <3>2, <3>3, <1>6
  <2>5. CASE k + 1 > i
    <3>1. ~(k < i) /\ ~(k + 1 < i) /\ k + 1 # i /\ k + 1 # i - 1 /\ (k + 1) + 1 # i /\ (k + 1) + 1 # i + 1
      BY <2>2, <2>5, <1>4
    <3>2. At(q2, k) = At(q, k + 1) /\ At(q2, k + 1) = At(q, (k + 1) + 1)
      BY <2>2, <3>1, <1>3
    <3>3. At(q, k + 1) \in Node /\ At(q, k + 1) # At(q, i) /\ At(q, k + 1) # At(q, i - 1)
      BY <2>2, <3>1, <1>1, <1>5
    <3>4. /\ At(q, (k + 1) + 1) \in Node /\ At(q, (k + 1) + 1) # At(q, i)
          /\ At(q, (k + 1) + 1) # At(q, i + 1)
      BY <2>2, <3>1, <1>1, <1>5
    <3>5. /\ nextFree'[At(q, k + 1)] = nextFree[At(q, k + 1)]
          /\ prevFree'[At(q, (k + 1) + 1)] = prevFree[At(q, (k + 1) + 1)]
      BY <3>3, <3>4, <1>6
    <3> QED BY <2>2, <3>2, <3>5, <1>1
  <2> QED BY <2>2, <2>3, <2>4, <2>5, <1>4
<1>11. nextFree'[FakeTail] = None /\ prevFree'[FakeHead] = None
  <2>1. FakeTail # At(q, i) /\ FakeTail # At(q, i - 1) /\ FakeHead # At(q, i) /\ FakeHead # At(q, i + 1)
    BY <1>1, <1>5
  <2> QED BY <2>1, <1>2, <1>6, Nodes
<1>12. ASSUME NEW b \in taken' PROVE nextFree'[b] = None /\ prevFree'[b] = None
  <2>1. CASE b = At(q, i)
    BY <2>1, <1>1, <1>5, <1>6
  <2>2. CASE b # At(q, i)
    <3>1. b \in taken /\ b \in Node
      BY <2>2, <1>6, Nodes DEF TypeOK
    <3>2. b # At(q, i - 1) /\ b # At(q, i + 1)
      BY <3>1, <1>1, <1>5
    <3> QED BY <2>2, <3>1, <3>2, <1>2, <1>6
  <2> QED BY <2>1, <2>2
<1>13. Chained(q2)'
  BY <1>3, <1>8, <1>9, <1>10, <1>11, <1>12 DEF Chained
<1> QED BY <1>7, <1>13 DEF q2

\* append and append_n: the blocks bs, which were taken, are linked behind the list.
LEMMA PutKeepsChain ==
  ASSUME TypeOK, NEW q, Chained(q), NEW bs \in Seq(taken), IsInjective(bs), NEW M, M = Len(bs), M > 0,
         nextFree' \in [Node -> Node \cup {None}], prevFree' \in [Node -> Node \cup {None}],
         \A m \in 1 .. M : /\ nextFree'[bs[m]] = IF m = M THEN FakeTail ELSE bs[m + 1]
                           /\ prevFree'[bs[m]] = IF m = 1 THEN At(q, Len(q)) ELSE bs[m - 1],
         \A x \in Node \ Range(bs) :
           /\ nextFree'[x] = IF x = At(q, Len(q)) THEN bs[1] ELSE nextFree[x]
           /\ prevFree'[x] = IF x = FakeTail THEN bs[M] ELSE prevFree[x],
         numFree' = numFree + M, taken' = taken \ Range(bs)
  PROVE  TypeOK' /\ Chained(q \o bs)'
<1> DEFINE q2 == q \o bs
           L  == Len(q)
<1>1. /\ q \in Seq(Block) /\ IsInjective(q) /\ L \in Nat /\ L <= NumBlocks
      /\ At(q, 0) = FakeHead /\ At(q, L + 1) = FakeTail
      /\ \A k \in 1 .. L : At(q, k) = q[k] /\ q[k] \in Block
      /\ \A k \in 0 .. (L + 1) : At(q, k) \in Node /\ At(q, k) \notin taken
      /\ \A j, k \in 0 .. (L + 1) : At(q, j) = At(q, k) => j = k
      /\ \A k \in 0 .. L : nextFree[At(q, k)] = At(q, k + 1) /\ prevFree[At(q, k + 1)] = At(q, k)
  BY ChainFacts
<1>2. /\ numFree = L /\ Range(q) = Block \ taken
      /\ nextFree[FakeTail] = None /\ prevFree[FakeHead] = None
      /\ \A b \in taken : nextFree[b] = None /\ prevFree[b] = None
  BY DEF Chained
<1>3. taken \subseteq Block
  BY DEF TypeOK
<1>4. bs \in Seq(Block) /\ M \in Nat /\ DOMAIN bs = 1 .. M /\ \A m \in 1 .. M : bs[m] \in taken
  BY <1>3, SeqMonotonic, LenProperties, ElementOfSeq
<1>5. Range(bs) \subseteq taken /\ \A m \in 1 .. M : bs[m] \in Range(bs)
  <2>1. Range(bs) = {bs[m] : m \in DOMAIN bs}
    BY DEF Range
  <2>2. DOMAIN bs = 1 .. M /\ \A m \in 1 .. M : bs[m] \in taken
    BY <1>4
  <2>3. ASSUME NEW x \in Range(bs) PROVE x \in taken
    <3>1. PICK m \in DOMAIN bs : x = bs[m]
      BY <2>1
    <3> QED BY <3>1, <2>2
  <2>4. ASSUME NEW m \in 1 .. M PROVE bs[m] \in Range(bs)
    BY <2>1, <2>2
  <2> QED BY <2>3, <2>4
<1>6. /\ q2 \in Seq(Block) /\ IsInjective(q2) /\ Len(q2) = L + M
      /\ \A k \in 0 .. L : At(q2, k) = At(q, k)
      /\ \A k \in 1 .. M : At(q2, L + k) = bs[k]
      /\ At(q2, L + M + 1) = FakeTail
      /\ Range(q2) = Range(q) \cup Range(bs)
  BY <1>1, <1>2, <1>4, <1>5, ListWith
<1>7. /\ \A x \in Node \ Range(bs) :
           /\ nextFree'[x] = IF x = At(q, L) THEN bs[1] ELSE nextFree[x]
           /\ prevFree'[x] = IF x = FakeTail THEN bs[M] ELSE prevFree[x]
      /\ \A m \in 1 .. M : /\ nextFree'[bs[m]] = IF m = M THEN FakeTail ELSE bs[m + 1]
                           /\ prevFree'[bs[m]] = IF m = 1 THEN At(q, L) ELSE bs[m - 1]
  OBVIOUS
<1>8. Len(q2) <= NumBlocks
  BY <1>6, ListLength
<1> HIDE DEF q2, L
<1>9. /\ 1 \in 1 .. M /\ M \in 1 .. M /\ L \in 0 .. L /\ L \in 0 .. (L + 1) /\ L + 1 \in 0 .. (L + 1)
      /\ 0 \in 0 .. (L + 1)
  BY <1>1, <1>4
<1>10. TypeOK'
  <2>1. numFree' \in 0 .. NumBlocks
    BY <1>1, <1>2, <1>4, <1>6, <1>8, NumBlocksAssumption
  <2> QED BY <2>1, <1>3 DEF TypeOK
<1>11. Range(q2) = Block \ taken'
  BY <1>2, <1>3, <1>5, <1>6
<1>12. numFree' = Len(q2)
  BY <1>2, <1>6
<1>13. \A k \in 0 .. (L + 1) : At(q, k) \in Node \ Range(bs)
  BY <1>1, <1>5
<1>14. ASSUME NEW k \in 0 .. Len(q2)
       PROVE  nextFree'[At(q2, k)] = At(q2, k + 1) /\ prevFree'[At(q2, k + 1)] = At(q2, k)
  <2>1. k \in 0 .. (L + M) /\ k \in Int
    BY <1>6
  <2>2. CASE k < L
    <3>1. k \in 0 .. L /\ k + 1 \in 0 .. L /\ k \in 0 .. (L + 1) /\ k + 1 \in 0 .. (L + 1)
          /\ k # L /\ k + 1 # L + 1
      BY <2>1, <2>2, <1>1
    <3>2. At(q2, k) = At(q, k) /\ At(q2, k + 1) = At(q, k + 1)
      BY <3>1, <1>6
    <3>3. At(q, k) # At(q, L) /\ At(q, k + 1) # FakeTail
      BY <3>1, <1>1, <1>9
    <3>4. nextFree'[At(q, k)] = nextFree[At(q, k)] /\ prevFree'[At(q, k + 1)] = prevFree[At(q, k + 1)]
      BY <3>1, <3>3, <1>7, <1>13
    <3> QED BY <3>1, <3>2, <3>4, <1>1
  <2>3. CASE k = L
    <3>1. At(q2, k) = At(q, L) /\ At(q2, k + 1) = bs[1]
      BY <2>3, <1>6, <1>9
    <3>2. nextFree'[At(q, L)] = bs[1] /\ prevFree'[bs[1]] = At(q, L)
      BY <1>7, <1>9, <1>13
    <3> QED BY <3>1, <3>2
  <2>4. CASE k > L /\ k < L + M
    <3> DEFINE m == k - L
    <3>1. m \in 1 .. M /\ m + 1 \in 1 .. M /\ m # M /\ m + 1 # 1 /\ (m + 1) - 1 = m
          /\ k = L + m /\ k + 1 = L + (m + 1)
      BY <2>1, <2>4, <1>1, <1>4
    <3> HIDE DEF m
    <3>2. At(q2, k) = bs[m] /\ At(q2, k + 1) = bs[m + 1]
      BY <3>1, <1>6
    <3>3. nextFree'[bs[m]] = bs[m + 1]
      BY <3>1, <1>7
    <3>4. prevFree'[bs[m + 1]] = bs[m]
      BY <3>1, <1>7
    <3> QED BY <3>2, <3>3, <3>4
  <2>5. CASE k = L + M
    <3>1. At(q2, k) = bs[M] /\ At(q2, k + 1) = FakeTail
      BY <2>5, <1>6, <1>9
    <3>2. FakeTail \in Node \ Range(bs)
      BY <1>1, <1>9, <1>13
    <3> QED BY <3>1, <3>2, <1>7, <1>9
  <2> QED BY <2>1, <2>2, <2>3, <2>4, <2>5, <1>1, <1>4
<1>15. nextFree'[FakeTail] = None /\ prevFree'[FakeHead] = None
  <2>1. FakeTail \in Node \ Range(bs) /\ FakeHead \in Node \ Range(bs)
    BY <1>1, <1>9, <1>13
  <2>2. FakeTail # At(q, L)
    BY <1>1, <1>9
  <2> QED BY <2>1, <2>2, <1>2, <1>7, Nodes
<1>16. ASSUME NEW b \in taken' PROVE nextFree'[b] = None /\ prevFree'[b] = None
  <2>1. b \in taken /\ b \in Node \ Range(bs) /\ b # FakeTail
    BY <1>3, Nodes
  <2>2. b # At(q, L)
    BY <2>1, <1>1, <1>9
  <2> QED BY <2>1, <2>2, <1>2, <1>7
<1>17. Chained(q2)'
  BY <1>6, <1>11, <1>12, <1>14, <1>15, <1>16 DEF Chained
<1> QED BY <1>10, <1>17 DEF q2

-----------------------------------------------------------------------------
(* The methods                                                             *)

\* The blocks that can be given to append_n at once.
LEMMA InjectionsProperties ==
  ASSUME NEW S \in SUBSET Block
  PROVE  /\ \A bs \in Injections(S) : bs \in Seq(S) /\ IsInjective(bs)
         /\ \A b \in S : <<b>> \in Injections(S)
<1>1. IsFiniteSet(S) /\ Cardinality(S) \in Nat
  <2>1. << >> \in Seq(S) /\ IsInjective(<< >>)
    BY EmptySeq DEF IsInjective
  <2> QED BY <2>1, ListLength
<1>2. ASSUME NEW bs \in Injections(S) PROVE bs \in Seq(S) /\ IsInjective(bs)
  <2>1. PICK n \in 0 .. Cardinality(S) : bs \in [1 .. n -> S]
    BY DEF Injections
  <2>2. n \in Nat
    BY <1>1
  <2>3. bs \in Seq(S)
    BY <2>1, <2>2, SeqDef
  <2> QED BY <2>3 DEF Injections
<1>3. ASSUME NEW b \in S PROVE <<b>> \in Injections(S)
  <2>1. <<b>> \in [1 .. 1 -> S] /\ IsInjective(<<b>>)
    BY DEF IsInjective
  <2>2. Cardinality(S) # 0
    BY <1>1, FS_EmptySet
  <2>3. 1 \in 0 .. Cardinality(S)
    BY <1>1, <2>2
  <2> QED BY <2>1, <2>3 DEF Injections
<1> QED BY <1>2, <1>3

\* The blocks that popleft_n returns, as a sequence.
LEMMA FrontOfList ==
  ASSUME NEW q \in Seq(Block), NEW n \in 1 .. Len(q)
  PROVE  SubSeq(q, 1, n) = [i \in 1 .. n |-> q[i]]
<1>1. 1 \in Int /\ n \in Int /\ \A k \in 1 .. n : q[k] \in Block
  BY LenProperties, ElementOfSeq
<1>2. /\ SubSeq(q, 1, n) \in Seq(Block) /\ Len(SubSeq(q, 1, n)) = IF 1 <= n THEN n - 1 + 1 ELSE 0
      /\ \A k \in 1 .. n - 1 + 1 : SubSeq(q, 1, n)[k] = q[1 + k - 1]
  BY <1>1, SubSeqProperties
<1> DEFINE s == SubSeq(q, 1, n)
<1>3. DOMAIN s = 1 .. Len(s) /\ s \in [1 .. Len(s) -> Block]
  BY <1>2, LenProperties
<1> HIDE DEF s
<1>4. Len(s) = n
  BY <1>2 DEF s
<1>5. \A k \in 1 .. n : s[k] = q[k]
  <2> TAKE k \in 1 .. n
  <2>1. k \in 1 .. n - 1 + 1 /\ 1 + k - 1 = k
    OBVIOUS
  <2> QED BY <2>1, <1>2 DEF s
<1>6. s = [i \in 1 .. n |-> s[i]]
  BY <1>3, <1>4
<1> QED BY <1>5, <1>6 DEF s

\* popleft: it takes the first block of the list.
LEMMA PopLeftStep ==
  ASSUME TypeOK, NEW q, Chained(q), PopLeft
  PROVE  /\ 1 \in 1 .. Len(q)
         /\ TypeOK' /\ Chained(WithoutFirst(q, 1))'
         /\ call' = Call("take", SubSeq(q, 1, 1))
<1> DEFINE L == Len(q)
<1>1. /\ q \in Seq(Block) /\ L \in Nat
      /\ At(q, 0) = FakeHead /\ At(q, L + 1) = FakeTail
      /\ \A k \in 1 .. L : At(q, k) = q[k] /\ q[k] \in Block
      /\ \A k \in 0 .. (L + 1) : At(q, k) \in Node /\ At(q, k) \notin taken
      /\ \A j, k \in 0 .. (L + 1) : At(q, j) = At(q, k) => j = k
      /\ \A k \in 0 .. L : nextFree[At(q, k)] = At(q, k + 1) /\ prevFree[At(q, k + 1)] = At(q, k)
  BY ChainFacts
<1>2. nextFree[FakeHead] = At(q, 1)
  BY <1>1
<1>3. L # 0
  BY <1>1, <1>2 DEF PopLeft
<1>4. 1 \in 1 .. L /\ nextFree[FakeHead] = q[1] /\ nextFree[q[1]] = At(q, 2) /\ q[1] = At(q, 1)
      /\ 1 \in 0 .. (L + 1) /\ 2 \in 0 .. (L + 1) /\ 0 \in 0 .. (L + 1)
  BY <1>1, <1>2, <1>3
<1>5. q[1] \in Node /\ At(q, 2) \in Node /\ FakeHead \in Node
      /\ q[1] # FakeHead /\ q[1] # At(q, 2) /\ At(q, 2) # FakeHead
  BY <1>1, <1>4
<1>6. /\ nextFree' = [nextFree EXCEPT ![FakeHead] = At(q, 2), ![q[1]] = None]
      /\ prevFree' = [prevFree EXCEPT ![At(q, 2)] = FakeHead, ![q[1]] = None]
      /\ numFree' = numFree - 1
      /\ taken' = taken \cup {q[1]}
      /\ call' = Call("take", <<q[1]>>)
  BY <1>4, Zenon DEF PopLeft
<1> DEFINE P == {q[k] : k \in 1 .. 1}
<1>7. P = {q[1]}
  OBVIOUS
<1> HIDE DEF P
<1>8. /\ nextFree \in [Node -> Node \cup {None}] /\ prevFree \in [Node -> Node \cup {None}]
  BY DEF TypeOK
<1>9. /\ nextFree' \in [Node -> Node \cup {None}]
      /\ \A x \in Node : nextFree'[x] = IF x \in P THEN None
                                        ELSE IF x = FakeHead THEN At(q, 2) ELSE nextFree[x]
  BY <1>5, <1>6, <1>7, <1>8
<1>10. /\ prevFree' \in [Node -> Node \cup {None}]
       /\ \A x \in Node : prevFree'[x] = IF x = At(q, 2) THEN FakeHead
                                         ELSE IF x \in P THEN None ELSE prevFree[x]
  BY <1>5, <1>6, <1>7, <1>8
<1>11. TypeOK' /\ Chained(WithoutFirst(q, 1))'
  <2>1. 1 + 1 = 2
    OBVIOUS
  <2>2. P = {q[k] : k \in 1 .. 1} /\ 1 \in 1 .. Len(q) /\ taken' = taken \cup P
    BY <1>4, <1>6, <1>7 DEF P
  <2>3. /\ \A x \in Node : nextFree'[x] = IF x \in P THEN None
                                         ELSE IF x = FakeHead THEN At(q, 1 + 1) ELSE nextFree[x]
        /\ \A x \in Node : prevFree'[x] = IF x = At(q, 1 + 1) THEN FakeHead
                                         ELSE IF x \in P THEN None ELSE prevFree[x]
    BY <2>1, <1>9, <1>10, Zenon
  <2>4. nextFree' \in [Node -> Node \cup {None}] /\ prevFree' \in [Node -> Node \cup {None}]
        /\ numFree' = numFree - 1
    BY <1>6, <1>9, <1>10
  <2> HIDE DEF L
  <2> QED BY <2>2, <2>3, <2>4, TakeKeepsChain, Zenon
<1>12. SubSeq(q, 1, 1) = <<q[1]>>
  <2>1. SubSeq(q, 1, 1) = [i \in 1 .. 1 |-> q[i]]
    BY <1>1, <1>4, FrontOfList DEF L
  <2>2. \A i \in 1 .. 1 : q[i] = <<q[1]>>[i]
    OBVIOUS
  <2>3. <<q[1]>> = [i \in 1 .. 1 |-> <<q[1]>>[i]]
    OBVIOUS
  <2> QED BY <2>1, <2>2, <2>3
<1> QED BY <1>4, <1>6, <1>11, <1>12

\* popleft_n: it takes the first n blocks of the list.
LEMMA PopLeftNStep ==
  ASSUME TypeOK, NEW q, Chained(q), NEW n \in 1 .. NumBlocks, PopLeftN(n)
  PROVE  /\ n \in 1 .. Len(q)
         /\ TypeOK' /\ Chained(WithoutFirst(q, n))'
         /\ call' = Call("take", SubSeq(q, 1, n))
<1> DEFINE L == Len(q)
           P == {q[k] : k \in 1 .. n}
<1>1. /\ q \in Seq(Block) /\ L \in Nat /\ L <= NumBlocks /\ NumBlocks \in Nat
      /\ At(q, 0) = FakeHead /\ At(q, L + 1) = FakeTail
      /\ \A k \in 1 .. L : At(q, k) = q[k] /\ q[k] \in Block
      /\ \A k \in 0 .. (L + 1) : At(q, k) \in Node
  BY ChainFacts, NumBlocksAssumption
<1>2. n \in 1 .. L
  BY <1>1 DEF PopLeftN, Chained
<1>3. \A k \in 0 .. NumBlocks : Walk[k] = IF k <= L THEN At(q, k + 1) ELSE None
  BY WalkIsChain
<1> HIDE DEF L
<1>4. \A k \in 1 .. n : Walk[k - 1] = q[k]
  <2> TAKE k \in 1 .. n
  <2>1. k - 1 \in 0 .. NumBlocks /\ k - 1 <= L /\ (k - 1) + 1 = k /\ k \in 1 .. L
    BY <1>1, <1>2
  <2> QED BY <2>1, <1>1, <1>3
<1>5. {Walk[k] : k \in 0 .. (n - 1)} = P
  <2>1. \A k \in 0 .. (n - 1) : k + 1 \in 1 .. n /\ (k + 1) - 1 = k
    BY <1>1
  <2>2. \A k \in 1 .. n : k - 1 \in 0 .. (n - 1)
    BY <1>1
  <2>3. \A k \in 0 .. (n - 1) : Walk[k] = q[k + 1]
    BY <2>1, <1>4
  <2> QED BY <2>1, <2>2, <2>3, <1>4
<1>6. Walk[n] = At(q, n + 1) /\ At(q, n + 1) \in Node
  BY <1>1, <1>2, <1>3
<1> HIDE DEF P
<1>7. /\ nextFree' = [x \in Node |-> IF x \in P THEN None
                                     ELSE IF x = FakeHead /\ At(q, n + 1) # None THEN At(q, n + 1)
                                     ELSE nextFree[x]]
      /\ prevFree' = [x \in Node |-> IF x = At(q, n + 1) THEN FakeHead
                                     ELSE IF x \in P THEN None ELSE prevFree[x]]
      /\ numFree' = numFree - n
      /\ taken' = taken \cup P
      /\ call' = Call("take", [i \in 1 .. n |-> Walk[i - 1]])
  BY <1>5, <1>6, Zenon DEF PopLeftN
<1>8. At(q, n + 1) # None
  BY <1>6, Nodes
<1>9. nextFree \in [Node -> Node \cup {None}] /\ prevFree \in [Node -> Node \cup {None}]
  BY DEF TypeOK
<1>10. /\ nextFree' \in [Node -> Node \cup {None}]
       /\ \A x \in Node : nextFree'[x] = IF x \in P THEN None
                                         ELSE IF x = FakeHead THEN At(q, n + 1) ELSE nextFree[x]
  BY <1>6, <1>7, <1>8, <1>9
<1>11. /\ prevFree' \in [Node -> Node \cup {None}]
       /\ \A x \in Node : prevFree'[x] = IF x = At(q, n + 1) THEN FakeHead
                                         ELSE IF x \in P THEN None ELSE prevFree[x]
  BY <1>7, <1>9, Nodes
<1>12. TypeOK' /\ Chained(WithoutFirst(q, n))'
  BY <1>2, <1>7, <1>10, <1>11, TakeKeepsChain DEF P, L
<1>13. SubSeq(q, 1, n) = [i \in 1 .. n |-> q[i]]
  BY <1>1, <1>2, FrontOfList DEF L
<1>14. [i \in 1 .. n |-> Walk[i - 1]] = [i \in 1 .. n |-> q[i]]
  BY <1>4
<1> QED BY <1>2, <1>7, <1>12, <1>13, <1>14 DEF L

\* remove: it takes a block that is free out of the list, wherever it is.
LEMMA RemoveStep ==
  ASSUME TypeOK, NEW q, Chained(q), NEW b \in Block, Remove(b)
  PROVE  \E i \in 1 .. Len(q) : /\ q[i] = b
                                /\ TypeOK' /\ Chained(Without(q, i))'
                                /\ call' = Call("remove", <<b>>)
<1> DEFINE L == Len(q)
<1>1. /\ q \in Seq(Block) /\ L \in Nat
      /\ \A k \in 1 .. L : At(q, k) = q[k] /\ q[k] \in Block
      /\ \A k \in 0 .. (L + 1) : At(q, k) \in Node
      /\ \A j, k \in 0 .. (L + 1) : At(q, j) = At(q, k) => j = k
      /\ \A k \in 0 .. L : nextFree[At(q, k)] = At(q, k + 1) /\ prevFree[At(q, k + 1)] = At(q, k)
      /\ \A x : x \in Block /\ x \notin taken => \E k \in 1 .. L : x = q[k]
  BY ChainFacts
<1>2. PICK i \in 1 .. L : b = q[i]
  BY <1>1 DEF Remove
<1> HIDE DEF L
<1>3. /\ i \in 0 .. L /\ i - 1 \in 0 .. L /\ (i - 1) + 1 = i
      /\ i \in 0 .. (L + 1) /\ i - 1 \in 0 .. (L + 1) /\ i + 1 \in 0 .. (L + 1)
      /\ i - 1 # i /\ i + 1 # i
  BY <1>1
<1>4. /\ nextFree[b] = At(q, i + 1) /\ prevFree[b] = At(q, i - 1) /\ b = At(q, i)
      /\ At(q, i + 1) # b /\ At(q, i - 1) # b
      /\ At(q, i + 1) \in Node /\ At(q, i - 1) \in Node /\ b \in Node
  BY <1>1, <1>2, <1>3
<1>5. /\ nextFree' = [nextFree EXCEPT ![At(q, i - 1)] = At(q, i + 1), ![b] = None]
      /\ prevFree' = [prevFree EXCEPT ![At(q, i + 1)] = At(q, i - 1), ![b] = None]
      /\ numFree' = numFree - 1
      /\ taken' = taken \cup {b}
      /\ call' = Call("remove", <<b>>)
  BY <1>4, Zenon DEF Remove
<1>6. nextFree \in [Node -> Node \cup {None}] /\ prevFree \in [Node -> Node \cup {None}]
  BY DEF TypeOK
<1>7. /\ nextFree' \in [Node -> Node \cup {None}]
      /\ \A x \in Node : nextFree'[x] = IF x = b THEN None
                                        ELSE IF x = At(q, i - 1) THEN At(q, i + 1) ELSE nextFree[x]
  BY <1>4, <1>5, <1>6
<1>8. /\ prevFree' \in [Node -> Node \cup {None}]
      /\ \A x \in Node : prevFree'[x] = IF x = b THEN None
                                        ELSE IF x = At(q, i + 1) THEN At(q, i - 1) ELSE prevFree[x]
  BY <1>4, <1>5, <1>6
<1>9. TypeOK' /\ Chained(Without(q, i))'
  BY <1>2, <1>5, <1>7, <1>8, RemoveKeepsChain DEF L
<1> QED BY <1>2, <1>5, <1>9 DEF L

\* append_n: it puts the blocks given behind the list, in their order.
LEMMA AppendNStep ==
  ASSUME TypeOK, NEW q, Chained(q), NEW bs \in Injections(taken), AppendN(bs)
  PROVE  TypeOK' /\ Chained(q \o bs)' /\ call' = Call("put", bs)
<1> DEFINE L == Len(q)
           M == Len(bs)
<1>1. taken \subseteq Block /\ nextFree \in [Node -> Node \cup {None}] /\ prevFree \in [Node -> Node \cup {None}]
  BY DEF TypeOK
<1>2. bs \in Seq(taken) /\ IsInjective(bs)
  BY <1>1, InjectionsProperties
<1>3. M \in Nat /\ M > 0 /\ DOMAIN bs = 1 .. M
      /\ \A m \in 1 .. M : bs[m] \in taken /\ bs[m] \in Node
  <2>1. M \in Nat /\ DOMAIN bs = 1 .. M /\ \A m \in 1 .. M : bs[m] \in taken
    BY <1>2, LenProperties, ElementOfSeq
  <2>2. bs # << >>
    BY DEF AppendN
  <2>3. M \in Nat \ {0}
    BY <2>2, <1>2, EmptySeq
  <2> HIDE DEF M
  <2> QED BY <2>1, <2>3, <1>1, Nodes
<1>4. /\ L \in Nat /\ At(q, L + 1) = FakeTail
      /\ \A k \in 0 .. L : prevFree[At(q, k + 1)] = At(q, k)
      /\ \A k \in 0 .. (L + 1) : At(q, k) \in Node
  BY ChainFacts
<1>5. prevFree[FakeTail] = At(q, L) /\ At(q, L) \in Node
  BY <1>4
<1>6. \A m \in 1 .. M : bs[m] \in Range(bs) /\ Position(bs, bs[m]) = m
  <2> TAKE m \in 1 .. M
  <2>1. m \in DOMAIN bs /\ \A i \in DOMAIN bs : bs[i] = bs[m] => i = m
    BY <1>2, <1>3 DEF IsInjective
  <2>2. (CHOOSE i \in DOMAIN bs : bs[i] = bs[m]) = m
    BY <2>1
  <2> QED BY <2>1, <2>2, Zenon DEF Position, Range
<1>7. Len(bs) = M
  OBVIOUS
<1> HIDE DEF L, M
<1>8. /\ nextFree' = [x \in Node |->
           IF x \in Range(bs)
             THEN IF Position(bs, x) = M THEN FakeTail ELSE bs[Position(bs, x) + 1]
             ELSE IF x = At(q, L) THEN bs[1] ELSE nextFree[x]]
      /\ prevFree' = [x \in Node |->
           IF x \in Range(bs)
             THEN IF Position(bs, x) = 1 THEN At(q, L) ELSE bs[Position(bs, x) - 1]
             ELSE IF x = FakeTail THEN bs[M] ELSE prevFree[x]]
      /\ numFree' = numFree + M
      /\ taken' = taken \ Range(bs)
      /\ call' = Call("put", bs)
  BY <1>5, <1>7, Zenon DEF AppendN
<1>9. \A m \in 1 .. M : /\ nextFree'[bs[m]] = IF m = M THEN FakeTail ELSE bs[m + 1]
                        /\ prevFree'[bs[m]] = IF m = 1 THEN At(q, L) ELSE bs[m - 1]
  BY <1>3, <1>6, <1>8
<1>10. \A x \in Node \ Range(bs) :
         /\ nextFree'[x] = IF x = At(q, L) THEN bs[1] ELSE nextFree[x]
         /\ prevFree'[x] = IF x = FakeTail THEN bs[M] ELSE prevFree[x]
  BY <1>8
<1>11. 1 \in 1 .. M /\ M \in 1 .. M
       /\ \A m \in 1 .. M : (m # M => m + 1 \in 1 .. M) /\ (m # 1 => m - 1 \in 1 .. M)
  BY <1>3
<1>12. \A x \in Range(bs) : \E m \in 1 .. M : x = bs[m]
  BY <1>3, Zenon DEF Range
<1>13. ASSUME NEW x \in Node PROVE nextFree'[x] \in Node \cup {None} /\ prevFree'[x] \in Node \cup {None}
  <2>1. CASE x \in Range(bs)
    <3>1. PICK m \in 1 .. M : x = bs[m]
      BY <2>1, <1>12
    <3> QED BY <3>1, <1>3, <1>5, <1>9, <1>11, Nodes
  <2>2. CASE x \notin Range(bs)
    BY <2>2, <1>1, <1>3, <1>10, <1>11
  <2> QED BY <2>1, <2>2
<1>14. nextFree' \in [Node -> Node \cup {None}] /\ prevFree' \in [Node -> Node \cup {None}]
  <2>1. nextFree' = [x \in Node |-> nextFree'[x]] /\ prevFree' = [x \in Node |-> prevFree'[x]]
    BY <1>8
  <2> QED BY <2>1, <1>13
<1>15. TypeOK' /\ Chained(q \o bs)'
  BY <1>2, <1>3, <1>7, <1>8, <1>9, <1>10, <1>14, PutKeepsChain, ZenonT(30) DEF L
<1> QED BY <1>8, <1>15

\* append: it puts its block behind the list.
LEMMA AppendBlockStep ==
  ASSUME TypeOK, NEW q, Chained(q), NEW b \in Block, AppendBlock(b)
  PROVE  TypeOK' /\ Chained(q \o <<b>>)' /\ call' = Call("put", <<b>>) /\ <<b>> \in Injections(taken)
<1> DEFINE L  == Len(q)
           bs == <<b>>
<1>1. /\ taken \subseteq Block
      /\ nextFree \in [Node -> Node \cup {None}] /\ prevFree \in [Node -> Node \cup {None}]
  BY DEF TypeOK
<1>2. b \in taken /\ b \in Node /\ b # FakeTail
  BY <1>1, Nodes DEF AppendBlock
<1>3. bs \in Injections(taken) /\ bs \in Seq(taken) /\ IsInjective(bs)
  BY <1>1, <1>2, InjectionsProperties
<1>4. Len(bs) = 1 /\ bs[1] = b /\ Range(bs) = {b}
  BY DEF Range
<1>5. /\ L \in Nat /\ At(q, L + 1) = FakeTail
      /\ \A k \in 0 .. L : prevFree[At(q, k + 1)] = At(q, k)
      /\ \A k \in 0 .. (L + 1) : At(q, k) \in Node /\ At(q, k) \notin taken
  BY ChainFacts
<1>6. prevFree[FakeTail] = At(q, L) /\ At(q, L) \in Node /\ At(q, L) # b /\ FakeTail \in Node
  BY <1>2, <1>5, Nodes
<1> HIDE DEF L, bs
<1>7. /\ nextFree' = [nextFree EXCEPT ![At(q, L)] = b, ![b] = FakeTail]
      /\ prevFree' = [prevFree EXCEPT ![b] = At(q, L), ![FakeTail] = b]
      /\ numFree' = numFree + 1
      /\ taken' = taken \ {b}
      /\ call' = Call("put", <<b>>)
  BY <1>6, Zenon DEF AppendBlock
<1>8. /\ nextFree' \in [Node -> Node \cup {None}]
      /\ \A x \in Node : nextFree'[x] = IF x = b THEN FakeTail
                                        ELSE IF x = At(q, L) THEN b ELSE nextFree[x]
  BY <1>1, <1>2, <1>6, <1>7
<1>9. /\ prevFree' \in [Node -> Node \cup {None}]
      /\ \A x \in Node : prevFree'[x] = IF x = b THEN At(q, L)
                                        ELSE IF x = FakeTail THEN b ELSE prevFree[x]
  BY <1>1, <1>2, <1>6, <1>7
<1>10. \A m \in 1 .. 1 : /\ nextFree'[bs[m]] = IF m = 1 THEN FakeTail ELSE bs[m + 1]
                         /\ prevFree'[bs[m]] = IF m = 1 THEN At(q, L) ELSE bs[m - 1]
  <2>1. \A m \in 1 .. 1 : m = 1
    OBVIOUS
  <2> QED BY <2>1, <1>2, <1>4, <1>8, <1>9
<1>11. \A x \in Node \ Range(bs) :
         /\ nextFree'[x] = IF x = At(q, L) THEN bs[1] ELSE nextFree[x]
         /\ prevFree'[x] = IF x = FakeTail THEN bs[1] ELSE prevFree[x]
  BY <1>4, <1>8, <1>9
<1>12. taken' = taken \ Range(bs)
  BY <1>4, <1>7
<1>13. 1 > 0
  OBVIOUS
<1>14. TypeOK' /\ Chained(q \o bs)'
  BY <1>3, <1>4, <1>7, <1>8, <1>9, <1>10, <1>11, <1>12, <1>13, PutKeepsChain DEF L
<1> QED BY <1>3, <1>7, <1>14 DEF bs

-----------------------------------------------------------------------------
(* The theorems                                                            *)

\* __init__ links the blocks in the order of their ids.
LEMMA InitChained ==
  ASSUME Init
  PROVE  TypeOK /\ Chained([i \in 1 .. NumBlocks |-> i - 1])
<1> DEFINE q == [i \in 1 .. NumBlocks |-> i - 1]
<1>1. NumBlocks \in Nat
  BY NumBlocksAssumption
<1>2. q \in [1 .. NumBlocks -> Block] /\ \A i \in 1 .. NumBlocks : q[i] = i - 1
  BY <1>1 DEF Block
<1>3. q \in Seq(Block)
  BY <1>1, <1>2, SeqDef
<1>4. DOMAIN q = 1 .. NumBlocks
  OBVIOUS
<1> HIDE DEF q
<1>5. Len(q) = NumBlocks
  <2>1. Len(q) \in Nat /\ DOMAIN q = 1 .. Len(q)
    BY <1>3, LenProperties
  <2>2. ASSUME NEW m \in 1 .. NumBlocks PROVE m <= Len(q)
    <3>1. m \in 1 .. Len(q)
      BY <2>1, <1>4, Zenon
    <3> QED BY <3>1
  <2>3. ASSUME NEW m \in 1 .. Len(q) PROVE m <= NumBlocks
    <3>1. m \in 1 .. NumBlocks
      BY <2>1, <1>4, Zenon
    <3> QED BY <3>1
  <2>4. NumBlocks <= Len(q)
    BY <2>1, <2>2, <1>1
  <2>5. Len(q) <= NumBlocks
    BY <2>1, <2>3, <1>1
  <2>6. Len(q) \in Nat
    BY <2>1
  <2> QED BY <2>4, <2>5, <2>6, <1>1
<1>6. IsInjective(q)
  BY <1>1, <1>2, <1>4 DEF IsInjective
<1>7. \A x : x \in Range(q) <=> \E k \in 1 .. NumBlocks : x = q[k]
  BY <1>4, Zenon DEF Range
<1>8. Range(q) = Block
  <2>1. ASSUME NEW x \in Block PROVE x \in Range(q)
    <3>1. x + 1 \in 1 .. NumBlocks /\ (x + 1) - 1 = x
      BY <1>1 DEF Block
    <3> QED BY <3>1, <1>2, <1>7
  <2>2. ASSUME NEW x \in Range(q) PROVE x \in Block
    BY <1>2, <1>7
  <2> QED BY <2>1, <2>2
<1>9. /\ nextFree = [x \in Node |-> CASE x = FakeHead -> IF NumBlocks > 0 THEN 0 ELSE FakeTail
                                      [] x = FakeTail -> None
                                      [] OTHER -> IF x = NumBlocks - 1 THEN FakeTail ELSE x + 1]
      /\ prevFree = [x \in Node |-> CASE x = FakeHead -> None
                                      [] x = FakeTail -> IF NumBlocks > 0 THEN NumBlocks - 1 ELSE FakeHead
                                      [] OTHER -> IF x = 0 THEN FakeHead ELSE x - 1]
      /\ numFree = NumBlocks /\ taken = {}
  BY DEF Init
<1>10. /\ nextFree[FakeHead] = (IF NumBlocks > 0 THEN 0 ELSE FakeTail) /\ prevFree[FakeHead] = None
       /\ nextFree[FakeTail] = None /\ prevFree[FakeTail] = (IF NumBlocks > 0 THEN NumBlocks - 1 ELSE FakeHead)
       /\ \A x \in Block : /\ nextFree[x] = IF x = NumBlocks - 1 THEN FakeTail ELSE x + 1
                           /\ prevFree[x] = IF x = 0 THEN FakeHead ELSE x - 1
  BY <1>9, Nodes
<1>11. TypeOK
  <2>1. \A x \in Node : nextFree[x] \in Node \cup {None} /\ prevFree[x] \in Node \cup {None}
    BY <1>1, <1>10 DEF Node, Block, FakeHead, FakeTail, None
  <2>2. nextFree = [x \in Node |-> nextFree[x]] /\ prevFree = [x \in Node |-> prevFree[x]]
    BY <1>9
  <2>3. nextFree \in [Node -> Node \cup {None}] /\ prevFree \in [Node -> Node \cup {None}]
    BY <2>1, <2>2
  <2> QED BY <2>3, <1>1, <1>9 DEF TypeOK
<1>12. /\ At(q, 0) = FakeHead /\ At(q, NumBlocks + 1) = FakeTail
       /\ \A k \in 1 .. NumBlocks : At(q, k) = k - 1
  BY <1>1, <1>2, <1>5 DEF At
<1>13. ASSUME NEW k \in 0 .. NumBlocks
       PROVE  nextFree[At(q, k)] = At(q, k + 1) /\ prevFree[At(q, k + 1)] = At(q, k)
  <2>1. CASE k = 0 /\ NumBlocks = 0
    BY <2>1, <1>10, <1>12
  <2>2. CASE k = 0 /\ NumBlocks > 0
    <3>1. At(q, k) = FakeHead /\ At(q, k + 1) = 0 /\ 0 \in Block
      BY <2>2, <1>1, <1>12 DEF Block
    <3> QED BY <2>2, <3>1, <1>10
  <2>3. CASE k > 0 /\ k = NumBlocks
    <3>1. At(q, k) = NumBlocks - 1 /\ At(q, k + 1) = FakeTail /\ NumBlocks - 1 \in Block
      BY <2>3, <1>1, <1>12 DEF Block
    <3> QED BY <2>3, <3>1, <1>10
  <2>4. CASE k > 0 /\ k < NumBlocks
    <3>1. At(q, k) = k - 1 /\ At(q, k + 1) = k /\ k - 1 \in Block /\ k \in Block
          /\ k - 1 # NumBlocks - 1 /\ (k - 1) + 1 = k /\ k # 0
      BY <2>4, <1>1, <1>12 DEF Block
    <3> QED BY <3>1, <1>10
  <2> QED BY <2>1, <2>2, <2>3, <2>4, <1>1
<1>14. Chained(q)
  BY <1>3, <1>5, <1>6, <1>8, <1>9, <1>10, <1>13 DEF Chained
<1> QED BY <1>11, <1>14 DEF q

\* What the abstract queue does in a step from q to q2, or neither changes.
QueueStep(q, q2) ==
  \/ q2 = q /\ call' = call
  \/ \E n \in 1 .. Len(q) : q2 = WithoutFirst(q, n) /\ call' = Call("take", SubSeq(q, 1, n))
  \/ \E i \in 1 .. Len(q) : q2 = Without(q, i) /\ call' = Call("remove", <<q[i]>>)
  \/ \E bs \in Injections(taken) : q2 = q \o bs /\ call' = Call("put", bs)

\* Every method leaves a list behind that both links follow, and does to it
\* what the abstract queue does.
LEMMA EveryStep ==
  ASSUME TypeOK, NEW q, Chained(q), [Next]_vars
  PROVE  TypeOK' /\ \E q2 : Chained(q2)' /\ QueueStep(q, q2)
<1>1. CASE PopLeft
  <2>1. /\ 1 \in 1 .. Len(q) /\ TypeOK' /\ Chained(WithoutFirst(q, 1))'
        /\ call' = Call("take", SubSeq(q, 1, 1))
    BY <1>1, PopLeftStep
  <2>2. QueueStep(q, WithoutFirst(q, 1))
    BY <2>1, Zenon DEF QueueStep
  <2> QED BY <2>1, <2>2
<1>2. ASSUME NEW n \in 1 .. NumBlocks, PopLeftN(n)
      PROVE  TypeOK' /\ \E q2 : Chained(q2)' /\ QueueStep(q, q2)
  <2>1. /\ n \in 1 .. Len(q) /\ TypeOK' /\ Chained(WithoutFirst(q, n))'
        /\ call' = Call("take", SubSeq(q, 1, n))
    BY <1>2, PopLeftNStep
  <2>2. QueueStep(q, WithoutFirst(q, n))
    BY <2>1, Zenon DEF QueueStep
  <2> QED BY <2>1, <2>2
<1>3. ASSUME NEW b \in Block, Remove(b)
      PROVE  TypeOK' /\ \E q2 : Chained(q2)' /\ QueueStep(q, q2)
  <2>1. PICK i \in 1 .. Len(q) : /\ q[i] = b /\ TypeOK' /\ Chained(Without(q, i))'
                                 /\ call' = Call("remove", <<b>>)
    BY <1>3, RemoveStep
  <2>2. QueueStep(q, Without(q, i))
    BY <2>1, Zenon DEF QueueStep
  <2> QED BY <2>1, <2>2
<1>4. ASSUME NEW b \in Block, AppendBlock(b)
      PROVE  TypeOK' /\ \E q2 : Chained(q2)' /\ QueueStep(q, q2)
  <2>1. /\ TypeOK' /\ Chained(q \o <<b>>)' /\ call' = Call("put", <<b>>)
        /\ <<b>> \in Injections(taken)
    BY <1>4, AppendBlockStep
  <2>2. QueueStep(q, q \o <<b>>)
    BY <2>1, Zenon DEF QueueStep
  <2> QED BY <2>1, <2>2
<1>5. ASSUME NEW bs \in Injections(taken), AppendN(bs)
      PROVE  TypeOK' /\ \E q2 : Chained(q2)' /\ QueueStep(q, q2)
  <2>1. TypeOK' /\ Chained(q \o bs)' /\ call' = Call("put", bs)
    BY <1>5, AppendNStep
  <2>2. QueueStep(q, q \o bs)
    BY <2>1, Zenon DEF QueueStep
  <2> QED BY <2>1, <2>2
<1>6. CASE UNCHANGED vars
  <2>1. TypeOK' /\ Chained(q)' /\ call' = call
    BY <1>6 DEF vars, TypeOK, Chained
  <2>2. QueueStep(q, q)
    BY <2>1 DEF QueueStep
  <2> QED BY <2>1, <2>2
<1> QED BY <1>1, <1>2, <1>3, <1>4, <1>5, <1>6 DEF Next

\* Whatever the pool calls, both links of every node lead along one list of
\* the free blocks.
THEOREM Invariance == Spec => []IInv
<1>1. Init => IInv
  BY InitChained DEF IInv
<1>2. IInv /\ [Next]_vars => IInv'
  <2> SUFFICES ASSUME IInv, [Next]_vars PROVE IInv'
    OBVIOUS
  <2>1. PICK q : Chained(q)
    BY DEF IInv
  <2>2. TypeOK' /\ \E q2 : Chained(q2)' /\ QueueStep(q, q2)
    BY <2>1, EveryStep DEF IInv
  <2> QED BY <2>2, Zenon DEF IInv
<1> QED BY <1>1, <1>2, PTL DEF Spec

\* get_all_free_blocks returns exactly the blocks that are not taken,
\* num_free_blocks is their number, the links of every node agree with those
\* of its neighbours, and a taken block keeps no link into the list.
THEOREM ListIsLinked == Spec => []Linked
<1>1. IInv => Linked
  <2> SUFFICES ASSUME IInv PROVE Linked
    OBVIOUS
  <2>1. PICK q : Chained(q)
    BY DEF IInv
  <2>2. TypeOK /\ FreeList = q
    BY <2>1, ListIsChain DEF IInv, ListDetermined
  <2>3. Range(q) = Block \ taken /\ numFree = Len(q) /\ nextFree[FakeTail] = None
        /\ \A b \in taken : nextFree[b] = None /\ prevFree[b] = None
    BY <2>1 DEF Chained
  <2>4. /\ Len(q) \in Nat /\ At(q, 0) = FakeHead
        /\ \A k \in 1 .. Len(q) : At(q, k) = q[k]
        /\ \A k \in 0 .. Len(q) : nextFree[At(q, k)] = At(q, k + 1) /\ prevFree[At(q, k + 1)] = At(q, k)
        /\ \A x : x \in Block /\ x \notin taken => \E k \in 1 .. Len(q) : x = q[k]
    BY <2>1, <2>2, ChainFacts
  <2>5. ASSUME NEW x \in Node \ taken, nextFree[x] # None PROVE prevFree[nextFree[x]] = x
    <3>1. PICK k \in 0 .. Len(q) : x = At(q, k)
      <4>1. CASE x = FakeHead
        BY <4>1, <2>4
      <4>2. CASE x \in Block
        <5>1. PICK k \in 1 .. Len(q) : x = q[k]
          BY <4>2, <2>4
        <5> QED BY <5>1, <2>4
      <4>3. x # FakeTail
        BY <2>3, <2>5
      <4> QED BY <4>1, <4>2, <4>3 DEF Node
    <3> QED BY <3>1, <2>4
  <2> QED BY <2>2, <2>3, <2>5 DEF Linked
<1> QED BY <1>1, Invariance, PTL

\* The linked list implements the queue that the block pool relies on: every
\* method is a step of FreeQueue on the list that get_all_free_blocks returns.
THEOREM ListIsAQueue == Spec => QueueRefined
<1>1. Init => Abstract!QInit
  <2> SUFFICES ASSUME Init PROVE Abstract!QInit
    OBVIOUS
  <2>1. FreeList = [i \in 1 .. NumBlocks |-> i - 1]
    BY InitChained, ListIsChain DEF ListDetermined
  <2> QED BY <2>1, Zenon DEF Init, Call, Abstract!QInit, Abstract!Call
<1>2. IInv /\ [Next]_vars => [Abstract!QNext]_<<FreeList, call>>
  <2> SUFFICES ASSUME IInv, [Next]_vars PROVE [Abstract!QNext]_<<FreeList, call>>
    OBVIOUS
  <2>1. PICK q : Chained(q)
    BY DEF IInv
  <2>2. PICK q2 : Chained(q2)' /\ QueueStep(q, q2)
    BY <2>1, EveryStep DEF IInv
  <2>3. FreeList = q
    BY <2>1, ListIsChain DEF ListDetermined
  <2>4. FreeList' = q2
    BY <2>2, ListIsChainNext DEF ListDetermined
  <2>5. CASE q2 = q /\ call' = call
    BY <2>3, <2>4, <2>5
  <2>6. ASSUME NEW n \in 1 .. Len(q), q2 = WithoutFirst(q, n), call' = Call("take", SubSeq(q, 1, n))
        PROVE  Abstract!QNext
    <3>1. n <= Len(q)
      BY <2>1, ChainFacts DEF IInv
    <3>2. Abstract!TakeFront(n)
      BY <2>3, <2>4, <2>6, <3>1 DEF Abstract!TakeFront, Abstract!Call, Call, WithoutFirst
    <3> QED BY <3>2, <2>3 DEF Abstract!QNext
  <2>7. ASSUME NEW i \in 1 .. Len(q), q2 = Without(q, i), call' = Call("remove", <<q[i]>>)
        PROVE  Abstract!QNext
    <3>1. Abstract!Remove(q[i])
      BY <2>3, <2>4, <2>7 DEF Abstract!Remove, Abstract!Call, Call, Without
    <3>2. q[i] \in Abstract!Range(FreeList)
      <4>1. q \in Seq(Block) /\ i \in DOMAIN q
        BY <2>1, LenProperties DEF Chained
      <4> QED BY <4>1, <2>3 DEF Abstract!Range
    <3> QED BY <3>1, <3>2 DEF Abstract!QNext
  <2>8. ASSUME NEW bs \in Injections(taken), q2 = q \o bs, call' = Call("put", bs)
        PROVE  Abstract!QNext
    <3>1. Abstract!PutBack(bs)
      BY <2>3, <2>4, <2>8 DEF Abstract!PutBack, Abstract!Call, Call
    <3>2. Abstract!Block \ Abstract!Range(FreeList) = taken
      <4>1. Abstract!Block = Block
        BY DEF Abstract!Block, Block
      <4>2. Abstract!Range(FreeList) = Range(q)
        BY <2>3 DEF Abstract!Range, Range
      <4> QED BY <4>1, <4>2, <2>1 DEF IInv, TypeOK, Chained
    <3>3. bs \in Abstract!Injections(taken)
      <4>1. Abstract!IsInjective(bs) <=> IsInjective(bs)
        BY DEF Abstract!IsInjective, IsInjective
      <4>2. Abstract!Cardinality(taken) = Cardinality(taken)
        BY DEF Abstract!Cardinality, Cardinality
      <4> QED BY <4>1, <4>2, Zenon DEF Abstract!Injections, Injections
    <3> QED BY <3>1, <3>2, <3>3 DEF Abstract!QNext
  <2> QED BY <2>2, <2>5, <2>6, <2>7, <2>8 DEF QueueStep
<1> QED BY <1>1, <1>2, Invariance, PTL DEF Spec, QueueRefined, Abstract!QSpec
=============================================================================
