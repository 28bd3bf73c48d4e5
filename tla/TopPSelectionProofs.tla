------------------------ MODULE TopPSelectionProofs ------------------------
(***************************************************************************)
(* Proofs about TopPSelection: whatever the number of ranks, the lengths   *)
(* of the batch, the scores and p, the blocks kept are the smallest set of *)
(* highest scores whose mass exceeds p (NucleusKept), they are those of    *)
(* native_imp.py and at most one more (CoversNative), and the masks and    *)
(* lengths agree with each other and on all ranks (ResultConsistent).      *)
(*                                                                         *)
(* The facts about sums and about the sort come first; a property of all   *)
(* finite sets is proved from a minimal set without it.                    *)
(***************************************************************************)
EXTENDS TopPSelection, FiniteSetTheorems, NaturalsInduction, WellFoundedInduction, TLAPS

-----------------------------------------------------------------------------
(* Least elements and minimal sets                                         *)

\* Every nonempty set of natural numbers has a least element.
LEMMA LeastElement ==
  ASSUME NEW S \in SUBSET Nat, S # {}
  PROVE  \E x \in S : \A y \in S : x <= y
<1> DEFINE R == OpToRel(<, Nat)
<1>1. IsWellFoundedOn(R, Nat)
  BY NatLessThanWellFounded
<1>2. \A x, y \in Nat : y < x => <<y, x>> \in R
  BY DEF OpToRel
<1> HIDE DEF R
<1>3. PICK x \in S : \A y \in S : ~(<<y, x>> \in R)
  BY <1>1, WFMin
<1>4. ASSUME NEW y \in S PROVE x <= y
  <2>1. x \in Nat /\ y \in Nat
    OBVIOUS
  <2>2. ~(y < x)
    BY <2>1, <1>2, <1>3, Zenon
  <2> QED BY <2>1, <2>2
<1> QED BY <1>4

\* A nonempty collection of subsets of a finite set has a minimal member.
LEMMA MinimalSet ==
  ASSUME NEW U, IsFiniteSet(U), NEW B \in SUBSET SUBSET U, B # {}
  PROVE  \E s \in B : \A t \in SUBSET s : t # s => t \notin B
<1> DEFINE C == {Cardinality(s) : s \in B}
<1>1. ASSUME NEW s \in B PROVE IsFiniteSet(s) /\ Cardinality(s) \in Nat
  <2>1. IsFiniteSet(s)
    BY FS_Subset
  <2> QED BY <2>1, FS_CardinalityType
<1>2. C \in SUBSET Nat /\ C # {}
  BY <1>1
<1>3. PICK n \in C : \A k \in C : n <= k
  BY <1>2, LeastElement
<1>4. PICK s \in B : Cardinality(s) = n
  BY <1>3
<1>5. ASSUME NEW t \in SUBSET s, t # s, t \in B PROVE FALSE
  <2>1. Cardinality(t) <= Cardinality(s) /\ Cardinality(t) # Cardinality(s)
    BY <1>1, <1>5, FS_Subset
  <2>2. Cardinality(s) <= Cardinality(t)
    BY <1>3, <1>4, <1>5
  <2>3. Cardinality(s) \in Nat /\ Cardinality(t) \in Nat
    BY <1>1, <1>5
  <2> QED BY <2>1, <2>2, <2>3
<1> QED BY <1>5

\* Blocks, tokens and ranks are counted from 0.
LEMMA IntervalCount ==
  ASSUME NEW n \in Nat
  PROVE  IsFiniteSet(0 .. (n - 1)) /\ Cardinality(0 .. (n - 1)) = n
<1>1. 0 \in Int /\ n - 1 \in Int
  OBVIOUS
<1>2. /\ IsFiniteSet(0 .. (n - 1))
      /\ Cardinality(0 .. (n - 1)) = IF 0 > n - 1 THEN 0 ELSE (n - 1) - 0 + 1
  BY <1>1, FS_Interval, Zenon
<1>3. (IF 0 > n - 1 THEN 0 ELSE (n - 1) - 0 + 1) = n
  OBVIOUS
<1> QED BY <1>2, <1>3

-----------------------------------------------------------------------------
(* Sums                                                                    *)

\* The recursion behind the sum: the value at s from that at a smaller set.
Pick(s)        == CHOOSE x \in s : TRUE
SumAt(f, v, s) == IF s = {} THEN 0 ELSE f[Pick(s)] + v[s \ {Pick(s)}]
SumFn(f, S)    == CHOOSE v : v = [s \in SUBSET S |-> SumAt(f, v, s)]

LEMMA SumDef == ASSUME NEW f, NEW S
  PROVE  SumOver(f, S) = SumFn(f, S)[S]
BY DEF SumOver, MapThenSumSet, MapThenFoldSet, SumFn, SumAt, Pick

LEMMA PickIn == ASSUME NEW s, s # {} PROVE Pick(s) \in s
BY DEF Pick

\* The recursion has a solution: there is one up to every cardinality.
LEMMA SumExists ==
  ASSUME NEW f, NEW S, IsFiniteSet(S)
  PROVE  \A s \in SUBSET S : SumFn(f, S)[s] = SumAt(f, SumFn(f, S), s)
<1> DEFINE UpTo(n, v) == \A s \in SUBSET S : Cardinality(s) <= n => v[s] = SumAt(f, v, s)
           Bad == {n \in Nat : ~ \E v : UpTo(n, v)}
           Extend(v) == [s \in SUBSET S |-> SumAt(f, v, s)]
<1>0. ASSUME NEW s \in SUBSET S
      PROVE  /\ Cardinality(s) \in Nat
             /\ s # {} => /\ Pick(s) \in s /\ s \ {Pick(s)} \in SUBSET S
                          /\ Cardinality(s \ {Pick(s)}) = Cardinality(s) - 1
                          /\ Cardinality(s) # 0
  <2>1. IsFiniteSet(s)
    BY FS_Subset
  <2>2. Cardinality(s) \in Nat /\ (Cardinality(s) = 0 <=> s = {})
    BY <2>1, FS_CardinalityType, FS_EmptySet
  <2>3. s # {} => Pick(s) \in s
    BY PickIn
  <2>4. ASSUME s # {} PROVE Cardinality(s \ {Pick(s)}) = Cardinality(s) - 1
    BY <2>1, <2>3, <2>4, FS_RemoveElement
  <2> QED BY <2>2, <2>3, <2>4
<1>1. Bad = {}
  <2> SUFFICES ASSUME Bad # {} PROVE FALSE
    OBVIOUS
  <2>1. PICK n \in Bad : \A k \in Bad : n <= k
    BY LeastElement
  <2>2. CASE n = 0
    <3>1. UpTo(0, Extend(f))
      <4> SUFFICES ASSUME NEW s \in SUBSET S, Cardinality(s) <= 0
                   PROVE  Extend(f)[s] = SumAt(f, Extend(f), s)
        OBVIOUS
      <4>1. Cardinality(s) \in Nat /\ (s # {} => Cardinality(s) # 0)
        BY <1>0
      <4>2. s = {}
        BY <4>1
      <4> QED BY <4>2 DEF SumAt
    <3> QED BY <2>2, <3>1
  <2>3. CASE n # 0
    <3>1. n - 1 \in Nat /\ n - 1 \notin Bad
      BY <2>1, <2>3
    <3>2. PICK v : UpTo(n - 1, v)
      BY <3>1
    <3>3. ASSUME NEW s \in SUBSET S, Cardinality(s) <= n
          PROVE  Extend(v)[s] = SumAt(f, Extend(v), s)
      <4>1. CASE s = {}
        BY <4>1 DEF SumAt
      <4>2. CASE s # {}
        <5> DEFINE t == s \ {Pick(s)}
        <5>1. t \in SUBSET S /\ Cardinality(t) <= n - 1
          BY <3>3, <4>2, <1>0
        <5>2. v[t] = SumAt(f, v, t)
          BY <5>1, <3>2
        <5>3. Extend(v)[t] = v[t]
          BY <5>1, <5>2
        <5>4. SumAt(f, v, s) = SumAt(f, Extend(v), s)
          BY <4>2, <5>3 DEF SumAt
        <5> QED BY <5>4
      <4> QED BY <4>1, <4>2
    <3>4. UpTo(n, Extend(v))
      BY <3>3
    <3> QED BY <3>4, <2>1
  <2> QED BY <2>2, <2>3
<1>2. Cardinality(S) \in Nat
  BY <1>0
<1>3. PICK v : UpTo(Cardinality(S), v)
  BY <1>1, <1>2
<1>4. \A s \in SUBSET S : v[s] = SumAt(f, v, s)
  <2> SUFFICES ASSUME NEW s \in SUBSET S PROVE v[s] = SumAt(f, v, s)
    OBVIOUS
  <2>1. Cardinality(s) <= Cardinality(S)
    BY FS_Subset
  <2> QED BY <2>1, <1>3
<1>5. \A s \in SUBSET S : Extend(v)[s] = v[s]
  BY <1>4
<1>6. ASSUME NEW s \in SUBSET S PROVE SumAt(f, v, s) = SumAt(f, Extend(v), s)
  <2>1. s # {} => s \ {Pick(s)} \in SUBSET S
    OBVIOUS
  <2> QED BY <2>1, <1>5 DEF SumAt
<1>7. Extend(v) = [s \in SUBSET S |-> SumAt(f, Extend(v), s)]
  BY <1>6
<1>8. SumFn(f, S) = [s \in SUBSET S |-> SumAt(f, SumFn(f, S), s)]
  BY <1>7 DEF SumFn
<1> QED BY <1>8

\* The sum over a set is one of its elements and the sum over the others.
LEMMA SumPick ==
  ASSUME NEW f, NEW S, IsFiniteSet(S)
  PROVE  /\ S = {} => SumOver(f, S) = 0
         /\ S # {} => SumOver(f, S) = f[Pick(S)] + SumOver(f, S \ {Pick(S)})
<1>1. S = {} => SumOver(f, S) = 0
  BY SumExists, SumDef DEF SumAt
<1>2. ASSUME S # {} PROVE SumOver(f, S) = f[Pick(S)] + SumOver(f, S \ {Pick(S)})
  <2> DEFINE T == S \ {Pick(S)}
             B == {t \in SUBSET T : SumFn(f, S)[t] # SumFn(f, T)[t]}
  <2>1. IsFiniteSet(T)
    BY FS_Subset
  <2>2. B = {}
    <3> SUFFICES ASSUME B # {} PROVE FALSE
      OBVIOUS
    <3>1. PICK s \in B : \A t \in SUBSET s : t # s => t \notin B
      <4> HIDE DEF T
      <4>1. B \in SUBSET SUBSET T
        OBVIOUS
      <4> HIDE DEF B
      <4> QED BY <4>1, <2>1, MinimalSet
    <3>2. /\ SumFn(f, S)[s] = SumAt(f, SumFn(f, S), s)
          /\ SumFn(f, T)[s] = SumAt(f, SumFn(f, T), s)
      <4>1. s \in SUBSET S /\ s \in SUBSET T
        OBVIOUS
      <4> HIDE DEF T
      <4> QED BY <4>1, <2>1, SumExists
    <3>3. s # {}
      BY <3>2 DEF SumAt
    <3>4. Pick(s) \in s
      BY <3>3, PickIn
    <3>5. s \ {Pick(s)} \in SUBSET T /\ s \ {Pick(s)} \notin B
      BY <3>1, <3>4
    <3>6. SumFn(f, S)[s \ {Pick(s)}] = SumFn(f, T)[s \ {Pick(s)}]
      BY <3>5
    <3>7. SumFn(f, S)[s] = SumFn(f, T)[s]
      BY <3>2, <3>3, <3>6 DEF SumAt
    <3> QED BY <3>7
  <2>3. SumFn(f, S)[T] = SumFn(f, T)[T]
    BY <2>2
  <2>4. SumFn(f, S)[S] = SumAt(f, SumFn(f, S), S)
    BY SumExists
  <2>5. SumFn(f, S)[S] = f[Pick(S)] + SumFn(f, S)[T]
    BY <1>2, <2>4 DEF SumAt
  <2> QED BY <2>3, <2>5, SumDef
<1> QED BY <1>1, <1>2

\* A sum of natural numbers is one.
LEMMA SumType ==
  ASSUME NEW f, NEW S, IsFiniteSet(S), \A x \in S : f[x] \in Nat
  PROVE  SumOver(f, S) \in Nat
<1> DEFINE B == {t \in SUBSET S : SumOver(f, t) \notin Nat}
<1>1. B = {}
  <2> SUFFICES ASSUME B # {} PROVE FALSE
    OBVIOUS
  <2>1. PICK s \in B : \A t \in SUBSET s : t # s => t \notin B
    <3>1. B \in SUBSET SUBSET S
      OBVIOUS
    <3> HIDE DEF B
    <3> QED BY <3>1, MinimalSet
  <2>2. IsFiniteSet(s)
    BY FS_Subset
  <2>3. s # {}
    <3>1. SumOver(f, s) \notin Nat
      OBVIOUS
    <3>2. s = {} => SumOver(f, s) = 0
      BY <2>2, SumPick
    <3> QED BY <3>1, <3>2
  <2>4. Pick(s) \in s
    BY <2>3, PickIn
  <2>5. SumOver(f, s \ {Pick(s)}) \in Nat
    BY <2>1, <2>4
  <2>6. f[Pick(s)] \in Nat
    BY <2>4
  <2>7. SumOver(f, s) = f[Pick(s)] + SumOver(f, s \ {Pick(s)})
    BY <2>2, <2>3, SumPick
  <2>8. SumOver(f, s) \in Nat
    BY <2>5, <2>6, <2>7
  <2> QED BY <2>8
<1> QED BY <1>1

\* The element taken out of the sum may be any.
LEMMA SumElement ==
  ASSUME NEW f, NEW S, IsFiniteSet(S), \A y \in S : f[y] \in Nat, NEW x \in S
  PROVE  SumOver(f, S) = f[x] + SumOver(f, S \ {x})
<1> DEFINE Good(t) == \A y \in t : SumOver(f, t) = f[y] + SumOver(f, t \ {y})
           B == {t \in SUBSET S : ~Good(t)}
<1>1. B = {}
  <2> SUFFICES ASSUME B # {} PROVE FALSE
    OBVIOUS
  <2>1. PICK s \in B : \A t \in SUBSET s : t # s => t \notin B
    <3>1. B \in SUBSET SUBSET S
      OBVIOUS
    <3> HIDE DEF B
    <3> QED BY <3>1, MinimalSet
  <2>2. IsFiniteSet(s)
    BY FS_Subset
  <2>3. PICK y \in s : SumOver(f, s) # f[y] + SumOver(f, s \ {y})
    OBVIOUS
  <2> DEFINE z == Pick(s)
             t == s \ {y, z}
  <2>4. z \in s /\ SumOver(f, s) = f[z] + SumOver(f, s \ {z})
    BY <2>2, SumPick, PickIn
  <2> HIDE DEF z
  <2>5. y # z
    BY <2>3, <2>4
  <2>6. /\ s \ {z} \in SUBSET s /\ s \ {z} # s /\ y \in s \ {z} /\ (s \ {z}) \ {y} = t
        /\ s \ {y} \in SUBSET s /\ s \ {y} # s /\ z \in s \ {y} /\ (s \ {y}) \ {z} = t
    BY <2>4, <2>5
  <2>7. Good(s \ {z}) /\ Good(s \ {y})
    BY <2>1, <2>6
  <2>8. SumOver(f, s \ {z}) = f[y] + SumOver(f, t)
    BY <2>6, <2>7
  <2>9. SumOver(f, s \ {y}) = f[z] + SumOver(f, t)
    BY <2>6, <2>7
  <2>10. SumOver(f, t) \in Nat
    <3>1. IsFiniteSet(t)
      BY <2>2, FS_Subset
    <3>2. \A w \in t : f[w] \in Nat
      OBVIOUS
    <3> HIDE DEF t
    <3> QED BY <3>1, <3>2, SumType
  <2>11. f[y] \in Nat /\ f[z] \in Nat
    BY <2>4
  <2> HIDE DEF t
  <2> QED BY <2>3, <2>4, <2>8, <2>9, <2>10, <2>11
<1>2. S \notin B
  BY <1>1
<1> QED BY <1>2

\* A sum over fewer elements is not larger, and equal if the others are zero.
LEMMA SumSubset ==
  ASSUME NEW f, NEW S, IsFiniteSet(S), \A x \in S : f[x] \in Nat, NEW T \in SUBSET S
  PROVE  /\ SumOver(f, T) <= SumOver(f, S)
         /\ (\A x \in S \ T : f[x] = 0) => SumOver(f, T) = SumOver(f, S)
<1> DEFINE Zero == \A x \in S \ T : f[x] = 0
           Good(s) == SumOver(f, T) <= SumOver(f, s) /\ (Zero => SumOver(f, T) = SumOver(f, s))
           B == {s \in SUBSET S : T \in SUBSET s /\ ~Good(s)}
<1>0. ASSUME NEW s \in SUBSET S PROVE IsFiniteSet(s) /\ SumOver(f, s) \in Nat
  <2>1. IsFiniteSet(s)
    BY FS_Subset
  <2> QED BY <2>1, SumType
<1>1. B = {}
  <2> SUFFICES ASSUME B # {} PROVE FALSE
    OBVIOUS
  <2>1. PICK s \in B : \A t \in SUBSET s : t # s => t \notin B
    <3>1. B \in SUBSET SUBSET S
      OBVIOUS
    <3> HIDE DEF B
    <3> QED BY <3>1, MinimalSet
  <2>2. T # s
    BY <1>0
  <2>3. PICK x \in s : x \notin T
    BY <2>2
  <2>4. s \ {x} \in SUBSET S /\ T \in SUBSET (s \ {x}) /\ s \ {x} \notin B
    BY <2>1, <2>3
  <2>5. Good(s \ {x})
    BY <2>4
  <2>6. SumOver(f, s) = f[x] + SumOver(f, s \ {x})
    BY <1>0, SumElement
  <2>7. f[x] \in Nat /\ SumOver(f, s \ {x}) \in Nat /\ SumOver(f, T) \in Nat
    BY <1>0, <2>4
  <2>8. Zero => f[x] = 0
    BY <2>3
  <2> HIDE DEF Zero
  <2>9. Good(s)
    BY <2>5, <2>6, <2>7, <2>8
  <2> QED BY <2>9
<1> QED BY <1>1

\* Only the values on the set matter.
LEMMA SumCong ==
  ASSUME NEW f, NEW g, NEW S, IsFiniteSet(S), \A x \in S : f[x] = g[x]
  PROVE  SumOver(f, S) = SumOver(g, S)
<1> DEFINE B == {t \in SUBSET S : SumOver(f, t) # SumOver(g, t)}
<1>1. B = {}
  <2> SUFFICES ASSUME B # {} PROVE FALSE
    OBVIOUS
  <2>1. PICK s \in B : \A t \in SUBSET s : t # s => t \notin B
    <3>1. B \in SUBSET SUBSET S
      OBVIOUS
    <3> HIDE DEF B
    <3> QED BY <3>1, MinimalSet
  <2>2. IsFiniteSet(s)
    BY FS_Subset
  <2>3. s # {}
    BY <2>2, SumPick
  <2>4. Pick(s) \in s
    BY <2>3, PickIn
  <2>5. SumOver(f, s \ {Pick(s)}) = SumOver(g, s \ {Pick(s)})
    BY <2>1, <2>4
  <2>6. f[Pick(s)] = g[Pick(s)]
    BY <2>4
  <2>7. /\ SumOver(f, s) = f[Pick(s)] + SumOver(f, s \ {Pick(s)})
        /\ SumOver(g, s) = g[Pick(s)] + SumOver(g, s \ {Pick(s)})
    BY <2>2, <2>3, SumPick
  <2>8. SumOver(f, s) = SumOver(g, s)
    BY <2>5, <2>6, <2>7
  <2> QED BY <2>8
<1> QED BY <1>1

-----------------------------------------------------------------------------
(* Arithmetic                                                              *)

LEMMA TimesMonotone ==
  ASSUME NEW x \in Nat, NEW y \in Nat, NEW z \in Nat, x <= y
  PROVE  x * z <= y * z
<1>1. PICK d \in Nat : y = x + d
  <2>1. y - x \in Nat /\ y = x + (y - x)
    OBVIOUS
  <2> QED BY <2>1
<1>2. y * z = x * z + d * z
  BY <1>1
<1>3. x * z \in Nat /\ d * z \in Nat
  OBVIOUS
<1> QED BY <1>2, <1>3

\* The whole mass is more than p of it.
LEMMA AllExceedsP ==
  ASSUME NEW t \in Nat, t > 0, NEW x \in Nat, NEW y \in Nat, x < y
  PROVE  t * y > x * t
<1>1. PICK d \in Nat : y = x + 1 + d
  <2>1. y - x - 1 \in Nat /\ y = x + 1 + (y - x - 1)
    OBVIOUS
  <2> QED BY <2>1
<1>2. t * y = x * t + t + t * d
  BY <1>1
<1>3. x * t \in Nat /\ t * d \in Nat
  OBVIOUS
<1> QED BY <1>2, <1>3

LEMMA Division ==
  ASSUME NEW x \in Nat, NEW d \in Nat \ {0}
  PROVE  /\ x \div d \in Nat
         /\ d * (x \div d) <= x
         /\ x < d * (x \div d) + d
OBVIOUS

LEMMA DivMonotone ==
  ASSUME NEW x \in Nat, NEW y \in Nat, NEW d \in Nat \ {0}, x <= y
  PROVE  x \div d <= y \div d
<1> DEFINE p == x \div d
           q == y \div d
<1>1. /\ p \in Nat /\ d * p <= x
      /\ q \in Nat /\ y < d * q + d
  BY Division
<1> HIDE DEF p, q
<1>2. ASSUME q + 1 <= p PROVE FALSE
  <2>1. (q + 1) * d <= p * d
    BY <1>1, <1>2, TimesMonotone
  <2>2. (q + 1) * d = d * q + d /\ p * d = d * p
    BY <1>1
  <2>3. d * q \in Nat /\ d * p \in Nat
    BY <1>1
  <2> QED BY <1>1, <2>1, <2>2, <2>3
<1>3. p <= q
  BY <1>1, <1>2
<1> QED BY <1>3 DEF p, q

\* A request of at least one token has a block, and no block fewer than a
\* shorter request.
LEMMA NumBlocksFacts ==
  /\ \A x \in Nat : NumBlocks(x) \in Nat
  /\ \A x \in Nat \ {0} : NumBlocks(x) # 0
  /\ \A x, y \in Nat : x <= y => NumBlocks(x) <= NumBlocks(y)
<1>0. BlockSize \in Nat \ {0}
  BY SelectionAssumption
<1>1. ASSUME NEW x \in Nat PROVE x + BlockSize - 1 \in Nat /\ NumBlocks(x) \in Nat
  <2>1. x + BlockSize - 1 \in Nat
    BY <1>0
  <2> QED BY <1>0, <2>1, Division DEF NumBlocks
<1>2. ASSUME NEW x \in Nat \ {0} PROVE NumBlocks(x) # 0
  <2>1. x + BlockSize - 1 \in Nat /\ x + BlockSize - 1 >= BlockSize
    BY <1>0
  <2> DEFINE q == (x + BlockSize - 1) \div BlockSize
  <2>2. x + BlockSize - 1 < BlockSize * q + BlockSize
    BY <1>0, <2>1, Division
  <2>3. q # 0
    <3> SUFFICES ASSUME q = 0 PROVE FALSE
      OBVIOUS
    <3>1. BlockSize * q = 0
      BY <1>0
    <3> HIDE DEF q
    <3> QED BY <1>0, <2>1, <2>2, <3>1
  <2> QED BY <2>3 DEF NumBlocks
<1>3. ASSUME NEW x \in Nat, NEW y \in Nat, x <= y PROVE NumBlocks(x) <= NumBlocks(y)
  <2>1. x + BlockSize - 1 <= y + BlockSize - 1
    BY <1>0, <1>3
  <2> QED BY <1>0, <1>1, <2>1, DivMonotone DEF NumBlocks
<1> QED BY <1>1, <1>2, <1>3

\* A finite nonempty set of natural numbers has a largest element.
LEMMA MaxFacts ==
  ASSUME NEW S \in SUBSET Nat, IsFiniteSet(S), S # {}
  PROVE  Max(S) \in S /\ \A y \in S : y <= Max(S)
<1> DEFINE Has(t) == \E x \in t : \A y \in t : x >= y
           B == {t \in SUBSET S : t # {} /\ ~Has(t)}
<1>1. B = {}
  <2> SUFFICES ASSUME B # {} PROVE FALSE
    OBVIOUS
  <2>1. PICK s \in B : \A t \in SUBSET s : t # s => t \notin B
    <3>1. B \in SUBSET SUBSET S
      OBVIOUS
    <3> HIDE DEF B
    <3> QED BY <3>1, MinimalSet
  <2>2. PICK x \in s : TRUE
    OBVIOUS
  <2>3. x \in Nat
    OBVIOUS
  <2>4. CASE s = {x}
    BY <2>3, <2>4
  <2>5. CASE s # {x}
    <3>1. s \ {x} # {} /\ s \ {x} \in SUBSET s /\ s \ {x} # s
      BY <2>2, <2>5
    <3>2. Has(s \ {x})
      BY <2>1, <3>1
    <3>3. PICK z \in s \ {x} : \A y \in s \ {x} : z >= y
      BY <3>2
    <3>4. z \in Nat /\ z \in s
      OBVIOUS
    <3>5. CASE x >= z
      <4>1. \A y \in s : x >= y
        <5> SUFFICES ASSUME NEW y \in s, y # x PROVE x >= y
          BY <2>3
        <5>1. z >= y /\ y \in Nat
          BY <3>3
        <5> QED BY <2>3, <3>4, <3>5, <5>1
      <4> QED BY <4>1, <2>2
    <3>6. CASE ~(x >= z)
      <4>1. \A y \in s : z >= y
        BY <2>3, <3>3, <3>4, <3>6
      <4> QED BY <4>1, <3>4
    <3> QED BY <3>5, <3>6
  <2> QED BY <2>4, <2>5
<1>2. S \notin B
  BY <1>1
<1>3. \E x \in S : \A y \in S : x >= y
  BY <1>2
<1>4. Max(S) \in S /\ \A y \in S : Max(S) >= y
  BY <1>3 DEF Max
<1>5. Max(S) \in Nat
  BY <1>4
<1> QED BY <1>4, <1>5

\* The powers of two that PaddedLen chooses from are defined, and the next one
\* is among them.
LEMMA NextPower ==
  ASSUME NEW L \in Nat \ {0},
         NEW g, g = CHOOSE h : h = [i \in 0 .. L |-> IF i = 0 THEN 1 ELSE 2 * h[i - 1]]
  PROVE  Range(g) \subseteq Nat /\ \E n \in Range(g) : n >= L /\ n < 2 * L
<1> DEFINE Is(h, n) == h = [i \in 0 .. n |-> IF i = 0 THEN 1 ELSE 2 * h[i - 1]]
           Bad == {n \in Nat : ~ \E h : Is(h, n)}
<1>1. Bad = {}
  <2> SUFFICES ASSUME Bad # {} PROVE FALSE
    OBVIOUS
  <2>1. PICK n \in Bad : \A k \in Bad : n <= k
    BY LeastElement
  <2>2. n # 0
    <3> SUFFICES ASSUME n = 0 PROVE FALSE
      OBVIOUS
    <3> DEFINE h == [i \in 0 .. 0 |-> 1]
    <3>1. Is(h, 0)
      OBVIOUS
    <3> QED BY <3>1
  <2>3. n - 1 \in Nat /\ n - 1 \notin Bad
    <3>1. n \in Nat
      BY <2>1
    <3> HIDE DEF Bad
    <3>2. n - 1 \in Bad => n <= n - 1
      BY <2>1
    <3> QED BY <2>2, <3>1, <3>2
  <2>4. PICK v : Is(v, n - 1)
    BY <2>3
  <2> DEFINE w == [i \in 0 .. n |-> IF i = 0 THEN 1 ELSE 2 * v[i - 1]]
  <2>5. \A i \in 0 .. (n - 1) : w[i] = v[i]
    BY <2>3, <2>4
  <2>6. \A i \in 0 .. n : w[i] = IF i = 0 THEN 1 ELSE 2 * w[i - 1]
    <3> SUFFICES ASSUME NEW i \in 0 .. n, i # 0 PROVE w[i] = 2 * w[i - 1]
      OBVIOUS
    <3>1. w[i] = 2 * v[i - 1] /\ i - 1 \in 0 .. (n - 1)
      OBVIOUS
    <3> QED BY <3>1, <2>5
  <2>7. Is(w, n)
    BY <2>6
  <2> QED BY <2>7
<1>2. Is(g, L)
  BY <1>1
<1>3. DOMAIN g = 0 .. L /\ g[0] = 1 /\ \A i \in 1 .. L : g[i] = 2 * g[i - 1]
  <2> DEFINE step == [i \in 0 .. L |-> IF i = 0 THEN 1 ELSE 2 * g[i - 1]]
  <2>1. /\ DOMAIN step = 0 .. L
        /\ \A i \in 0 .. L : step[i] = IF i = 0 THEN 1 ELSE 2 * g[i - 1]
    OBVIOUS
  <2>2. g = step
    BY <1>2
  <2> HIDE DEF step, Is
  <2>3. DOMAIN g = 0 .. L /\ \A i \in 0 .. L : g[i] = IF i = 0 THEN 1 ELSE 2 * g[i - 1]
    BY <2>1, <2>2
  <2>4. 0 \in 0 .. L /\ \A i \in 1 .. L : i \in 0 .. L /\ i # 0
    OBVIOUS
  <2> QED BY <2>3, <2>4
<1> HIDE DEF Is
<1> DEFINE Good(k) == \E i \in 0 .. k : g[i] \in Nat /\ g[i] >= k /\ g[i] < 2 * k
           Miss == {k \in 1 .. L : ~Good(k)}
<1>4. Miss = {}
  <2> SUFFICES ASSUME Miss # {} PROVE FALSE
    OBVIOUS
  <2>1. PICK k \in Miss : \A j \in Miss : k <= j
    <3>1. Miss \in SUBSET Nat
      OBVIOUS
    <3> HIDE DEF Miss
    <3> QED BY <3>1, LeastElement
  <2>2. k # 1
    <3> SUFFICES ASSUME k = 1 PROVE FALSE
      OBVIOUS
    <3>1. Good(1)
      BY <1>3
    <3> QED BY <3>1
  <2>3. k - 1 \in 1 .. L /\ k - 1 \notin Miss /\ k \in 2 .. L
    <3>1. k \in 1 .. L
      BY <2>1
    <3> HIDE DEF Miss
    <3>2. k - 1 \in Miss => k <= k - 1
      BY <2>1
    <3> QED BY <2>2, <3>1, <3>2
  <2>4. PICK i \in 0 .. (k - 1) : g[i] \in Nat /\ g[i] >= k - 1 /\ g[i] < 2 * (k - 1)
    BY <2>3
  <2>5. CASE g[i] >= k
    <3>1. i \in 0 .. k /\ g[i] < 2 * k
      BY <2>3, <2>4
    <3> QED BY <2>4, <2>5, <3>1
  <2>6. CASE ~(g[i] >= k)
    <3>1. g[i] = k - 1
      BY <2>3, <2>4, <2>6
    <3>2. i + 1 \in 1 .. L /\ i + 1 \in 0 .. k /\ (i + 1) - 1 = i
      BY <2>3
    <3>3. g[i + 1] = 2 * g[i]
      BY <1>3, <3>2
    <3>4. g[i + 1] \in Nat /\ g[i + 1] >= k /\ g[i + 1] < 2 * k
      BY <2>3, <3>1, <3>3
    <3> QED BY <3>2, <3>4
  <2> QED BY <2>5, <2>6
<1>5. Good(L)
  <2>1. L \in 1 .. L
    OBVIOUS
  <2> HIDE DEF Good
  <2> QED BY <1>4, <2>1
<1> DEFINE Odd == {i \in 0 .. L : g[i] \notin Nat}
<1>6. Odd = {}
  <2> SUFFICES ASSUME Odd # {} PROVE FALSE
    OBVIOUS
  <2>1. PICK i \in Odd : \A j \in Odd : i <= j
    <3>1. Odd \in SUBSET Nat
      OBVIOUS
    <3> HIDE DEF Odd
    <3> QED BY <3>1, LeastElement
  <2>2. i \in 0 .. L /\ i # 0 /\ g[i] \notin Nat
    BY <1>3, <2>1
  <2>3. i \in 1 .. L /\ i - 1 \in 0 .. L /\ ~(i <= i - 1)
    BY <2>2
  <2>4. g[i - 1] \in Nat
    BY <2>1, <2>3
  <2>5. g[i] = 2 * g[i - 1]
    BY <1>3, <2>3
  <2> QED BY <2>2, <2>4, <2>5
<1> QED BY <1>3, <1>5, <1>6 DEF Range

-----------------------------------------------------------------------------
(* The sort: Before(s, i) is a strict total order                          *)

IsScores(s) == IsFiniteSet(DOMAIN s) /\ DOMAIN s \subseteq Nat /\ \A i \in DOMAIN s : s[i] \in Nat

LEMMA BeforeIn ==
  ASSUME NEW s, IsScores(s), NEW i \in DOMAIN s
  PROVE  /\ Before(s, i) \in SUBSET DOMAIN s /\ i \notin Before(s, i)
         /\ IsFiniteSet(Before(s, i)) /\ Position(s, i) \in Nat
         /\ SumOver(s, Before(s, i)) \in Nat
         /\ Position(s, i) = 0 <=> Before(s, i) = {}
<1>1. Before(s, i) \in SUBSET DOMAIN s /\ i \notin Before(s, i)
  BY DEF Before, IsScores
<1>2. IsFiniteSet(Before(s, i))
  BY <1>1, FS_Subset DEF IsScores
<1>3. Position(s, i) \in Nat /\ (Position(s, i) = 0 <=> Before(s, i) = {})
  BY <1>2, FS_CardinalityType, FS_EmptySet DEF Position
<1>4. SumOver(s, Before(s, i)) \in Nat
  <2>1. \A x \in Before(s, i) : s[x] \in Nat
    BY <1>1 DEF IsScores
  <2> QED BY <1>2, <2>1, SumType
<1> QED BY <1>1, <1>2, <1>3, <1>4

LEMMA BeforeOrder ==
  ASSUME NEW s, IsScores(s), NEW i \in DOMAIN s, NEW j \in DOMAIN s
  PROVE  /\ j \in Before(s, i) => /\ Before(s, j) \cup {j} \in SUBSET Before(s, i)
                                  /\ Position(s, j) < Position(s, i)
                                  /\ s[j] >= s[i]
         /\ i # j => i \in Before(s, j) \/ j \in Before(s, i)
<1>0. i \in Nat /\ j \in Nat /\ s[i] \in Nat /\ s[j] \in Nat
  BY DEF IsScores
<1>1. ASSUME j \in Before(s, i)
      PROVE  /\ Before(s, j) \cup {j} \in SUBSET Before(s, i)
             /\ Position(s, j) < Position(s, i)
             /\ s[j] >= s[i]
  <2>1. s[j] > s[i] \/ (s[j] = s[i] /\ j > i)
    BY <1>1 DEF Before
  <2>2. ASSUME NEW x \in Before(s, j) PROVE x \in Before(s, i)
    <3>1. x \in DOMAIN s /\ (s[x] > s[j] \/ (s[x] = s[j] /\ x > j))
      BY DEF Before
    <3>2. x \in Nat /\ s[x] \in Nat
      BY <3>1 DEF IsScores
    <3>3. s[x] > s[i] \/ (s[x] = s[i] /\ x > i)
      BY <1>0, <2>1, <3>1, <3>2
    <3> QED BY <3>1, <3>3 DEF Before
  <2>3. Before(s, j) \in SUBSET Before(s, i) /\ Before(s, j) # Before(s, i)
    BY <1>1, <2>2, BeforeIn
  <2>4. Position(s, j) <= Position(s, i) /\ Position(s, j) # Position(s, i)
    BY <2>3, BeforeIn, FS_Subset DEF Position
  <2>5. Position(s, j) \in Nat /\ Position(s, i) \in Nat
    BY BeforeIn
  <2>6. Position(s, j) < Position(s, i)
    BY <2>4, <2>5
  <2>7. s[j] >= s[i]
    BY <1>0, <2>1
  <2> QED BY <1>1, <2>2, <2>6, <2>7
<1>2. ASSUME i # j PROVE i \in Before(s, j) \/ j \in Before(s, i)
  <2>1. (s[i] > s[j] \/ (s[i] = s[j] /\ i > j)) \/ (s[j] > s[i] \/ (s[j] = s[i] /\ j > i))
    BY <1>0, <1>2
  <2> QED BY <2>1 DEF Before
<1> QED BY <1>1, <1>2

\* What comes before one of the first n comes before n.
LEMMA BeforeCut ==
  ASSUME NEW s, IsScores(s), NEW i \in DOMAIN s, NEW n \in Nat, Position(s, i) < n
  PROVE  {j \in Before(s, i) : Position(s, j) < n} = Before(s, i)
<1>1. ASSUME NEW j \in Before(s, i) PROVE Position(s, j) < n
  <2>1. j \in DOMAIN s
    BY BeforeIn
  <2>2. Position(s, j) < Position(s, i)
    BY <2>1, BeforeOrder
  <2>3. Position(s, j) \in Nat /\ Position(s, i) \in Nat
    BY <2>1, BeforeIn
  <2> QED BY <2>2, <2>3
<1> QED BY <1>1

\* The elements with a score come before those without one, and have all of the mass.
LEMMA ZeroIsBehind ==
  ASSUME NEW s, IsScores(s), NEW i \in DOMAIN s, s[i] = 0
  PROVE  /\ \A j \in DOMAIN s : s[j] > 0 => j \in Before(s, i)
         /\ SumOver(s, Before(s, i)) = SumOver(s, DOMAIN s)
<1>1. \A j \in DOMAIN s : s[j] > 0 => j \in Before(s, i)
  BY DEF Before, IsScores
<1>2. \A j \in DOMAIN s \ Before(s, i) : s[j] = 0
  <2> SUFFICES ASSUME NEW j \in DOMAIN s, j \notin Before(s, i) PROVE s[j] = 0
    OBVIOUS
  <2>1. s[j] \in Nat
    BY DEF IsScores
  <2> QED BY <1>1, <2>1
<1>3. Before(s, i) \in SUBSET DOMAIN s
  BY BeforeIn
<1> QED BY <1>1, <1>2, <1>3, SumSubset DEF IsScores

-----------------------------------------------------------------------------
(* What fused_top_p_kernel keeps of sorted scores that are padded behind   *)
(* place n                                                                 *)

Keep(s, n) == {i \in 0 .. (n - 1) : /\ Position(s, i) < n
                                    /\ WithinP(s, n, i) \/ Position(s, i) = 0}

IsPadded(s, n) == /\ IsScores(s) /\ n \in Nat /\ 0 .. (n - 1) \subseteq DOMAIN s
                  /\ \A i \in DOMAIN s \ 0 .. (n - 1) : s[i] = 0

\* The kept blocks whatever the padding: those that have a score and before which
\* the mass is at most p.
Nucleus(s) == {i \in DOMAIN s : /\ s[i] > 0
                                /\ SumOver(s, Before(s, i)) * PDen <= PNum * SumOver(s, DOMAIN s)}

LEMMA PFacts == PNum \in Nat /\ PDen \in Nat /\ PDen # 0 /\ PNum < PDen
BY SelectionAssumption

LEMMA TotalType ==
  ASSUME NEW s, IsScores(s)
  PROVE  SumOver(s, DOMAIN s) \in Nat
BY SumType DEF IsScores

LEMMA KeepIsNucleus ==
  ASSUME NEW s, NEW n, IsPadded(s, n), SumOver(s, DOMAIN s) > 0
  PROVE  Keep(s, n) = Nucleus(s)
<1> DEFINE total == SumOver(s, DOMAIN s)
<1>0. IsScores(s) /\ n \in Nat /\ 0 .. (n - 1) \subseteq DOMAIN s
  BY DEF IsPadded
<1>1. total \in Nat /\ total > 0
  BY <1>0, TotalType
<1>2. ~(total * PDen <= PNum * total)
  <2>1. total * PDen > PNum * total
    BY <1>1, PFacts, AllExceedsP
  <2>2. total * PDen \in Nat /\ PNum * total \in Nat
    BY <1>1, PFacts
  <2> QED BY <2>1, <2>2
<1>3. ASSUME NEW i \in DOMAIN s, s[i] > 0 PROVE i \in 0 .. (n - 1) /\ Position(s, i) < n
  <2>1. i \in 0 .. (n - 1)
    BY <1>3 DEF IsPadded
  <2>2. ASSUME NEW j \in Before(s, i) PROVE j \in (0 .. (n - 1)) \ {i}
    <3>1. j \in DOMAIN s /\ j # i /\ s[j] >= s[i]
      BY <1>0, BeforeIn, BeforeOrder
    <3>2. s[j] \in Nat /\ s[i] \in Nat
      BY <1>0, <3>1 DEF IsScores
    <3>3. s[j] # 0
      BY <1>3, <3>1, <3>2
    <3> QED BY <3>1, <3>3 DEF IsPadded
  <2>3. IsFiniteSet(0 .. (n - 1)) /\ Cardinality(0 .. (n - 1)) = n
    BY <1>0, IntervalCount
  <2>4. IsFiniteSet((0 .. (n - 1)) \ {i}) /\ Cardinality((0 .. (n - 1)) \ {i}) = n - 1
    BY <2>1, <2>3, FS_RemoveElement
  <2>5. Before(s, i) \in SUBSET ((0 .. (n - 1)) \ {i})
    BY <2>2
  <2>6. Position(s, i) <= n - 1
    BY <2>4, <2>5, FS_Subset DEF Position
  <2>7. Position(s, i) \in Nat
    BY <1>0, BeforeIn
  <2> QED BY <1>0, <2>1, <2>6, <2>7
<1>4. ASSUME NEW i \in DOMAIN s, Position(s, i) < n
      PROVE  WithinP(s, n, i) <=> SumOver(s, Before(s, i)) * PDen <= PNum * total
  <2>1. {j \in Before(s, i) : Position(s, j) < n} = Before(s, i)
    BY <1>0, <1>4, BeforeCut
  <2> QED BY <1>1, <2>1 DEF WithinP
<1> HIDE DEF total
<1>5. ASSUME NEW i \in Keep(s, n) PROVE i \in Nucleus(s)
  <2>1. i \in DOMAIN s /\ Position(s, i) < n /\ (WithinP(s, n, i) \/ Position(s, i) = 0)
    BY <1>0 DEF Keep
  <2>2. SumOver(s, Before(s, i)) * PDen <= PNum * total
    <3>1. CASE WithinP(s, n, i)
      BY <1>4, <2>1, <3>1
    <3>2. CASE Position(s, i) = 0
      <4>1. Before(s, i) = {} /\ IsFiniteSet(Before(s, i))
        BY <1>0, <2>1, <3>2, BeforeIn
      <4>2. SumOver(s, Before(s, i)) = 0
        BY <4>1, SumPick
      <4>3. PNum * total \in Nat /\ 0 * PDen = 0
        BY <1>1, PFacts
      <4> QED BY <4>2, <4>3
    <3> QED BY <2>1, <3>1, <3>2
  <2>3. s[i] \in Nat
    BY <1>0, <2>1 DEF IsScores
  <2>4. s[i] # 0
    <3> SUFFICES ASSUME s[i] = 0 PROVE FALSE
      OBVIOUS
    <3>1. SumOver(s, Before(s, i)) = total
      BY <1>0, <2>1, ZeroIsBehind DEF total
    <3> QED BY <1>2, <2>2, <3>1
  <2>5. s[i] > 0
    BY <2>3, <2>4
  <2> QED BY <2>1, <2>2, <2>5 DEF Nucleus, total
<1>6. ASSUME NEW i \in Nucleus(s) PROVE i \in Keep(s, n)
  <2>1. i \in DOMAIN s /\ s[i] > 0 /\ SumOver(s, Before(s, i)) * PDen <= PNum * total
    BY DEF Nucleus, total
  <2>2. i \in 0 .. (n - 1) /\ Position(s, i) < n
    BY <1>3, <2>1
  <2>3. WithinP(s, n, i)
    BY <1>4, <2>1, <2>2
  <2> QED BY <2>2, <2>3 DEF Keep
<1> QED BY <1>5, <1>6

\* What the nucleus is for: it has more than p of the mass, it is closed under
\* higher scores, and without the last of it the mass would be at most p.
LEMMA NucleusFacts ==
  ASSUME NEW s, IsScores(s), SumOver(s, DOMAIN s) > 0
  PROVE  /\ SumOver(s, Nucleus(s)) * PDen > PNum * SumOver(s, DOMAIN s)
         /\ \A i \in Nucleus(s), j \in DOMAIN s \ Nucleus(s) : s[i] >= s[j]
         /\ \E i \in Nucleus(s) :
              /\ \A j \in Nucleus(s) : s[j] >= s[i]
              /\ SumOver(s, Nucleus(s) \ {i}) * PDen <= PNum * SumOver(s, DOMAIN s)
<1> DEFINE total == SumOver(s, DOMAIN s)
           K == Nucleus(s)
           Fits(i) == SumOver(s, Before(s, i)) * PDen <= PNum * total
<1>0. /\ IsFiniteSet(DOMAIN s) /\ \A i \in DOMAIN s : s[i] \in Nat
      /\ K \in SUBSET DOMAIN s /\ IsFiniteSet(K)
      /\ \A i \in DOMAIN s : i \in K <=> s[i] > 0 /\ Fits(i)
  <2>1. K \in SUBSET DOMAIN s /\ \A i \in DOMAIN s : i \in K <=> s[i] > 0 /\ Fits(i)
    BY DEF Nucleus
  <2> HIDE DEF K
  <2> QED BY <2>1, FS_Subset DEF IsScores
<1>1. total \in Nat /\ total > 0 /\ PNum * total \in Nat
  BY TotalType, PFacts
<1>2. ASSUME NEW t \in SUBSET DOMAIN s
      PROVE  IsFiniteSet(t) /\ SumOver(s, t) \in Nat /\ SumOver(s, t) * PDen \in Nat
  <2>1. IsFiniteSet(t)
    BY <1>0, FS_Subset
  <2>2. SumOver(s, t) \in Nat
    BY <1>0, <2>1, SumType
  <2> QED BY <2>1, <2>2, PFacts
\* More of the scores have more of the mass.
<1>3. ASSUME NEW t \in SUBSET DOMAIN s, NEW u \in SUBSET t
      PROVE  SumOver(s, u) * PDen <= SumOver(s, t) * PDen
  <2>1. SumOver(s, u) <= SumOver(s, t)
    BY <1>0, <1>2, SumSubset
  <2> QED BY <1>2, <2>1, PFacts, TimesMonotone
<1> HIDE DEF K, total
<1>4. SumOver(s, K) * PDen > PNum * total
  <2> DEFINE P == {Position(s, i) : i \in {j \in DOMAIN s : s[j] > 0 /\ j \notin K}}
  <2>1. CASE P = {}
    <3>1. \A j \in DOMAIN s \ K : s[j] = 0
      BY <1>0, <2>1
    <3>2. SumOver(s, K) = total
      BY <1>0, <3>1, SumSubset DEF total
    <3> QED BY <1>1, <3>2, PFacts, AllExceedsP
  <2>2. CASE P # {}
    <3>1. P \in SUBSET Nat
      BY BeforeIn
    <3>2. PICK x \in P : \A y \in P : x <= y
      BY <2>2, <3>1, LeastElement
    <3>3. PICK i \in DOMAIN s : s[i] > 0 /\ i \notin K /\ Position(s, i) = x
      BY <3>2
    <3>4. ASSUME NEW j \in Before(s, i) PROVE j \in K
      <4>1. j \in DOMAIN s /\ s[j] >= s[i] /\ Position(s, j) < Position(s, i)
        BY BeforeIn, BeforeOrder
      <4>2. s[j] \in Nat /\ s[i] \in Nat /\ Position(s, j) \in Nat /\ Position(s, i) \in Nat
        BY <1>0, <4>1, BeforeIn
      <4>3. s[j] > 0
        BY <3>3, <4>1, <4>2
      <4>4. j \notin K => Position(s, j) \in P
        BY <4>1, <4>3
      <4> HIDE DEF P
      <4>5. j \notin K => x <= Position(s, j)
        BY <3>2, <4>4
      <4> QED BY <3>3, <4>1, <4>2, <4>5
    <3>5. SumOver(s, Before(s, i)) * PDen <= SumOver(s, K) * PDen
      BY <1>0, <1>3, <3>4
    <3>6. ~Fits(i)
      BY <1>0, <3>3
    <3>7. Before(s, i) \in SUBSET DOMAIN s
      BY BeforeIn
    <3>8. SumOver(s, Before(s, i)) * PDen \in Nat /\ SumOver(s, K) * PDen \in Nat
      BY <1>0, <1>2, <3>7
    <3> QED BY <1>1, <3>5, <3>6, <3>8
  <2> QED BY <2>1, <2>2
<1>5. ASSUME NEW i \in K, NEW j \in DOMAIN s \ K PROVE s[i] >= s[j]
  <2>1. i \in DOMAIN s /\ Fits(i)
    BY <1>0
  <2>2. s[i] \in Nat /\ s[j] \in Nat
    BY <1>0, <2>1
  <2> SUFFICES ASSUME s[j] > s[i] PROVE FALSE
    BY <2>2
  <2>3. j \in Before(s, i)
    BY DEF Before
  <2>4. Before(s, j) \in SUBSET Before(s, i) /\ Before(s, i) \in SUBSET DOMAIN s
    BY <2>1, <2>3, BeforeOrder, BeforeIn
  <2>5. SumOver(s, Before(s, j)) * PDen <= SumOver(s, Before(s, i)) * PDen
    BY <1>3, <2>4
  <2>6. Before(s, j) \in SUBSET DOMAIN s
    BY <2>4
  <2>7. SumOver(s, Before(s, j)) * PDen \in Nat /\ SumOver(s, Before(s, i)) * PDen \in Nat
    BY <1>2, <2>4, <2>6
  <2>8. Fits(j)
    BY <1>1, <2>1, <2>5, <2>7
  <2>9. s[j] > 0
    BY <2>2
  <2> QED BY <1>0, <2>8, <2>9
<1>6. \E i \in K : /\ \A j \in K : s[j] >= s[i]
                   /\ SumOver(s, K \ {i}) * PDen <= PNum * total
  <2>1. K # {}
    <3> SUFFICES ASSUME K = {} PROVE FALSE
      OBVIOUS
    <3>1. SumOver(s, K) = 0
      BY <1>0, SumPick
    <3>2. 0 * PDen = 0
      BY PFacts
    <3> QED BY <1>1, <1>4, <3>1, <3>2
  \* The last one in the sort, since the places are bounded.
  <2> DEFINE Q == {x \in Nat : \E i \in K : Position(s, i) + x = Cardinality(DOMAIN s)}
  <2>2. Q # {}
    <3>1. PICK i \in K : TRUE
      BY <2>1
    <3>2. i \in DOMAIN s
      BY <1>0
    <3>3. Position(s, i) <= Cardinality(DOMAIN s)
      BY <1>0, <3>2, BeforeIn, FS_Subset DEF Position
    <3>4. Position(s, i) \in Nat /\ Cardinality(DOMAIN s) \in Nat
      BY <1>0, <3>2, BeforeIn, FS_CardinalityType
    <3>5. Cardinality(DOMAIN s) - Position(s, i) \in Nat
      BY <3>3, <3>4
    <3>6. Position(s, i) + (Cardinality(DOMAIN s) - Position(s, i)) = Cardinality(DOMAIN s)
      BY <3>4
    <3> QED BY <3>5, <3>6
  <2>3. PICK x \in Q : \A y \in Q : x <= y
    <3>1. Q \in SUBSET Nat
      OBVIOUS
    <3> HIDE DEF Q
    <3> QED BY <2>2, <3>1, LeastElement
  <2>4. PICK i \in K : Position(s, i) + x = Cardinality(DOMAIN s)
    BY <2>3
  <2>5. i \in DOMAIN s /\ Fits(i)
    BY <1>0
  <2>6. ASSUME NEW j \in K, j # i PROVE j \in Before(s, i)
    <3>1. j \in DOMAIN s
      BY <1>0
    <3> SUFFICES ASSUME i \in Before(s, j) PROVE FALSE
      BY <2>5, <2>6, <3>1, BeforeOrder
    <3>2. Position(s, i) < Position(s, j)
      BY <2>5, <3>1, BeforeOrder
    <3>3. Position(s, j) <= Cardinality(DOMAIN s)
      BY <1>0, <3>1, BeforeIn, FS_Subset DEF Position
    <3>4. /\ Position(s, i) \in Nat /\ Position(s, j) \in Nat
          /\ Cardinality(DOMAIN s) \in Nat /\ x \in Nat
      BY <1>0, <2>3, <2>5, <3>1, BeforeIn, FS_CardinalityType
    <3> DEFINE y == Cardinality(DOMAIN s) - Position(s, j)
    <3>5. y \in Nat /\ Position(s, j) + y = Cardinality(DOMAIN s) /\ y < x
      BY <2>4, <3>2, <3>3, <3>4
    <3>6. y \in Q
      BY <3>5
    <3> HIDE DEF y, Q
    <3>7. x <= y
      BY <2>3, <3>6
    <3> QED BY <3>4, <3>5, <3>7
  <2>7. \A j \in K : s[j] >= s[i]
    <3> SUFFICES ASSUME NEW j \in K PROVE s[j] >= s[i]
      OBVIOUS
    <3>1. j \in DOMAIN s /\ s[i] \in Nat
      BY <1>0, <2>5
    <3>2. CASE j = i
      BY <3>1, <3>2
    <3>3. CASE j # i
      BY <2>5, <2>6, <3>1, <3>3, BeforeOrder
    <3> QED BY <3>2, <3>3
  <2>8. K \ {i} \in SUBSET Before(s, i) /\ Before(s, i) \in SUBSET DOMAIN s
    BY <2>5, <2>6, BeforeIn
  <2>9. SumOver(s, K \ {i}) * PDen <= SumOver(s, Before(s, i)) * PDen
    BY <1>3, <2>8
  <2>10. SumOver(s, K \ {i}) * PDen \in Nat /\ SumOver(s, Before(s, i)) * PDen \in Nat
    <3>1. K \ {i} \in SUBSET DOMAIN s
      BY <1>0
    <3> QED BY <1>2, <2>8, <3>1
  <2>11. SumOver(s, K \ {i}) * PDen <= PNum * total
    BY <1>1, <2>5, <2>9, <2>10
  <2> QED BY <2>7, <2>11
<1> QED BY <1>4, <1>5, <1>6 DEF K, total

\* The blocks of native_imp.py, of unpadded scores: those whose mass together with
\* what is before them is at most p, and the first.
NativeKeep(s) ==
  {i \in DOMAIN s : \/ SumOver(s, Before(s, i) \cup {i}) * PDen <= PNum * SumOver(s, DOMAIN s)
                    \/ Before(s, i) = {}}

LEMMA NativeFacts ==
  ASSUME NEW s, IsScores(s), SumOver(s, DOMAIN s) > 0
  PROVE  /\ NativeKeep(s) \in SUBSET Nucleus(s)
         /\ \A i, j \in Nucleus(s) \ NativeKeep(s) : i = j
<1> DEFINE total == SumOver(s, DOMAIN s)
<1>0. IsFiniteSet(DOMAIN s) /\ \A i \in DOMAIN s : s[i] \in Nat
  BY DEF IsScores
<1>1. total \in Nat /\ total > 0 /\ PNum * total \in Nat
  BY TotalType, PFacts
<1>2. ASSUME NEW t \in SUBSET DOMAIN s
      PROVE  SumOver(s, t) \in Nat /\ SumOver(s, t) * PDen \in Nat /\ IsFiniteSet(t)
  <2>1. IsFiniteSet(t)
    BY <1>0, FS_Subset
  <2>2. SumOver(s, t) \in Nat
    BY <1>0, <2>1, SumType
  <2> QED BY <2>1, <2>2, PFacts
<1>3. ASSUME NEW t \in SUBSET DOMAIN s, NEW u \in SUBSET t
      PROVE  SumOver(s, u) <= SumOver(s, t) /\ SumOver(s, u) * PDen <= SumOver(s, t) * PDen
  <2>1. SumOver(s, u) <= SumOver(s, t)
    BY <1>0, <1>2, SumSubset
  <2> QED BY <1>2, <2>1, PFacts, TimesMonotone
<1>4. ASSUME NEW i \in DOMAIN s
      PROVE  Before(s, i) \cup {i} \in SUBSET DOMAIN s /\ Before(s, i) \in SUBSET DOMAIN s
  BY BeforeIn
<1>5. ASSUME NEW i \in NativeKeep(s) PROVE i \in Nucleus(s)
  <2>1. i \in DOMAIN s /\ (\/ SumOver(s, Before(s, i) \cup {i}) * PDen <= PNum * total
                           \/ Before(s, i) = {})
    BY DEF NativeKeep
  <2>2. SumOver(s, Before(s, i)) * PDen <= SumOver(s, Before(s, i) \cup {i}) * PDen
    BY <1>3, <1>4, <2>1
  <2>3. /\ SumOver(s, Before(s, i)) * PDen \in Nat
        /\ SumOver(s, Before(s, i) \cup {i}) * PDen \in Nat
    BY <1>2, <1>4, <2>1
  <2>4. SumOver(s, Before(s, i)) * PDen <= PNum * total
    <3>1. CASE Before(s, i) = {}
      <4>1. SumOver(s, Before(s, i)) = 0
        BY <1>2, <1>4, <2>1, <3>1, SumPick
      <4>2. 0 * PDen = 0
        BY PFacts
      <4> QED BY <1>1, <4>1, <4>2
    <3>2. CASE Before(s, i) # {}
      BY <1>1, <2>1, <2>2, <2>3, <3>2
    <3> QED BY <3>1, <3>2
  <2>5. s[i] # 0
    <3> SUFFICES ASSUME s[i] = 0 PROVE FALSE
      OBVIOUS
    <3>1. SumOver(s, Before(s, i)) = total
      BY <2>1, ZeroIsBehind
    <3>2. total * PDen > PNum * total /\ total * PDen \in Nat
      BY <1>1, PFacts, AllExceedsP
    <3> HIDE DEF total
    <3> QED BY <1>1, <2>4, <3>1, <3>2
  <2>6. s[i] > 0
    BY <1>0, <2>1, <2>5
  <2> QED BY <2>1, <2>4, <2>6 DEF Nucleus
<1>6. ASSUME NEW i \in Nucleus(s) \ NativeKeep(s), NEW j \in Nucleus(s) \ NativeKeep(s),
             j \in Before(s, i)
      PROVE  FALSE
  <2>1. i \in DOMAIN s /\ j \in DOMAIN s /\ SumOver(s, Before(s, i)) * PDen <= PNum * total
    BY DEF Nucleus
  <2>2. Before(s, j) \cup {j} \in SUBSET Before(s, i)
    BY <1>6, <2>1, BeforeOrder
  <2>3. SumOver(s, Before(s, j) \cup {j}) * PDen <= SumOver(s, Before(s, i)) * PDen
    BY <1>3, <1>4, <2>1, <2>2
  <2>4. /\ SumOver(s, Before(s, i)) * PDen \in Nat
        /\ SumOver(s, Before(s, j) \cup {j}) * PDen \in Nat
    BY <1>2, <1>4, <2>1
  <2>5. SumOver(s, Before(s, j) \cup {j}) * PDen <= PNum * total
    BY <1>1, <2>1, <2>3, <2>4
  <2> QED BY <2>1, <2>5 DEF NativeKeep
<1>7. ASSUME NEW i \in Nucleus(s) \ NativeKeep(s), NEW j \in Nucleus(s) \ NativeKeep(s)
      PROVE  i = j
  <2>1. i \in DOMAIN s /\ j \in DOMAIN s
    BY DEF Nucleus
  <2> QED BY <1>6, <2>1, BeforeOrder
<1> QED BY <1>5, <1>7

\* The padding of the sort does not matter.
LEMMA PaddingIrrelevant ==
  ASSUME NEW s, NEW n, IsPadded(s, n), NEW u, DOMAIN u = 0 .. (n - 1),
         \A i \in 0 .. (n - 1) : u[i] = s[i]
  PROVE  /\ IsScores(u)
         /\ SumOver(u, DOMAIN u) = SumOver(s, DOMAIN s)
         /\ Nucleus(u) = Nucleus(s)
<1>0. /\ IsScores(s) /\ n \in Nat /\ DOMAIN u \in SUBSET DOMAIN s
      /\ \A i \in DOMAIN u : u[i] = s[i] /\ s[i] \in Nat
      /\ \A i \in DOMAIN s : s[i] # 0 => i \in DOMAIN u
  BY DEF IsPadded, IsScores
<1>1. IsScores(u)
  BY <1>0, IntervalCount DEF IsScores
<1>2. ASSUME NEW t \in SUBSET DOMAIN u PROVE SumOver(u, t) = SumOver(s, t)
  <2>1. IsFiniteSet(t) /\ \A i \in t : u[i] = s[i]
    BY <1>0, <1>1, FS_Subset DEF IsScores
  <2> QED BY <2>1, SumCong
<1>3. SumOver(u, DOMAIN u) = SumOver(s, DOMAIN s)
  <2>1. SumOver(s, DOMAIN u) = SumOver(s, DOMAIN s)
    BY <1>0, SumSubset DEF IsScores
  <2> QED BY <1>2, <2>1
<1>4. ASSUME NEW i \in DOMAIN u, s[i] > 0 PROVE Before(u, i) = Before(s, i)
  <2>1. ASSUME NEW j \in DOMAIN s PROVE j \in Before(u, i) <=> j \in Before(s, i)
    <3>0. i \in DOMAIN s /\ u[i] = s[i] /\ s[i] \in Nat /\ s[j] \in Nat
      BY <1>0 DEF IsScores
    <3>1. CASE j \in DOMAIN u
      <4>1. u[j] = s[j]
        BY <1>0, <3>1
      <4> QED BY <3>0, <3>1, <4>1 DEF Before
    <3>2. CASE j \notin DOMAIN u
      <4>1. s[j] = 0
        BY <1>0, <3>2
      <4>2. ~(s[j] > s[i]) /\ s[j] # s[i]
        BY <1>4, <3>0, <4>1
      <4> QED BY <3>2, <4>2 DEF Before
    <3> QED BY <3>1, <3>2
  <2>2. Before(u, i) \in SUBSET DOMAIN s /\ Before(s, i) \in SUBSET DOMAIN s
    BY <1>0 DEF Before
  <2> QED BY <2>1, <2>2
<1>5. ASSUME NEW i PROVE i \in Nucleus(u) <=> i \in Nucleus(s)
  <2>1. CASE i \in DOMAIN u /\ s[i] > 0
    <3>1. Before(u, i) = Before(s, i) /\ Before(u, i) \in SUBSET DOMAIN u
      BY <1>4, <2>1 DEF Before
    <3>2. SumOver(u, Before(u, i)) = SumOver(s, Before(s, i))
      BY <1>2, <3>1
    <3>3. i \in DOMAIN s /\ u[i] = s[i]
      BY <1>0, <2>1
    <3> QED BY <1>3, <2>1, <3>2, <3>3 DEF Nucleus
  <2>2. CASE ~(i \in DOMAIN u /\ s[i] > 0)
    <3>1. i \notin Nucleus(u)
      BY <1>0, <2>2 DEF Nucleus
    <3>2. i \notin Nucleus(s)
      <4> SUFFICES ASSUME i \in DOMAIN s, s[i] > 0 PROVE FALSE
        BY DEF Nucleus
      <4>1. s[i] \in Nat /\ s[i] # 0
        BY <1>0 DEF IsScores
      <4> QED BY <1>0, <2>2, <4>1
    <3> QED BY <3>1, <3>2
  <2> QED BY <2>1, <2>2
<1> QED BY <1>1, <1>3, <1>5

-----------------------------------------------------------------------------
(* The selection of a request in a state                                   *)

\* The blocks for which part has a score.
BlockIds == 0 .. (NumBlocks(Max(SeqLens)) - 1)

\* The scores of all heads for the blocks of r.
BlockTotals(r) == [i \in Blocks(seqLen[r]) |-> TotalScore(r, i)]
TotalMass(r)   == SumOver(BlockTotals(r), Blocks(seqLen[r]))

Shape ==
  /\ config \in Configs /\ seqLen \in [Requests -> SeqLens]
  /\ DOMAIN b = Ranks /\ DOMAIN m = Ranks /\ DOMAIN tokenMask = Ranks /\ DOMAIN newLen = Ranks
  /\ \A k \in Ranks, r \in Requests : /\ DOMAIN part[k][r] = BlockIds
                                      /\ \A i \in BlockIds : part[k][r][i] \in Nat

LEMMA RanksFacts ==
  ASSUME Shape
  PROVE  /\ 0 \in Ranks /\ IsFiniteSet(Ranks)
         /\ Cardinality(Ranks) > 1 \/ Ranks = {0}
<1>1. config.tpSize \in Nat \ {0}
  BY SelectionAssumption DEF Shape
<1>2. IsFiniteSet(Ranks) /\ Cardinality(Ranks) = config.tpSize
  BY <1>1, IntervalCount DEF Ranks
<1>3. 0 \in Ranks /\ (config.tpSize = 1 => Ranks = {0})
  BY <1>1 DEF Ranks
<1> QED BY <1>1, <1>2, <1>3

LEMMA LenFacts ==
  ASSUME Shape, NEW r \in Requests
  PROVE  /\ seqLen[r] \in Nat \ {0}
         /\ NumBlocks(seqLen[r]) \in Nat \ {0}
         /\ Blocks(seqLen[r]) \subseteq BlockIds
<1>1. seqLen[r] \in SeqLens /\ seqLen[r] \in Nat \ {0}
  BY SelectionAssumption DEF Shape
<1>2. Max(SeqLens) \in Nat /\ seqLen[r] <= Max(SeqLens)
  BY <1>1, SelectionAssumption, MaxFacts
<1>3. /\ NumBlocks(seqLen[r]) \in Nat \ {0} /\ NumBlocks(Max(SeqLens)) \in Nat
      /\ NumBlocks(seqLen[r]) <= NumBlocks(Max(SeqLens))
  BY <1>1, <1>2, NumBlocksFacts
<1> QED BY <1>1, <1>3 DEF Blocks, BlockIds

LEMMA TotalScoreType ==
  ASSUME Shape, NEW r \in Requests, NEW i \in BlockIds
  PROVE  TotalScore(r, i) \in Nat
<1> DEFINE f == [k \in Ranks |-> part[k][r][i]]
<1>1. \A k \in Ranks : f[k] \in Nat
  BY DEF Shape
<1>2. IsFiniteSet(Ranks)
  BY RanksFacts
<1> HIDE DEF f
<1>3. SumOver(f, Ranks) \in Nat
  BY <1>1, <1>2, SumType
<1> QED BY <1>3 DEF TotalScore, f

\* triton.next_power_of_2: every prefill has room in the padded row.
LEMMA PaddedLenFacts ==
  ASSUME Shape, NEW r \in Prefills
  PROVE  PaddedLen \in Nat /\ NumBlocks(seqLen[r]) <= PaddedLen
<1> DEFINE lens == {NumBlocks(seqLen[x]) : x \in Prefills}
           L == Max(lens)
           g == CHOOSE h : h = [i \in 0 .. L |-> IF i = 0 THEN 1 ELSE 2 * h[i - 1]]
<1>1. Prefills \in SUBSET Requests /\ IsFiniteSet(SeqLens)
  BY SelectionAssumption DEF Prefills
<1>2. lens \in SUBSET Nat /\ NumBlocks(seqLen[r]) \in lens /\ 0 \notin lens
  BY <1>1, LenFacts
<1>3. IsFiniteSet(lens)
  <2> DEFINE M == NumBlocks(Max(SeqLens))
  <2>1. M \in Nat /\ lens \in SUBSET (0 .. M)
    <3>1. Max(SeqLens) \in Nat /\ \A x \in Requests : seqLen[x] \in Nat /\ seqLen[x] <= Max(SeqLens)
      <4>1. SeqLens \in SUBSET Nat /\ IsFiniteSet(SeqLens) /\ \A x \in Requests : seqLen[x] \in SeqLens
        BY SelectionAssumption DEF Shape
      <4>2. SeqLens # {}
        BY <1>1, <4>1
      <4> QED BY <4>1, <4>2, MaxFacts
    <3>2. M \in Nat /\ \A x \in Requests : NumBlocks(seqLen[x]) \in Nat /\ NumBlocks(seqLen[x]) <= M
      BY <3>1, NumBlocksFacts
    <3> HIDE DEF M
    <3> QED BY <1>1, <3>2
  <2>2. IsFiniteSet(0 .. M)
    BY <2>1, FS_Interval
  <2> QED BY <2>1, <2>2, FS_Subset
<1>4. L \in Nat \ {0} /\ NumBlocks(seqLen[r]) <= L
  <2> HIDE DEF lens
  <2>1. Max(lens) \in lens /\ \A y \in lens : y <= Max(lens)
    BY <1>2, <1>3, MaxFacts
  <2> QED BY <1>2, <2>1
<1> HIDE DEF L
<1>5. Range(g) \subseteq Nat /\ \E n \in Range(g) : n >= L /\ n < 2 * L
  BY <1>4, NextPower
<1>6. PaddedLen = CHOOSE n \in Range(g) : n >= L /\ n < 2 * L
  BY DEF PaddedLen, L
<1> HIDE DEF g
<1>7. PaddedLen \in Range(g) /\ PaddedLen >= L /\ PaddedLen < 2 * L
  BY <1>5, <1>6
<1>8. PaddedLen \in Nat
  BY <1>5, <1>7
<1>9. NumBlocks(seqLen[r]) \in Nat
  BY <1>1, LenFacts
<1> QED BY <1>4, <1>7, <1>8, <1>9

\* fused_top_p_kernel on the summed scores keeps the nucleus of them.
LEMMA TopPIsNucleus ==
  ASSUME Shape, NEW r \in Prefills, NEW score,
         \A i \in BlockIds : score[i] = TotalScore(r, i), TotalMass(r) > 0
  PROVE  TopP(score, seqLen[r]) = Nucleus(BlockTotals(r))
<1> DEFINE n == NumBlocks(seqLen[r])
           s == Padded(score, seqLen[r])
           u == BlockTotals(r)
<1>1. r \in Requests
  BY DEF Prefills
<1>2. n \in Nat /\ Blocks(seqLen[r]) = 0 .. (n - 1) /\ Blocks(seqLen[r]) \subseteq BlockIds
  BY <1>1, LenFacts DEF Blocks
<1>3. PaddedLen \in Nat /\ n <= PaddedLen
  BY PaddedLenFacts
<1> HIDE DEF n
<1>4. ASSUME NEW i \in 0 .. (n - 1) PROVE score[i] = TotalScore(r, i) /\ score[i] \in Nat
  BY <1>1, <1>2, TotalScoreType
<1>5. /\ DOMAIN s = 0 .. (PaddedLen - 1)
      /\ \A i \in DOMAIN s : s[i] = IF i \in 0 .. (n - 1) THEN score[i] ELSE 0
  BY <1>2 DEF Padded
<1>6. DOMAIN u = 0 .. (n - 1) /\ \A i \in 0 .. (n - 1) : u[i] = TotalScore(r, i)
  BY <1>2 DEF BlockTotals
<1>7. TopP(score, seqLen[r]) = Keep(s, n)
  BY <1>2 DEF TopP, Keep, n
<1> HIDE DEF s, u
<1>8. IsPadded(s, n)
  <2>1. IsFiniteSet(DOMAIN s) /\ DOMAIN s \subseteq Nat
    BY <1>3, <1>5, IntervalCount
  <2>2. \A i \in DOMAIN s : s[i] \in Nat
    BY <1>4, <1>5
  <2>3. 0 .. (n - 1) \subseteq DOMAIN s
    BY <1>2, <1>3, <1>5
  <2>4. \A i \in DOMAIN s \ 0 .. (n - 1) : s[i] = 0
    BY <1>5
  <2> QED BY <1>2, <2>1, <2>2, <2>3, <2>4 DEF IsPadded, IsScores
<1>9. \A i \in 0 .. (n - 1) : u[i] = s[i]
  <2> SUFFICES ASSUME NEW i \in 0 .. (n - 1) PROVE u[i] = s[i]
    OBVIOUS
  <2>1. i \in DOMAIN s
    BY <1>8 DEF IsPadded
  <2> QED BY <1>4, <1>5, <1>6, <2>1
<1>10. SumOver(u, DOMAIN u) = SumOver(s, DOMAIN s) /\ Nucleus(u) = Nucleus(s)
  BY <1>6, <1>8, <1>9, PaddingIrrelevant
<1>11. SumOver(u, DOMAIN u) > 0
  BY <1>2, <1>6 DEF TotalMass, u
<1>12. Keep(s, n) = Nucleus(s)
  BY <1>8, <1>10, <1>11, KeepIsNucleus
<1> QED BY <1>7, <1>10, <1>12 DEF u

\* The masses of the properties are sums of the scores of the request.
LEMMA MassIsSum ==
  ASSUME Shape, NEW r \in Requests
  PROVE  /\ IsScores(BlockTotals(r)) /\ DOMAIN BlockTotals(r) = Blocks(seqLen[r])
         /\ \A i \in Blocks(seqLen[r]) : BlockTotals(r)[i] = TotalScore(r, i)
         /\ \A S \in SUBSET Blocks(seqLen[r]) : Mass(r, S) = SumOver(BlockTotals(r), S)
<1> DEFINE u == BlockTotals(r)
           D == Blocks(seqLen[r])
<1>1. DOMAIN u = D /\ \A i \in D : u[i] = TotalScore(r, i)
  BY DEF BlockTotals
<1>2. IsFiniteSet(D) /\ D \subseteq Nat
  BY LenFacts, IntervalCount DEF Blocks
<1>3. \A i \in D : u[i] \in Nat
  BY <1>1, LenFacts, TotalScoreType
<1> HIDE DEF u
<1>4. ASSUME NEW S \in SUBSET D PROVE Mass(r, S) = SumOver(u, S)
  <2> DEFINE f == [i \in S |-> TotalScore(r, i)]
  <2>1. \A i \in S : f[i] = u[i]
    BY <1>1
  <2>2. IsFiniteSet(S)
    BY <1>2, FS_Subset
  <2> HIDE DEF f
  <2>3. SumOver(f, S) = SumOver(u, S)
    BY <2>1, <2>2, SumCong
  <2> QED BY <2>3 DEF Mass, f
<1> QED BY <1>1, <1>2, <1>3, <1>4 DEF IsScores, u

-----------------------------------------------------------------------------
(* The inductive invariant                                                 *)

\* A rank waits for the all_reduce with its own scores and starts the selection
\* with those of all ranks.
ScoresOf(k) ==
  /\ pc[k] = "reduce" => b[k] = part[k]
  /\ pc[k] = "top_p" => \A r \in Requests, i \in BlockIds : b[k][r][i] = TotalScore(r, i)

\* The block masks are the nucleus.
KeptBlocks(k) ==
  pc[k] \in {"expand", "mask"} =>
    \A r \in Prefills : TotalMass(r) > 0 => m[k][r] = Nucleus(BlockTotals(r))

\* The token masks keep the ends of the prefills, and the lengths count them, but
\* on the other ranks between the two broadcasts.  At the end decodes are whole.
MaskOf(k) ==
  \A r \in Requests :
    /\ r \in Prefills /\ pc[k] \in {"mask", "lengths", "scatter", "done"} =>
         \A t \in Tokens(seqLen[r]) :
           t < AttentionSink \/ t >= seqLen[r] - LastQ => t \in tokenMask[k][r]
    /\ r \in Prefills /\ (pc[k] \in {"mask", "scatter", "done"} \/ (k = 0 /\ pc[k] = "lengths")) =>
         newLen[k][r] = Cardinality(tokenMask[k][r])
    /\ r \notin Prefills /\ pc[k] = "done" =>
         tokenMask[k][r] = Tokens(seqLen[r]) /\ newLen[k][r] = seqLen[r]

\* From the broadcast on the masks of the prefills are those of rank 0.
Agree(k, j) ==
  pc[k] \in {"lengths", "scatter", "done"} /\ pc[j] \in {"lengths", "scatter", "done"} =>
    \A r \in Prefills : tokenMask[k][r] = tokenMask[j][r]

RankOK(k) == ScoresOf(k) /\ KeptBlocks(k) /\ MaskOf(k) /\ \A j \in Ranks : Agree(k, j)

IInv == TypeOK /\ Shape /\ \A k \in Ranks : RankOK(k)

LEMMA InitIInv == Init => IInv
<1> SUFFICES ASSUME Init PROVE IInv
  OBVIOUS
<1>1. config \in Configs /\ seqLen \in [Requests -> SeqLens]
  BY DEF Init
<1>2. ASSUME NEW k \in Ranks, NEW r \in Requests
      PROVE  DOMAIN part[k][r] = BlockIds /\ \A i \in BlockIds : part[k][r][i] \in Nat
  <2>1. part[k][r] \in BlockScores(seqLen[r])
    BY DEF Init
  <2>2. part[k][r] \in [BlockIds -> Scores]
    BY <2>1 DEF BlockScores, BlockIds
  <2>3. Scores \subseteq Nat
    BY <1>1, SelectionAssumption DEF Scores
  <2> QED BY <2>2, <2>3
<1>3. Shape
  BY <1>1, <1>2 DEF Init, Shape
<1>4. \A k \in Ranks : pc[k] = "start"
  BY DEF Init
<1>5. \A k \in Ranks : RankOK(k)
  BY <1>4 DEF RankOK, ScoresOf, KeptBlocks, MaskOf, Agree
<1>6. TypeOK
  <2>1. \A r \in Requests : seqLen[r] \in SeqLens /\ seqLen[r] \in Nat
    BY <1>1, <1>3, LenFacts
  <2>2. \A k \in Ranks, r \in Requests : tokenMask[k][r] = {} /\ newLen[k][r] = 0
    BY DEF Init
  <2>3. pc = [k \in Ranks |-> "start"]
    BY DEF Init
  <2> QED BY <2>1, <2>2, <2>3 DEF TypeOK
<1> QED BY <1>3, <1>5, <1>6 DEF IInv

\* The batch and the scores of the heads do not change.
LEMMA Constant ==
  ASSUME [Next]_vars
  PROVE  /\ UNCHANGED <<config, seqLen, part>> /\ Ranks' = Ranks /\ Prefills' = Prefills
         /\ \A r, i : TotalScore(r, i)' = TotalScore(r, i)
         /\ \A r : BlockTotals(r)' = BlockTotals(r) /\ TotalMass(r)' = TotalMass(r)
<1>1. UNCHANGED <<config, seqLen, part>>
  BY DEF Next, vars, Score, AllReduce, Select, ExpandMask, BroadcastMask, BroadcastLengths,
         Scatter, Done
<1>2. Ranks' = Ranks /\ Prefills' = Prefills
  BY <1>1 DEF Ranks, Prefills
<1>3. \A r, i : TotalScore(r, i)' = TotalScore(r, i)
  BY <1>1, <1>2 DEF TotalScore
<1>4. \A r : BlockTotals(r)' = BlockTotals(r)
  BY <1>1, <1>3 DEF BlockTotals, Blocks, NumBlocks
<1>5. \A r : TotalMass(r)' = TotalMass(r)
  BY <1>1, <1>4 DEF TotalMass, Blocks, NumBlocks
<1> QED BY <1>1, <1>2, <1>3, <1>4, <1>5

\* A mask over the tokens of a request has at most that many.
LEMMA MaskCount ==
  ASSUME Shape, NEW r \in Requests, NEW S \in SUBSET Tokens(seqLen[r])
  PROVE  /\ Cardinality(S) \in 0 .. seqLen[r]
         /\ Cardinality(Tokens(seqLen[r])) = seqLen[r]
<1>1. seqLen[r] \in Nat \ {0}
  BY LenFacts
<1>2. IsFiniteSet(Tokens(seqLen[r])) /\ Cardinality(Tokens(seqLen[r])) = seqLen[r]
  BY <1>1, IntervalCount DEF Tokens
<1>3. IsFiniteSet(S) /\ Cardinality(S) <= Cardinality(Tokens(seqLen[r]))
  BY <1>2, FS_Subset
<1>4. Cardinality(S) \in Nat
  BY <1>3, FS_CardinalityType
<1> QED BY <1>1, <1>2, <1>3, <1>4

\* The ranks a step does not touch keep their part of the invariant.
LEMMA OthersKeep ==
  ASSUME IInv, [Next]_vars, NEW k \in Ranks,
         pc'[k] = pc[k], b'[k] = b[k], m'[k] = m[k], tokenMask'[k] = tokenMask[k],
         newLen'[k] = newLen[k]
  PROVE  ScoresOf(k)' /\ KeptBlocks(k)' /\ MaskOf(k)'
<1>0. /\ UNCHANGED <<config, seqLen, part>> /\ Ranks' = Ranks /\ Prefills' = Prefills
      /\ \A r, i : TotalScore(r, i)' = TotalScore(r, i)
      /\ \A r : BlockTotals(r)' = BlockTotals(r) /\ TotalMass(r)' = TotalMass(r)
  BY Constant
<1>1. ScoresOf(k) /\ KeptBlocks(k) /\ MaskOf(k)
  BY DEF IInv, RankOK
<1>2. ScoresOf(k)'
  BY <1>0, <1>1 DEF ScoresOf, BlockIds, NumBlocks
<1>3. KeptBlocks(k)'
  BY <1>0, <1>1 DEF KeptBlocks
<1>4. MaskOf(k)'
  BY <1>0, <1>1 DEF MaskOf, Tokens
<1> QED BY <1>2, <1>3, <1>4

LEMMA ShapeKept == ASSUME IInv, [Next]_vars PROVE Shape'
<1>1. /\ UNCHANGED <<config, seqLen, part>> /\ Ranks' = Ranks
  BY Constant
<1>2. DOMAIN b' = Ranks /\ DOMAIN m' = Ranks /\ DOMAIN tokenMask' = Ranks /\ DOMAIN newLen' = Ranks
  <2>0. DOMAIN b = Ranks /\ DOMAIN m = Ranks /\ DOMAIN tokenMask = Ranks /\ DOMAIN newLen = Ranks
    BY DEF IInv, Shape
  <2>1. ASSUME NEW k \in Ranks, Score(k) \/ Select(k) PROVE <1>2
    BY <2>0, <2>1 DEF Score, Select
  <2>2. ASSUME NEW k \in Ranks, ExpandMask(k) PROVE <1>2
    BY <2>0, <2>2 DEF ExpandMask
  <2>3. ASSUME NEW k \in Ranks, Scatter(k) PROVE <1>2
    BY <2>0, <2>3 DEF Scatter
  <2>4. CASE AllReduce
    BY <2>0, <2>4 DEF AllReduce, ReducedScores
  <2>5. CASE BroadcastMask \/ BroadcastLengths
    BY <2>0, <2>5 DEF BroadcastMask, BroadcastLengths
  <2>6. CASE Done \/ UNCHANGED vars
    BY <2>0, <2>6 DEF Done, vars
  <2> QED BY <2>1, <2>2, <2>3, <2>4, <2>5, <2>6 DEF Next
<1>3. Shape
  BY DEF IInv
<1> QED BY <1>1, <1>2, <1>3 DEF Shape, BlockIds, NumBlocks

-----------------------------------------------------------------------------
(* One lemma per action                                                    *)

Others(k) == \A j \in Ranks \ {k} : /\ pc'[j] = pc[j] /\ b'[j] = b[j] /\ m'[j] = m[j]
                                    /\ tokenMask'[j] = tokenMask[j] /\ newLen'[j] = newLen[j]

\* For a step of rank k: what is left to show is about k, and that its mask is the
\* others' if it is final.
LEMMA StepOf ==
  ASSUME IInv, Next, NEW k \in Ranks, Others(k),
         pc' \in [Ranks -> {"start", "reduce", "top_p", "expand", "mask", "lengths",
                            "scatter", "done"}],
         \A r \in Requests : /\ tokenMask'[k][r] \subseteq Tokens(seqLen[r])
                             /\ newLen'[k][r] \in 0 .. seqLen[r],
         ScoresOf(k)' /\ KeptBlocks(k)' /\ MaskOf(k)',
         \/ pc'[k] \notin {"lengths", "scatter", "done"}
         \/ Ranks = {k}
         \/ /\ pc[k] \in {"lengths", "scatter", "done"}
            /\ \A r \in Prefills : tokenMask'[k][r] = tokenMask[k][r]
         \/ Prefills = {}
  PROVE  IInv'
<1>0. /\ UNCHANGED <<config, seqLen, part>> /\ Ranks' = Ranks /\ Prefills' = Prefills
      /\ Shape' /\ TypeOK /\ Shape
  BY Constant, ShapeKept DEF IInv
<1>1. TypeOK'
  <2>1. ASSUME NEW j \in Ranks, NEW r \in Requests
        PROVE  tokenMask'[j][r] \subseteq Tokens(seqLen[r]) /\ newLen'[j][r] \in 0 .. seqLen[r]
    BY <1>0 DEF TypeOK, Others
  <2>2. \A r \in Requests : seqLen[r] \in SeqLens
    BY <1>0 DEF TypeOK
  <2> QED BY <1>0, <2>1, <2>2 DEF TypeOK, Tokens
<1>2. ASSUME NEW j \in Ranks PROVE ScoresOf(j)' /\ KeptBlocks(j)' /\ MaskOf(j)'
  <2>1. CASE j = k
    BY <2>1
  <2>2. CASE j # k
    BY <2>2, OthersKeep DEF Others
  <2> QED BY <2>1, <2>2
<1>3. ASSUME NEW i \in Ranks, NEW j \in Ranks PROVE Agree(i, j)'
  <2>1. Agree(i, j)
    BY DEF IInv, RankOK
  <2> QED BY <1>0, <2>1 DEF Agree, Others
<1> QED BY <1>0, <1>1, <1>2, <1>3 DEF IInv, RankOK

\* Without another rank the summed scores are the rank's own.
LEMMA OneRankTotal ==
  ASSUME Shape, Ranks = {0}, NEW r \in Requests, NEW i \in BlockIds
  PROVE  TotalScore(r, i) = part[0][r][i]
<1> DEFINE f == [k \in Ranks |-> part[k][r][i]]
<1>1. f[0] = part[0][r][i] /\ f[0] \in Nat /\ \A k \in Ranks : f[k] \in Nat
  BY DEF Shape
<1>2. IsFiniteSet(Ranks) /\ 0 \in Ranks /\ Ranks \ {0} = {} /\ IsFiniteSet({})
  BY RanksFacts, FS_EmptySet
<1> HIDE DEF f
<1>3. SumOver(f, Ranks) = f[0] + SumOver(f, Ranks \ {0})
  BY <1>1, <1>2, SumElement
<1>4. SumOver(f, Ranks \ {0}) = 0
  BY <1>2, SumPick
<1>5. SumOver(f, Ranks) = f[0]
  BY <1>1, <1>3, <1>4
<1> QED BY <1>1, <1>5 DEF TotalScore, f

LEMMA ScoreKeeps ==
  ASSUME IInv, NEW k \in Ranks, Score(k)
  PROVE  IInv'
<1>0. Next /\ Shape /\ TypeOK
  BY DEF Next, IInv
<1>1. /\ UNCHANGED <<config, seqLen, part>> /\ Ranks' = Ranks /\ Prefills' = Prefills
      /\ \A r, i : TotalScore(r, i)' = TotalScore(r, i)
  BY <1>0, Constant
<1>2. Others(k) /\ b'[k] = part[k]
  BY <1>0 DEF Score, Others, Shape, TypeOK
<1>3. CASE Prefills = {}
  <2>1. /\ pc' = [pc EXCEPT ![k] = "done"]
        /\ \A r \in Requests : tokenMask'[k][r] = Tokens(seqLen[r]) /\ newLen'[k][r] = seqLen[r]
    BY <1>0, <1>3 DEF Score, Shape
  <2>2. pc'[k] = "done" /\ pc' \in [Ranks -> {"start", "reduce", "top_p", "expand", "mask",
                                              "lengths", "scatter", "done"}]
    BY <1>0, <2>1 DEF TypeOK
  <2>3. \A r \in Requests : /\ tokenMask'[k][r] \subseteq Tokens(seqLen[r])
                            /\ newLen'[k][r] \in 0 .. seqLen[r]
    BY <1>0, <2>1, LenFacts
  <2>4. ScoresOf(k)' /\ KeptBlocks(k)'
    BY <2>2 DEF ScoresOf, KeptBlocks
  <2>5. MaskOf(k)'
    BY <1>1, <1>3, <2>1, <2>2 DEF MaskOf, Tokens
  <2> QED BY <1>0, <1>2, <1>3, <2>2, <2>3, <2>4, <2>5, StepOf
<1>4. CASE Prefills # {}
  <2>1. /\ pc' = [pc EXCEPT ![k] = IF Cardinality(Ranks) > 1 THEN "reduce" ELSE "top_p"]
        /\ UNCHANGED <<tokenMask, newLen>>
    BY <1>4 DEF Score
  <2>2. /\ pc'[k] = IF Cardinality(Ranks) > 1 THEN "reduce" ELSE "top_p"
        /\ pc' \in [Ranks -> {"start", "reduce", "top_p", "expand", "mask",
                              "lengths", "scatter", "done"}]
    BY <1>0, <2>1 DEF TypeOK
  <2>3. \A r \in Requests : /\ tokenMask'[k][r] \subseteq Tokens(seqLen[r])
                            /\ newLen'[k][r] \in 0 .. seqLen[r]
    BY <1>0, <2>1 DEF TypeOK
  <2>4. ScoresOf(k)'
    <3>1. CASE Cardinality(Ranks) > 1
      BY <1>1, <1>2, <2>2, <3>1 DEF ScoresOf
    <3>2. CASE ~(Cardinality(Ranks) > 1)
      <4>1. Ranks = {0} /\ k = 0 /\ pc'[k] = "top_p"
        BY <1>0, <2>2, <3>2, RanksFacts
      <4>2. \A r \in Requests, i \in BlockIds : b'[k][r][i] = TotalScore(r, i)
        BY <1>0, <1>2, <4>1, OneRankTotal
      <4> QED BY <1>1, <4>1, <4>2 DEF ScoresOf, BlockIds, NumBlocks
    <3> QED BY <3>1, <3>2
  <2>5. KeptBlocks(k)' /\ MaskOf(k)'
    BY <2>2 DEF KeptBlocks, MaskOf
  <2>6. pc'[k] \notin {"lengths", "scatter", "done"}
    BY <2>2
  <2> QED BY <1>0, <1>2, <2>2, <2>3, <2>4, <2>5, <2>6, StepOf
<1> QED BY <1>3, <1>4

LEMMA SelectKeeps ==
  ASSUME IInv, NEW k \in Ranks, Select(k)
  PROVE  IInv'
<1>0. Next /\ Shape /\ TypeOK /\ ScoresOf(k)
  BY DEF Next, IInv, RankOK
<1>1. /\ UNCHANGED <<config, seqLen, part>> /\ Ranks' = Ranks /\ Prefills' = Prefills
      /\ \A r : BlockTotals(r)' = BlockTotals(r) /\ TotalMass(r)' = TotalMass(r)
  BY <1>0, Constant
<1>2. Others(k) /\ UNCHANGED <<tokenMask, newLen>>
  BY <1>0 DEF Select, Others, Shape, TypeOK
<1>3. pc'[k] = "expand" /\ pc' \in [Ranks -> {"start", "reduce", "top_p", "expand", "mask",
                                              "lengths", "scatter", "done"}]
  BY <1>0 DEF Select, TypeOK
<1>4. \A r \in Requests : /\ tokenMask'[k][r] \subseteq Tokens(seqLen[r])
                          /\ newLen'[k][r] \in 0 .. seqLen[r]
  BY <1>0, <1>2 DEF TypeOK
<1>5. ASSUME NEW r \in Prefills, TotalMass(r) > 0 PROVE m'[k][r] = Nucleus(BlockTotals(r))
  <2>1. r \in Requests
    BY DEF Prefills
  <2>2. \A i \in BlockIds : b[k][r][i] = TotalScore(r, i)
    BY <1>0, <2>1 DEF Select, ScoresOf
  <2>3. TopP(b[k][r], seqLen[r]) = Nucleus(BlockTotals(r))
    BY <1>0, <1>5, <2>2, TopPIsNucleus
  <2>4. m'[k][r] = TopP(b[k][r], seqLen[r])
    BY <1>0, <2>1 DEF Select, Shape
  <2> QED BY <2>3, <2>4
<1>6. KeptBlocks(k)'
  BY <1>1, <1>5 DEF KeptBlocks
<1>7. ScoresOf(k)' /\ MaskOf(k)'
  BY <1>3 DEF ScoresOf, MaskOf
<1>8. pc'[k] \notin {"lengths", "scatter", "done"}
  BY <1>3
<1> QED BY <1>0, <1>2, <1>3, <1>4, <1>6, <1>7, <1>8, StepOf

LEMMA ExpandMaskKeeps ==
  ASSUME IInv, NEW k \in Ranks, ExpandMask(k)
  PROVE  IInv'
<1> DEFINE mask == [r \in Requests |-> IF r \in Prefills THEN Expand(m[k][r], seqLen[r]) ELSE {}]
<1>0. Next /\ Shape /\ TypeOK /\ KeptBlocks(k)
  BY DEF Next, IInv, RankOK
<1>1. /\ UNCHANGED <<config, seqLen, part>> /\ Ranks' = Ranks /\ Prefills' = Prefills
      /\ \A r : BlockTotals(r)' = BlockTotals(r) /\ TotalMass(r)' = TotalMass(r)
  BY <1>0, Constant
<1>2. Others(k) /\ m' = m
  BY <1>0 DEF ExpandMask, Others, Shape, TypeOK
<1>3. /\ pc'[k] = IF Cardinality(Ranks) > 1 THEN "mask" ELSE "scatter"
      /\ pc' \in [Ranks -> {"start", "reduce", "top_p", "expand", "mask",
                            "lengths", "scatter", "done"}]
  BY <1>0 DEF ExpandMask, TypeOK
<1>4. tokenMask'[k] = mask /\ newLen'[k] = [r \in Requests |-> Cardinality(mask[r])]
  BY <1>0 DEF ExpandMask, Shape
<1>5. ASSUME NEW r \in Requests PROVE mask[r] \in SUBSET Tokens(seqLen[r])
  BY DEF Expand
<1>6. ASSUME NEW r \in Prefills, NEW t \in Tokens(seqLen[r]),
             t < AttentionSink \/ t >= seqLen[r] - LastQ
      PROVE  t \in mask[r]
  BY <1>6 DEF Expand, Prefills
<1> HIDE DEF mask
<1>7. \A r \in Requests : /\ tokenMask'[k][r] \subseteq Tokens(seqLen[r])
                          /\ newLen'[k][r] \in 0 .. seqLen[r]
  BY <1>0, <1>4, <1>5, MaskCount
<1>8. ScoresOf(k)'
  BY <1>3 DEF ScoresOf
<1>9. KeptBlocks(k)'
  <2>1. \A r \in Prefills : TotalMass(r) > 0 => m[k][r] = Nucleus(BlockTotals(r))
    BY <1>0 DEF ExpandMask, KeptBlocks
  <2> QED BY <1>1, <1>2, <2>1 DEF KeptBlocks
<1>10. MaskOf(k)'
  BY <1>1, <1>3, <1>4, <1>6 DEF MaskOf, Tokens
<1>11. pc'[k] \notin {"lengths", "scatter", "done"} \/ Ranks = {k}
  BY <1>0, <1>3, RanksFacts
<1> QED BY <1>0, <1>2, <1>3, <1>7, <1>8, <1>9, <1>10, <1>11, StepOf

LEMMA ScatterKeeps ==
  ASSUME IInv, NEW k \in Ranks, Scatter(k)
  PROVE  IInv'
<1>0. Next /\ Shape /\ TypeOK /\ MaskOf(k) /\ pc[k] = "scatter"
  BY DEF Next, IInv, RankOK, Scatter
<1>1. UNCHANGED <<config, seqLen, part>> /\ Ranks' = Ranks /\ Prefills' = Prefills
  BY <1>0, Constant
<1>2. Others(k)
  BY <1>0 DEF Scatter, Others, Shape, TypeOK
<1>3. pc'[k] = "done" /\ pc' \in [Ranks -> {"start", "reduce", "top_p", "expand", "mask",
                                            "lengths", "scatter", "done"}]
  BY <1>0 DEF Scatter, TypeOK
<1>4. ASSUME NEW r \in Requests
      PROVE  /\ r \in Prefills => tokenMask'[k][r] = tokenMask[k][r] /\ newLen'[k][r] = newLen[k][r]
             /\ r \notin Prefills => tokenMask'[k][r] = Tokens(seqLen[r]) /\ newLen'[k][r] = seqLen[r]
  BY <1>0 DEF Scatter, Shape, KeepDecodes
<1>5. \A r \in Requests : /\ tokenMask'[k][r] \subseteq Tokens(seqLen[r])
                          /\ newLen'[k][r] \in 0 .. seqLen[r]
  BY <1>0, <1>4, LenFacts DEF TypeOK
<1>6. ScoresOf(k)' /\ KeptBlocks(k)'
  BY <1>3 DEF ScoresOf, KeptBlocks
<1>7. MaskOf(k)'
  BY <1>0, <1>1, <1>3, <1>4 DEF MaskOf, Tokens
<1>8. \A r \in Prefills : tokenMask'[k][r] = tokenMask[k][r]
  BY <1>4 DEF Prefills
<1>9. pc[k] \in {"lengths", "scatter", "done"}
  BY <1>0
<1> QED BY <1>0, <1>2, <1>3, <1>5, <1>6, <1>7, <1>8, <1>9, StepOf

LEMMA AllReduceKeeps ==
  ASSUME IInv, AllReduce
  PROVE  IInv'
<1>0. Next /\ Shape /\ TypeOK
  BY DEF Next, IInv
<1>1. /\ UNCHANGED <<config, seqLen, part>> /\ Ranks' = Ranks /\ Prefills' = Prefills
      /\ \A r, i : TotalScore(r, i)' = TotalScore(r, i)
      /\ Shape'
  BY <1>0, Constant, ShapeKept
<1>2. \A k \in Ranks : b[k] = part[k]
  BY DEF AllReduce, IInv, RankOK, ScoresOf
<1>3. ASSUME NEW k \in Ranks, NEW r \in Requests, NEW i \in BlockIds
      PROVE  b'[k][r][i] = TotalScore(r, i)
  <2>1. DOMAIN b[k][r] = BlockIds
    BY <1>0, <1>2 DEF Shape
  <2>2. b'[k][r][i] = SumOver([j \in Ranks |-> b[j][r][i]], Ranks)
    BY <2>1 DEF AllReduce, ReducedScores
  <2>3. [j \in Ranks |-> b[j][r][i]] = [j \in Ranks |-> part[j][r][i]]
    BY <1>2
  <2> QED BY <2>2, <2>3 DEF TotalScore
<1>4. pc' = [k \in Ranks |-> "top_p"] /\ UNCHANGED <<tokenMask, newLen>>
  BY DEF AllReduce
<1>5. TypeOK'
  <2>1. pc' \in [Ranks -> {"start", "reduce", "top_p", "expand", "mask", "lengths",
                           "scatter", "done"}]
    BY <1>4
  <2> QED BY <1>0, <1>1, <1>4, <2>1 DEF TypeOK, Tokens
<1>6. ASSUME NEW k \in Ranks PROVE RankOK(k)'
  <2>1. pc'[k] = "top_p"
    BY <1>4
  <2>2. ScoresOf(k)'
    BY <1>1, <1>3, <2>1 DEF ScoresOf, BlockIds, NumBlocks
  <2>3. KeptBlocks(k)' /\ MaskOf(k)' /\ \A j \in Ranks : Agree(k, j)'
    BY <2>1 DEF KeptBlocks, MaskOf, Agree
  <2> QED BY <1>1, <2>2, <2>3 DEF RankOK
<1> QED BY <1>1, <1>5, <1>6 DEF IInv

LEMMA BroadcastMaskKeeps ==
  ASSUME IInv, BroadcastMask
  PROVE  IInv'
<1>0. Next /\ Shape /\ TypeOK /\ 0 \in Ranks /\ MaskOf(0) /\ pc[0] = "mask"
  <2>1. Shape /\ 0 \in Ranks
    BY RanksFacts DEF IInv
  <2> QED BY <2>1 DEF Next, IInv, RankOK, BroadcastMask
<1>1. /\ UNCHANGED <<config, seqLen, part>> /\ Ranks' = Ranks /\ Prefills' = Prefills /\ Shape'
  BY <1>0, Constant, ShapeKept
<1>2. /\ pc' = [k \in Ranks |-> "lengths"] /\ tokenMask' = [k \in Ranks |-> tokenMask[0]]
      /\ newLen' = newLen
  BY DEF BroadcastMask
<1>3. ASSUME NEW k \in Ranks PROVE pc'[k] = "lengths" /\ tokenMask'[k] = tokenMask[0]
  BY <1>2
<1>4. TypeOK'
  <2>1. pc' \in [Ranks -> {"start", "reduce", "top_p", "expand", "mask", "lengths",
                           "scatter", "done"}]
    BY <1>2
  <2> QED BY <1>0, <1>1, <1>2, <1>3, <2>1 DEF TypeOK, Tokens
<1>5. ASSUME NEW k \in Ranks PROVE RankOK(k)'
  <2>1. ScoresOf(k)' /\ KeptBlocks(k)'
    BY <1>3 DEF ScoresOf, KeptBlocks
  <2>2. MaskOf(k)'
    BY <1>0, <1>1, <1>2, <1>3 DEF MaskOf, Tokens
  <2>3. \A j \in Ranks : Agree(k, j)'
    BY <1>3 DEF Agree
  <2> QED BY <1>1, <2>1, <2>2, <2>3 DEF RankOK
<1> QED BY <1>1, <1>4, <1>5 DEF IInv

LEMMA BroadcastLengthsKeeps ==
  ASSUME IInv, BroadcastLengths
  PROVE  IInv'
<1>0. Next /\ Shape /\ TypeOK /\ 0 \in Ranks /\ MaskOf(0) /\ \A k \in Ranks : pc[k] = "lengths"
  <2>1. Shape /\ 0 \in Ranks
    BY RanksFacts DEF IInv
  <2> QED BY <2>1 DEF Next, IInv, RankOK, BroadcastLengths
<1>1. /\ UNCHANGED <<config, seqLen, part>> /\ Ranks' = Ranks /\ Prefills' = Prefills /\ Shape'
  BY <1>0, Constant, ShapeKept
<1>2. /\ pc' = [k \in Ranks |-> "scatter"] /\ newLen' = [k \in Ranks |-> newLen[0]]
      /\ tokenMask' = tokenMask
  BY DEF BroadcastLengths
<1>3. ASSUME NEW k \in Ranks PROVE pc'[k] = "scatter" /\ newLen'[k] = newLen[0]
  BY <1>2
<1>4. TypeOK'
  <2>1. pc' \in [Ranks -> {"start", "reduce", "top_p", "expand", "mask", "lengths",
                           "scatter", "done"}]
    BY <1>2
  <2> QED BY <1>0, <1>1, <1>2, <1>3, <2>1 DEF TypeOK, Tokens
<1>5. ASSUME NEW k \in Ranks PROVE RankOK(k)'
  <2>1. ScoresOf(k)' /\ KeptBlocks(k)'
    BY <1>3 DEF ScoresOf, KeptBlocks
  <2>2. MaskOf(k) /\ \A j \in Ranks : Agree(k, j)
    BY DEF IInv, RankOK
  <2>3. ASSUME NEW r \in Prefills PROVE newLen'[k][r] = Cardinality(tokenMask[k][r])
    <3>1. tokenMask[k][r] = tokenMask[0][r]
      BY <1>0, <2>2 DEF Agree
    <3>2. newLen[0][r] = Cardinality(tokenMask[0][r])
      BY <1>0 DEF MaskOf, Prefills
    <3> QED BY <1>3, <3>1, <3>2
  <2>4. MaskOf(k)'
    BY <1>0, <1>1, <1>2, <1>3, <2>2, <2>3 DEF MaskOf, Tokens
  <2>5. \A j \in Ranks : Agree(k, j)'
    BY <1>0, <1>1, <1>2, <2>2 DEF Agree
  <2> QED BY <1>1, <2>1, <2>4, <2>5 DEF RankOK
<1> QED BY <1>1, <1>4, <1>5 DEF IInv

LEMMA StutterKeeps ==
  ASSUME IInv, UNCHANGED vars
  PROVE  IInv'
<1>0. UNCHANGED <<config, seqLen, part, pc, b, m, tokenMask, newLen>>
  BY DEF vars
<1>1. /\ Ranks' = Ranks /\ Prefills' = Prefills /\ Shape'
  BY Constant, ShapeKept
<1>2. TypeOK'
  BY <1>0, <1>1 DEF IInv, TypeOK, Tokens
<1>3. ASSUME NEW k \in Ranks PROVE RankOK(k)'
  <2>1. ScoresOf(k)' /\ KeptBlocks(k)' /\ MaskOf(k)'
    BY <1>0, OthersKeep
  <2>2. ASSUME NEW j \in Ranks PROVE Agree(k, j)'
    <3>1. Agree(k, j)
      BY DEF IInv, RankOK
    <3> QED BY <1>0, <1>1, <3>1 DEF Agree
  <2> QED BY <1>1, <2>1, <2>2 DEF RankOK
<1> QED BY <1>1, <1>2, <1>3 DEF IInv

LEMMA NextIInv == IInv /\ [Next]_vars => IInv'
<1> SUFFICES ASSUME IInv, [Next]_vars PROVE IInv'
  OBVIOUS
<1>1. ASSUME NEW k \in Ranks, Score(k) PROVE IInv'
  BY <1>1, ScoreKeeps
<1>2. ASSUME NEW k \in Ranks, Select(k) PROVE IInv'
  BY <1>2, SelectKeeps
<1>3. ASSUME NEW k \in Ranks, ExpandMask(k) PROVE IInv'
  BY <1>3, ExpandMaskKeeps
<1>4. ASSUME NEW k \in Ranks, Scatter(k) PROVE IInv'
  BY <1>4, ScatterKeeps
<1>5. CASE AllReduce
  BY <1>5, AllReduceKeeps
<1>6. CASE BroadcastMask
  BY <1>6, BroadcastMaskKeeps
<1>7. CASE BroadcastLengths
  BY <1>7, BroadcastLengthsKeeps
<1>8. CASE Done \/ UNCHANGED vars
  BY <1>8, StutterKeeps DEF Done
<1> QED BY <1>1, <1>2, <1>3, <1>4, <1>5, <1>6, <1>7, <1>8 DEF Next

-----------------------------------------------------------------------------
(* The theorems                                                            *)

LEMMA NucleusStep == IInv => NucleusKept
<1> SUFFICES ASSUME IInv, NEW k \in Ranks, NEW r \in Prefills, pc[k] \in {"expand", "mask"},
                    Mass(r, Blocks(seqLen[r])) > 0
             PROVE  /\ Mass(r, m[k][r]) * PDen > PNum * Mass(r, Blocks(seqLen[r]))
                    /\ \A i \in m[k][r], j \in Blocks(seqLen[r]) \ m[k][r] :
                         TotalScore(r, i) >= TotalScore(r, j)
                    /\ \E i \in m[k][r] :
                         /\ \A j \in m[k][r] : TotalScore(r, j) >= TotalScore(r, i)
                         /\ Mass(r, m[k][r] \ {i}) * PDen <= PNum * Mass(r, Blocks(seqLen[r]))
  BY DEF NucleusKept
<1> DEFINE u == BlockTotals(r)
           D == Blocks(seqLen[r])
           K == m[k][r]
<1>1. r \in Requests /\ Shape
  BY DEF Prefills, IInv
<1>2. /\ IsScores(u) /\ DOMAIN u = D /\ \A i \in D : u[i] = TotalScore(r, i)
      /\ \A S \in SUBSET D : Mass(r, S) = SumOver(u, S)
  BY <1>1, MassIsSum
<1>3. SumOver(u, D) > 0 /\ Mass(r, D) = SumOver(u, D)
  BY <1>2
<1>4. K = Nucleus(u)
  BY <1>3 DEF IInv, RankOK, KeptBlocks, TotalMass
<1> HIDE DEF u, K
<1>5. K \in SUBSET D
  BY <1>2, <1>4 DEF Nucleus
<1>6. /\ SumOver(u, K) * PDen > PNum * SumOver(u, D)
      /\ \A i \in K, j \in D \ K : u[i] >= u[j]
      /\ \E i \in K : /\ \A j \in K : u[j] >= u[i]
                      /\ SumOver(u, K \ {i}) * PDen <= PNum * SumOver(u, D)
  BY <1>2, <1>3, <1>4, NucleusFacts
<1> HIDE DEF D
<1>7. Mass(r, K) * PDen > PNum * Mass(r, D)
  BY <1>2, <1>3, <1>5, <1>6
<1>8. \A i \in K, j \in D \ K : TotalScore(r, i) >= TotalScore(r, j)
  BY <1>2, <1>5, <1>6
<1>9. \E i \in K : /\ \A j \in K : TotalScore(r, j) >= TotalScore(r, i)
                   /\ Mass(r, K \ {i}) * PDen <= PNum * Mass(r, D)
  <2>1. PICK i \in K : /\ \A j \in K : u[j] >= u[i]
                       /\ SumOver(u, K \ {i}) * PDen <= PNum * SumOver(u, D)
    BY <1>6
  <2>2. \A j \in K : TotalScore(r, j) >= TotalScore(r, i)
    BY <1>2, <1>5, <2>1
  <2>3. K \ {i} \in SUBSET D
    BY <1>5
  <2>4. Mass(r, K \ {i}) = SumOver(u, K \ {i})
    BY <1>2, <2>3
  <2> QED BY <1>3, <2>1, <2>2, <2>4
<1> QED BY <1>7, <1>8, <1>9 DEF K, D

LEMMA NativeStep == IInv => CoversNative
<1> SUFFICES ASSUME IInv, NEW k \in Ranks, NEW r \in Prefills, pc[k] \in {"expand", "mask"},
                    Mass(r, Blocks(seqLen[r])) > 0
             PROVE  /\ NativeTopP(r) \subseteq m[k][r]
                    /\ Cardinality(m[k][r] \ NativeTopP(r)) <= 1
  BY DEF CoversNative
<1> DEFINE u == BlockTotals(r)
           D == Blocks(seqLen[r])
           K == m[k][r]
<1>1. r \in Requests /\ Shape
  BY DEF Prefills, IInv
<1>2. /\ IsScores(u) /\ DOMAIN u = D
      /\ \A S \in SUBSET D : Mass(r, S) = SumOver(u, S)
  BY <1>1, MassIsSum
<1>3. SumOver(u, D) > 0 /\ Mass(r, D) = SumOver(u, D)
  BY <1>2
<1>4. K = Nucleus(u)
  BY <1>3 DEF IInv, RankOK, KeptBlocks, TotalMass
<1>5. NativeTopP(r) = {i \in D : \/ Mass(r, Before(u, i) \cup {i}) * PDen <= PNum * Mass(r, D)
                                 \/ Before(u, i) = {}}
  BY DEF NativeTopP, BlockTotals
<1> HIDE DEF u, K
<1>6. NativeTopP(r) = NativeKeep(u)
  <2>1. ASSUME NEW i \in D
        PROVE  Mass(r, Before(u, i) \cup {i}) = SumOver(u, Before(u, i) \cup {i})
    <3>1. Before(u, i) \cup {i} \in SUBSET D
      BY <1>2, BeforeIn
    <3> QED BY <1>2, <3>1
  <2> HIDE DEF D
  <2> QED BY <1>2, <1>3, <1>5, <2>1 DEF NativeKeep
<1>7. NativeTopP(r) \subseteq K /\ \A i, j \in K \ NativeTopP(r) : i = j
  BY <1>2, <1>3, <1>4, <1>6, NativeFacts
<1>8. Cardinality(K \ NativeTopP(r)) <= 1
  <2>1. CASE K \ NativeTopP(r) = {}
    BY <2>1, FS_EmptySet
  <2>2. CASE K \ NativeTopP(r) # {}
    <3>1. PICK i : i \in K \ NativeTopP(r)
      BY <2>2
    <3>2. K \ NativeTopP(r) = {i}
      BY <1>7, <3>1
    <3>3. Cardinality({i}) = 1
      BY FS_Singleton
    <3> QED BY <3>2, <3>3
  <2> QED BY <2>1, <2>2
<1> QED BY <1>7, <1>8 DEF K

LEMMA ResultStep == IInv => ResultConsistent
<1> SUFFICES ASSUME IInv PROVE ResultConsistent
  OBVIOUS
<1>1. TypeOK /\ Shape
  BY DEF IInv
<1>2. ASSUME NEW k \in Ranks, pc[k] = "done", NEW r \in Requests
      PROVE  /\ \A t \in Tokens(seqLen[r]) :
                  t < AttentionSink \/ t >= seqLen[r] - LastQ => t \in tokenMask[k][r]
             /\ newLen[k][r] = Cardinality(tokenMask[k][r])
             /\ \A j \in Ranks : pc[j] = "done" => tokenMask[j][r] = tokenMask[k][r]
  <2>1. MaskOf(k) /\ \A j \in Ranks : Agree(k, j) /\ MaskOf(j)
    BY DEF IInv, RankOK
  <2>2. CASE r \in Prefills
    BY <1>2, <2>1, <2>2 DEF MaskOf, Agree
  <2>3. CASE r \notin Prefills
    <3>1. Cardinality(Tokens(seqLen[r])) = seqLen[r]
      BY <1>1, MaskCount
    <3>2. \A j \in Ranks : pc[j] = "done" => /\ tokenMask[j][r] = Tokens(seqLen[r])
                                             /\ newLen[j][r] = seqLen[r]
      BY <2>1, <2>3 DEF MaskOf
    <3> QED BY <1>2, <3>1, <3>2
  <2> QED BY <2>2, <2>3
<1> QED BY <1>1, <1>2 DEF ResultConsistent

\* The invariant of topselectionvarlen behind the theorems below.
THEOREM Invariant == Spec => []IInv
BY InitIInv, NextIInv, PTL DEF Spec

\* The selection is right for every batch, number of ranks and score: the blocks
\* kept by fused_top_p_kernel after the all_reduce have more than p of the mass
\* over all heads, none that is dropped scores higher, and one block fewer would
\* not do; the power of two the rows are padded to changes nothing.
THEOREM NucleusAlwaysKept == Spec => []NucleusKept
<1>1. IInv => NucleusKept
  BY NucleusStep
<1> QED BY <1>1, Invariant, PTL

\* fused_top_p_kernel keeps all blocks of the reference in native_imp.py, and at
\* most the one more that takes the mass past p.
THEOREM NativeAlwaysCovered == Spec => []CoversNative
<1>1. IInv => CoversNative
  BY NativeStep
<1> QED BY <1>1, Invariant, PTL

\* What topselectionvarlen returns: the sink, the last tokens and the decodes are
\* kept, new_cu_seqlens counts the mask, and after the two broadcasts every rank
\* has the same, though the ranks run at their own speed between the collectives.
THEOREM ResultAlwaysConsistent == Spec => []ResultConsistent
<1>1. IInv => ResultConsistent
  BY ResultStep
<1> QED BY <1>1, Invariant, PTL
=============================================================================
