--------------------------- MODULE TokenDropProofs ---------------------------
(***************************************************************************)
(* Proofs about TokenDrop: under which conditions dropping tokens is       *)
(* right, for any number of layers, drop layers, requests and steps.       *)
(*                                                                         *)
(* A server drops soundly if its prompts are computed whole, each is long  *)
(* enough to drop on its own, none is preempted and no layer with a        *)
(* sliding window comes after the first drop; or if no step ever has       *)
(* enough tokens to drop.  Then every layer reads the KV of exactly the    *)
(* tokens that reached it (AttentionReadsItsTokens), the record of a       *)
(* request determines their number (RecordCounts), and logits are those of *)
(* the last token (SampledFromLastToken).                                  *)
(***************************************************************************)
EXTENDS TokenDrop, FiniteSetTheorems, NaturalsInduction, WellFoundedInduction, TLAPS

-----------------------------------------------------------------------------
(* The conditions                                                          *)

\* The number of tokens in h, as ShouldDrop counts them.
Total(h, S) == MapThenSumSet(LAMBDA r : Cardinality(h[r]), S)

WholePrompts(c) ==
  /\ ~c.chunkedPrefill /\ ~c.preemption
  /\ \A r \in Requests : PromptLen[r] > c.attentionSink + c.lastQ
  /\ \A l \in c.sliding : l <= FirstDrop

NeverDrops(c) ==
  Total([r \in Requests |-> Token(r)], Requests) <= c.attentionSink + c.lastQ

Supported == \A c \in Configs : WholePrompts(c) \/ NeverDrops(c)

-----------------------------------------------------------------------------
(* Least elements and minimal sets                                         *)

\* Every nonempty set of natural numbers has a least element.
LEMMA LeastElement ==
  ASSUME NEW S \in SUBSET Nat, S # {}
  PROVE  \E x \in S : \A y \in S : x <= y
<1> DEFINE R == OpToRel(<, Nat)
<1>1. IsWellFoundedOn(R, Nat)
  BY NatLessThanWellFounded
<1>2. \A x, y \in Nat : y < x => <<y, x>> \in R
  BY DEF OpToRel
<1> HIDE DEF R
<1>3. PICK x \in S : \A y \in S : ~(<<y, x>> \in R)
  BY <1>1, WFMin
<1>4. ASSUME NEW y \in S PROVE x <= y
  <2>1. x \in Nat /\ y \in Nat
    OBVIOUS
  <2>2. ~(y < x)
    BY <2>1, <1>2, <1>3, Zenon
  <2> QED BY <2>1, <2>2
<1> QED BY <1>4

\* A nonempty collection of subsets of a finite set has a minimal member.
LEMMA MinimalSet ==
  ASSUME NEW U, IsFiniteSet(U), NEW B \in SUBSET SUBSET U, B # {}
  PROVE  \E s \in B : \A t \in SUBSET s : t # s => t \notin B
<1> DEFINE C == {Cardinality(s) : s \in B}
<1>1. ASSUME NEW s \in B PROVE IsFiniteSet(s) /\ Cardinality(s) \in Nat
  <2>1. IsFiniteSet(s)
    BY FS_Subset
  <2> QED BY <2>1, FS_CardinalityType
<1>2. C \in SUBSET Nat /\ C # {}
  BY <1>1
<1>3. PICK n \in C : \A k \in C : n <= k
  BY <1>2, LeastElement
<1>4. PICK s \in B : Cardinality(s) = n
  BY <1>3
<1>5. ASSUME NEW t \in SUBSET s, t # s, t \in B PROVE FALSE
  <2>1. Cardinality(t) <= Cardinality(s) /\ Cardinality(t) # Cardinality(s)
    BY <1>1, <1>5, FS_Subset
  <2>2. Cardinality(s) <= Cardinality(t)
    BY <1>3, <1>4, <1>5
  <2>3. Cardinality(s) \in Nat /\ Cardinality(t) \in Nat
    BY <1>1, <1>5
  <2> QED BY <2>1, <2>2, <2>3
<1> QED BY <1>5

\* Blocks, tokens and ranks are counted from 0.
LEMMA IntervalCount ==
  ASSUME NEW n \in Nat
  PROVE  IsFiniteSet(0 .. (n - 1)) /\ Cardinality(0 .. (n - 1)) = n
<1>1. 0 \in Int /\ n - 1 \in Int
  OBVIOUS
<1>2. /\ IsFiniteSet(0 .. (n - 1))
      /\ Cardinality(0 .. (n - 1)) = IF 0 > n - 1 THEN 0 ELSE (n - 1) - 0 + 1
  BY <1>1, FS_Interval, Zenon
<1>3. (IF 0 > n - 1 THEN 0 ELSE (n - 1) - 0 + 1) = n
  OBVIOUS
<1> QED BY <1>2, <1>3

-----------------------------------------------------------------------------
(* The number of tokens that ShouldDrop compares with its threshold        *)

\* The recursion behind the sum: the value at s from that at a smaller set.
Pick(s)        == CHOOSE x \in s : TRUE
SumAt(h, v, s) == IF s = {} THEN 0 ELSE Cardinality(h[Pick(s)]) + v[s \ {Pick(s)}]
SumFn(h, S)    == CHOOSE v : v = [s \in SUBSET S |-> SumAt(h, v, s)]

LEMMA TotalDef == ASSUME NEW h, NEW S
  PROVE  Total(h, S) = SumFn(h, S)[S]
BY DEF Total, MapThenSumSet, MapThenFoldSet, SumFn, SumAt, Pick

LEMMA PickIn == ASSUME NEW s, s # {} PROVE Pick(s) \in s
BY DEF Pick

\* The recursion has a solution: there is one up to every cardinality.
LEMMA TotalExists ==
  ASSUME NEW h, NEW S, IsFiniteSet(S)
  PROVE  \A s \in SUBSET S : SumFn(h, S)[s] = SumAt(h, SumFn(h, S), s)
<1> DEFINE UpTo(n, v) == \A s \in SUBSET S : Cardinality(s) <= n => v[s] = SumAt(h, v, s)
           Bad == {n \in Nat : ~ \E v : UpTo(n, v)}
           Extend(v) == [s \in SUBSET S |-> SumAt(h, v, s)]
<1>0. ASSUME NEW s \in SUBSET S
      PROVE  /\ Cardinality(s) \in Nat
             /\ s # {} => /\ Pick(s) \in s /\ s \ {Pick(s)} \in SUBSET S
                          /\ Cardinality(s \ {Pick(s)}) = Cardinality(s) - 1
                          /\ Cardinality(s) # 0
  <2>1. IsFiniteSet(s)
    BY FS_Subset
  <2>2. Cardinality(s) \in Nat /\ (Cardinality(s) = 0 <=> s = {})
    BY <2>1, FS_CardinalityType, FS_EmptySet
  <2>3. s # {} => Pick(s) \in s
    BY PickIn
  <2>4. ASSUME s # {} PROVE Cardinality(s \ {Pick(s)}) = Cardinality(s) - 1
    BY <2>1, <2>3, <2>4, FS_RemoveElement
  <2> QED BY <2>2, <2>3, <2>4
<1>1. Bad = {}
  <2> SUFFICES ASSUME Bad # {} PROVE FALSE
    OBVIOUS
  <2>1. PICK n \in Bad : \A k \in Bad : n <= k
    BY LeastElement
  <2>2. CASE n = 0
    <3>1. UpTo(0, Extend(h))
      <4> SUFFICES ASSUME NEW s \in SUBSET S, Cardinality(s) <= 0
                   PROVE  Extend(h)[s] = SumAt(h, Extend(h), s)
        OBVIOUS
      <4>1. Cardinality(s) \in Nat /\ (s # {} => Cardinality(s) # 0)
        BY <1>0
      <4>2. s = {}
        BY <4>1
      <4> QED BY <4>2 DEF SumAt
    <3> QED BY <2>2, <3>1
  <2>3. CASE n # 0
    <3>1. n - 1 \in Nat /\ n - 1 \notin Bad
      BY <2>1, <2>3
    <3>2. PICK v : UpTo(n - 1, v)
      BY <3>1
    <3>3. ASSUME NEW s \in SUBSET S, Cardinality(s) <= n
          PROVE  Extend(v)[s] = SumAt(h, Extend(v), s)
      <4>1. CASE s = {}
        BY <4>1 DEF SumAt
      <4>2. CASE s # {}
        <5> DEFINE t == s \ {Pick(s)}
        <5>1. t \in SUBSET S /\ Cardinality(t) <= n - 1
          BY <3>3, <4>2, <1>0
        <5>2. v[t] = SumAt(h, v, t)
          BY <5>1, <3>2
        <5>3. Extend(v)[t] = v[t]
          BY <5>1, <5>2
        <5>4. SumAt(h, v, s) = SumAt(h, Extend(v), s)
          BY <4>2, <5>3 DEF SumAt
        <5> QED BY <5>4
      <4> QED BY <4>1, <4>2
    <3>4. UpTo(n, Extend(v))
      BY <3>3
    <3> QED BY <3>4, <2>1
  <2> QED BY <2>2, <2>3
<1>2. Cardinality(S) \in Nat
  BY <1>0
<1>3. PICK v : UpTo(Cardinality(S), v)
  BY <1>1, <1>2
<1>4. \A s \in SUBSET S : v[s] = SumAt(h, v, s)
  <2> SUFFICES ASSUME NEW s \in SUBSET S PROVE v[s] = SumAt(h, v, s)
    OBVIOUS
  <2>1. Cardinality(s) <= Cardinality(S)
    BY FS_Subset
  <2> QED BY <2>1, <1>3
<1>5. \A s \in SUBSET S : Extend(v)[s] = v[s]
  BY <1>4
<1>6. ASSUME NEW s \in SUBSET S PROVE SumAt(h, v, s) = SumAt(h, Extend(v), s)
  <2>1. s # {} => s \ {Pick(s)} \in SUBSET S
    OBVIOUS
  <2> QED BY <2>1, <1>5 DEF SumAt
<1>7. Extend(v) = [s \in SUBSET S |-> SumAt(h, Extend(v), s)]
  BY <1>6
<1>8. SumFn(h, S) = [s \in SUBSET S |-> SumAt(h, SumFn(h, S), s)]
  BY <1>7 DEF SumFn
<1> QED BY <1>8

\* The sum over a set is one of its elements and the sum over the others.
LEMMA TotalPick ==
  ASSUME NEW h, NEW S, IsFiniteSet(S)
  PROVE  /\ S = {} => Total(h, S) = 0
         /\ S # {} => Total(h, S) = Cardinality(h[Pick(S)]) + Total(h, S \ {Pick(S)})
<1>1. S = {} => Total(h, S) = 0
  BY TotalExists, TotalDef DEF SumAt
<1>2. ASSUME S # {} PROVE Total(h, S) = Cardinality(h[Pick(S)]) + Total(h, S \ {Pick(S)})
  <2> DEFINE T == S \ {Pick(S)}
             B == {t \in SUBSET T : SumFn(h, S)[t] # SumFn(h, T)[t]}
  <2>1. IsFiniteSet(T)
    BY FS_Subset
  <2>2. B = {}
    <3> SUFFICES ASSUME B # {} PROVE FALSE
      OBVIOUS
    <3>1. PICK s \in B : \A t \in SUBSET s : t # s => t \notin B
      <4> HIDE DEF T
      <4>1. B \in SUBSET SUBSET T
        OBVIOUS
      <4> HIDE DEF B
      <4> QED BY <4>1, <2>1, MinimalSet
    <3>2. /\ SumFn(h, S)[s] = SumAt(h, SumFn(h, S), s)
          /\ SumFn(h, T)[s] = SumAt(h, SumFn(h, T), s)
      <4>1. s \in SUBSET S /\ s \in SUBSET T
        OBVIOUS
      <4> HIDE DEF T
      <4> QED BY <4>1, <2>1, TotalExists
    <3>3. s # {}
      BY <3>2 DEF SumAt
    <3>4. Pick(s) \in s
      BY <3>3, PickIn
    <3>5. s \ {Pick(s)} \in SUBSET T /\ s \ {Pick(s)} \notin B
      BY <3>1, <3>4
    <3>6. SumFn(h, S)[s \ {Pick(s)}] = SumFn(h, T)[s \ {Pick(s)}]
      BY <3>5
    <3>7. SumFn(h, S)[s] = SumFn(h, T)[s]
      BY <3>2, <3>3, <3>6 DEF SumAt
    <3> QED BY <3>7
  <2>3. SumFn(h, S)[T] = SumFn(h, T)[T]
    BY <2>2
  <2>4. SumFn(h, S)[S] = SumAt(h, SumFn(h, S), S)
    BY TotalExists
  <2>5. SumFn(h, S)[S] = Cardinality(h[Pick(S)]) + SumFn(h, S)[T]
    BY <1>2, <2>4 DEF SumAt
  <2> QED BY <2>3, <2>5, TotalDef
<1> QED BY <1>1, <1>2

\* A sum of natural numbers is one.
LEMMA TotalType ==
  ASSUME NEW h, NEW S, IsFiniteSet(S), \A x \in S : Cardinality(h[x]) \in Nat
  PROVE  Total(h, S) \in Nat
<1> DEFINE B == {t \in SUBSET S : Total(h, t) \notin Nat}
<1>1. B = {}
  <2> SUFFICES ASSUME B # {} PROVE FALSE
    OBVIOUS
  <2>1. PICK s \in B : \A t \in SUBSET s : t # s => t \notin B
    <3>1. B \in SUBSET SUBSET S
      OBVIOUS
    <3> HIDE DEF B
    <3> QED BY <3>1, MinimalSet
  <2>2. IsFiniteSet(s)
    BY FS_Subset
  <2>3. s # {}
    <3>1. Total(h, s) \notin Nat
      OBVIOUS
    <3>2. s = {} => Total(h, s) = 0
      BY <2>2, TotalPick
    <3> QED BY <3>1, <3>2
  <2>4. Pick(s) \in s
    BY <2>3, PickIn
  <2>5. Total(h, s \ {Pick(s)}) \in Nat
    BY <2>1, <2>4
  <2>6. Cardinality(h[Pick(s)]) \in Nat
    BY <2>4
  <2>7. Total(h, s) = Cardinality(h[Pick(s)]) + Total(h, s \ {Pick(s)})
    BY <2>2, <2>3, TotalPick
  <2>8. Total(h, s) \in Nat
    BY <2>5, <2>6, <2>7
  <2> QED BY <2>8
<1> QED BY <1>1

\* The element taken out of the sum may be any.
LEMMA TotalElement ==
  ASSUME NEW h, NEW S, IsFiniteSet(S), \A y \in S : Cardinality(h[y]) \in Nat, NEW x \in S
  PROVE  Total(h, S) = Cardinality(h[x]) + Total(h, S \ {x})
<1> DEFINE Good(t) == \A y \in t : Total(h, t) = Cardinality(h[y]) + Total(h, t \ {y})
           B == {t \in SUBSET S : ~Good(t)}
<1>1. B = {}
  <2> SUFFICES ASSUME B # {} PROVE FALSE
    OBVIOUS
  <2>1. PICK s \in B : \A t \in SUBSET s : t # s => t \notin B
    <3>1. B \in SUBSET SUBSET S
      OBVIOUS
    <3> HIDE DEF B
    <3> QED BY <3>1, MinimalSet
  <2>2. IsFiniteSet(s)
    BY FS_Subset
  <2>3. PICK y \in s : Total(h, s) # Cardinality(h[y]) + Total(h, s \ {y})
    OBVIOUS
  <2> DEFINE z == Pick(s)
             t == s \ {y, z}
  <2>4. z \in s /\ Total(h, s) = Cardinality(h[z]) + Total(h, s \ {z})
    BY <2>2, TotalPick, PickIn
  <2> HIDE DEF z
  <2>5. y # z
    BY <2>3, <2>4
  <2>6. /\ s \ {z} \in SUBSET s /\ s \ {z} # s /\ y \in s \ {z} /\ (s \ {z}) \ {y} = t
        /\ s \ {y} \in SUBSET s /\ s \ {y} # s /\ z \in s \ {y} /\ (s \ {y}) \ {z} = t
    BY <2>4, <2>5
  <2>7. Good(s \ {z}) /\ Good(s \ {y})
    BY <2>1, <2>6
  <2>8. Total(h, s \ {z}) = Cardinality(h[y]) + Total(h, t)
    BY <2>6, <2>7
  <2>9. Total(h, s \ {y}) = Cardinality(h[z]) + Total(h, t)
    BY <2>6, <2>7
  <2>10. Total(h, t) \in Nat
    <3>1. IsFiniteSet(t)
      BY <2>2, FS_Subset
    <3>2. \A w \in t : Cardinality(h[w]) \in Nat
      OBVIOUS
    <3> HIDE DEF t
    <3> QED BY <3>1, <3>2, TotalType
  <2>11. Cardinality(h[y]) \in Nat /\ Cardinality(h[z]) \in Nat
    BY <2>4
  <2> HIDE DEF t
  <2> QED BY <2>3, <2>4, <2>8, <2>9, <2>10, <2>11
<1>2. S \notin B
  BY <1>1
<1> QED BY <1>2

\* A sum over fewer elements is not larger, and equal if the others are zero.
LEMMA TotalSubset ==
  ASSUME NEW h, NEW S, IsFiniteSet(S), \A x \in S : Cardinality(h[x]) \in Nat, NEW T \in SUBSET S
  PROVE  /\ Total(h, T) <= Total(h, S)
         /\ (\A x \in S \ T : Cardinality(h[x]) = 0) => Total(h, T) = Total(h, S)
<1> DEFINE Zero == \A x \in S \ T : Cardinality(h[x]) = 0
           Good(s) == Total(h, T) <= Total(h, s) /\ (Zero => Total(h, T) = Total(h, s))
           B == {s \in SUBSET S : T \in SUBSET s /\ ~Good(s)}
<1>0. ASSUME NEW s \in SUBSET S PROVE IsFiniteSet(s) /\ Total(h, s) \in Nat
  <2>1. IsFiniteSet(s)
    BY FS_Subset
  <2> QED BY <2>1, TotalType
<1>1. B = {}
  <2> SUFFICES ASSUME B # {} PROVE FALSE
    OBVIOUS
  <2>1. PICK s \in B : \A t \in SUBSET s : t # s => t \notin B
    <3>1. B \in SUBSET SUBSET S
      OBVIOUS
    <3> HIDE DEF B
    <3> QED BY <3>1, MinimalSet
  <2>2. T # s
    BY <1>0
  <2>3. PICK x \in s : x \notin T
    BY <2>2
  <2>4. s \ {x} \in SUBSET S /\ T \in SUBSET (s \ {x}) /\ s \ {x} \notin B
    BY <2>1, <2>3
  <2>5. Good(s \ {x})
    BY <2>4
  <2>6. Total(h, s) = Cardinality(h[x]) + Total(h, s \ {x})
    BY <1>0, TotalElement
  <2>7. Cardinality(h[x]) \in Nat /\ Total(h, s \ {x}) \in Nat /\ Total(h, T) \in Nat
    BY <1>0, <2>4
  <2>8. Zero => Cardinality(h[x]) = 0
    BY <2>3
  <2> HIDE DEF Zero
  <2>9. Good(s)
    BY <2>5, <2>6, <2>7, <2>8
  <2> QED BY <2>9
<1> QED BY <1>1

\* A step has at least the tokens of each of its requests.
LEMMA TotalAtLeast ==
  ASSUME NEW h, NEW S, IsFiniteSet(S), \A y \in S : Cardinality(h[y]) \in Nat, NEW x \in S
  PROVE  Cardinality(h[x]) <= Total(h, S)
<1>1. Total(h, S) = Cardinality(h[x]) + Total(h, S \ {x})
  BY TotalElement
<1>2. IsFiniteSet(S \ {x}) /\ \A y \in S \ {x} : Cardinality(h[y]) \in Nat
  BY FS_Subset
<1>3. Total(h, S \ {x}) \in Nat
  BY <1>2, TotalType
<1> QED BY <1>1, <1>3

\* Fewer tokens of each request are fewer tokens.
LEMMA TotalLeq ==
  ASSUME NEW h, NEW g, NEW S, IsFiniteSet(S),
         \A x \in S : /\ Cardinality(h[x]) \in Nat /\ Cardinality(g[x]) \in Nat
                      /\ Cardinality(h[x]) <= Cardinality(g[x])
  PROVE  Total(h, S) <= Total(g, S)
<1> DEFINE B == {t \in SUBSET S : ~(Total(h, t) <= Total(g, t))}
<1>1. B = {}
  <2> SUFFICES ASSUME B # {} PROVE FALSE
    OBVIOUS
  <2>1. PICK s \in B : \A t \in SUBSET s : t # s => t \notin B
    <3>1. B \in SUBSET SUBSET S
      OBVIOUS
    <3> HIDE DEF B
    <3> QED BY <3>1, MinimalSet
  <2>2. IsFiniteSet(s) /\ s \in SUBSET S /\ ~(Total(h, s) <= Total(g, s))
    BY FS_Subset
  <2>3. s # {}
    <3> SUFFICES ASSUME s = {} PROVE FALSE
      OBVIOUS
    <3>1. Total(h, s) = 0 /\ Total(g, s) = 0
      BY <2>2, TotalPick
    <3> QED BY <2>2, <3>1
  <2> DEFINE x == Pick(s)
             t == s \ {x}
  <2>4. x \in s
    BY <2>3, PickIn
  <2>5. Total(h, s) = Cardinality(h[x]) + Total(h, t) /\ Total(g, s) = Cardinality(g[x]) + Total(g, t)
    BY <2>2, <2>3, TotalPick
  <2> HIDE DEF x
  <2>6. Total(h, t) <= Total(g, t)
    BY <2>1, <2>4
  <2>7. /\ IsFiniteSet(t)
        /\ \A y \in t : Cardinality(h[y]) \in Nat /\ Cardinality(g[y]) \in Nat
    BY <2>2, FS_Subset
  <2> HIDE DEF t
  <2>8. Total(h, t) \in Nat /\ Total(g, t) \in Nat
    BY <2>7, TotalType
  <2>9. /\ Cardinality(h[x]) \in Nat /\ Cardinality(g[x]) \in Nat
        /\ Cardinality(h[x]) <= Cardinality(g[x])
    BY <2>2, <2>4
  <2> QED BY <2>2, <2>5, <2>6, <2>8, <2>9
<1> QED BY <1>1

-----------------------------------------------------------------------------
(* Sets of tokens and of layers in increasing order                        *)

LEMMA BeforeFacts ==
  ASSUME NEW S \in SUBSET Nat, IsFiniteSet(S)
  PROVE  /\ Cardinality(S) \in Nat
         /\ \A x \in Nat : Before(S, x) \in Nat /\ Before(S, x) <= Cardinality(S)
         /\ \A x \in S : Before(S, x) < Cardinality(S)
         /\ \A x \in S, y \in Nat : x < y => Before(S, x) < Before(S, y)
         /\ \A x, y \in S : Before(S, x) = Before(S, y) => x = y
<1> DEFINE B(x) == {y \in S : y < x}
<1>0. Cardinality(S) \in Nat
  BY FS_CardinalityType
<1>1. ASSUME NEW x \in Nat
      PROVE  /\ B(x) \in SUBSET S /\ IsFiniteSet(B(x)) /\ Before(S, x) = Cardinality(B(x))
             /\ Before(S, x) \in Nat /\ Before(S, x) <= Cardinality(S)
  <2>1. B(x) \in SUBSET S
    OBVIOUS
  <2>2. IsFiniteSet(B(x)) /\ Cardinality(B(x)) <= Cardinality(S)
    BY <2>1, FS_Subset
  <2>3. Cardinality(B(x)) \in Nat
    BY <2>2, FS_CardinalityType
  <2> QED BY <2>1, <2>2, <2>3 DEF Before
<1>2. ASSUME NEW x \in S PROVE Before(S, x) < Cardinality(S)
  <2>1. B(x) \in SUBSET S /\ B(x) # S
    OBVIOUS
  <2>2. Cardinality(B(x)) # Cardinality(S)
    BY <2>1, FS_Subset
  <2> QED BY <1>0, <1>1, <2>2
<1>3. ASSUME NEW x \in S, NEW y \in Nat, x < y PROVE Before(S, x) < Before(S, y)
  <2>0. x \in Nat /\ \A z \in S : z \in Nat
    OBVIOUS
  <2>1. B(x) \in SUBSET B(y) /\ x \in B(y) /\ x \notin B(x)
    <3>1. ASSUME NEW z \in S, z < x PROVE z < y
      BY <1>3, <2>0, <3>1
    <3>2. ~(x < x)
      BY <2>0
    <3> QED BY <1>3, <3>1, <3>2
  <2>2. Cardinality(B(x)) <= Cardinality(B(y)) /\ Cardinality(B(x)) # Cardinality(B(y))
    BY <1>1, <2>1, FS_Subset
  <2> HIDE DEF B
  <2> QED BY <1>1, <2>0, <2>2
<1>4. ASSUME NEW x \in S, NEW y \in S, Before(S, x) = Before(S, y) PROVE x = y
  <2>1. x \in Nat /\ y \in Nat /\ Before(S, x) \in Nat /\ Before(S, y) \in Nat
    BY <1>1
  <2>2. ~(x < y) /\ ~(y < x)
    BY <1>3, <1>4, <2>1
  <2> QED BY <2>1, <2>2
<1> QED BY <1>0, <1>1, <1>2, <1>3, <1>4

\* Increasing(S) enumerates S: x is at the place after those before it.
LEMMA Enumerates ==
  ASSUME NEW S \in SUBSET Nat, IsFiniteSet(S)
  PROVE  /\ DOMAIN Increasing(S) = 1 .. Cardinality(S) /\ Len(Increasing(S)) = Cardinality(S)
         /\ \A i \in 1 .. Cardinality(S) : /\ Increasing(S)[i] \in S
                                           /\ Before(S, Increasing(S)[i]) = i - 1
         /\ \A x \in S : /\ Before(S, x) + 1 \in 1 .. Cardinality(S)
                         /\ Increasing(S)[Before(S, x) + 1] = x
<1> DEFINE n == Cardinality(S)
           place == [x \in S |-> Before(S, x)]
           T == {Before(S, x) : x \in S}
<1>0. /\ n \in Nat /\ \A x \in S : Before(S, x) \in Nat /\ Before(S, x) < n
      /\ \A x, y \in S : Before(S, x) = Before(S, y) => x = y
  BY BeforeFacts
<1>1. DOMAIN Increasing(S) = 1 .. n /\ Len(Increasing(S)) = n
  BY <1>0 DEF Increasing
<1>2. T = 0 .. (n - 1)
  <2>1. place \in Bijection(S, T)
    <3>1. place \in [S -> T]
      OBVIOUS
    <3>2. \A x, y \in S : place[x] = place[y] => x = y
      BY <1>0
    <3>3. \A z \in T : \E x \in S : place[x] = z
      OBVIOUS
    <3> HIDE DEF place, T
    <3> QED BY <3>1, <3>2, <3>3 DEF Bijection, Injection, Surjection, IsInjective
  <2>2. Cardinality(T) = n
    <3> HIDE DEF place, T
    <3> QED BY <2>1, FS_Bijection DEF ExistsBijection
  <2>3. T \in SUBSET (0 .. (n - 1))
    BY <1>0
  <2>4. IsFiniteSet(0 .. (n - 1)) /\ Cardinality(0 .. (n - 1)) = n
    BY <1>0, IntervalCount
  <2> HIDE DEF T
  <2> QED BY <2>2, <2>3, <2>4, FS_Subset
<1>3. ASSUME NEW i \in 1 .. n PROVE Increasing(S)[i] \in S /\ Before(S, Increasing(S)[i]) = i - 1
  <2>1. i - 1 \in T
    <3>1. i - 1 \in 0 .. (n - 1)
      BY <1>0
    <3> QED BY <1>2, <3>1
  <2>2. \E x \in S : Before(S, x) = i - 1
    BY <2>1
  <2>3. Increasing(S)[i] = CHOOSE x \in S : Before(S, x) = i - 1
    BY DEF Increasing
  <2> QED BY <2>2, <2>3
<1>4. ASSUME NEW x \in S
      PROVE  Before(S, x) + 1 \in 1 .. n /\ Increasing(S)[Before(S, x) + 1] = x
  <2> DEFINE i == Before(S, x) + 1
  <2>1. i \in 1 .. n /\ Before(S, x) = i - 1
    BY <1>0
  <2> HIDE DEF i
  <2>2. Increasing(S)[i] \in S /\ Before(S, Increasing(S)[i]) = Before(S, x)
    BY <1>3, <2>1
  <2>3. Increasing(S)[i] = x
    BY <1>0, <2>2
  <2> QED BY <2>1, <2>3 DEF i
<1> QED BY <1>1, <1>3, <1>4

LEMMA BeforeInterval ==
  ASSUME NEW n \in Nat, NEW x \in 0 .. (n - 1)
  PROVE  Before(0 .. (n - 1), x) = x
<1>1. {y \in 0 .. (n - 1) : y < x} = 0 .. (x - 1)
  OBVIOUS
<1>2. x \in Nat
  OBVIOUS
<1>3. Cardinality(0 .. (x - 1)) = x
  BY <1>2, IntervalCount
<1> QED BY <1>1, <1>3 DEF Before

\* A later token comes behind the others.
LEMMA BeforeAppend ==
  ASSUME NEW n \in Nat, NEW S \in SUBSET (0 .. (n - 1))
  PROVE  /\ IsFiniteSet(S) /\ IsFiniteSet(S \cup {n})
         /\ Cardinality(S) \in Nat /\ Cardinality(S) <= n
         /\ Cardinality(S \cup {n}) = Cardinality(S) + 1
         /\ Before(S \cup {n}, n) = Cardinality(S)
         /\ \A x \in S : Before(S \cup {n}, x) = Before(S, x)
<1>1. IsFiniteSet(0 .. (n - 1)) /\ Cardinality(0 .. (n - 1)) = n
  BY IntervalCount
<1>2. IsFiniteSet(S) /\ Cardinality(S) <= n
  BY <1>1, FS_Subset
<1>3. Cardinality(S) \in Nat
  BY <1>2, FS_CardinalityType
<1>4. n \notin S /\ \A x \in S : x < n /\ x \in Nat
  OBVIOUS
<1>5. IsFiniteSet(S \cup {n}) /\ Cardinality(S \cup {n}) = Cardinality(S) + 1
  BY <1>2, <1>4, FS_AddElement
<1>6. {y \in S \cup {n} : y < n} = S
  <2>1. ~(n < n)
    OBVIOUS
  <2> QED BY <1>4, <2>1
<1>7. ASSUME NEW x \in S PROVE {y \in S \cup {n} : y < x} = {y \in S : y < x}
  <2>1. ~(n < x)
    BY <1>4
  <2> QED BY <2>1
<1> QED BY <1>2, <1>3, <1>5, <1>6, <1>7 DEF Before

-----------------------------------------------------------------------------
(* The inductive invariant                                                 *)

Types ==
  /\ config \in Configs
  /\ status \in [Requests -> {"waiting", "running", "finished"}]
  /\ numTokens \in [Requests -> Nat] /\ numComputed \in [Requests -> Nat]
  /\ DOMAIN record = Requests /\ DOMAIN kv = Requests /\ DOMAIN alive = Requests
  /\ DOMAIN attended = Requests /\ DOMAIN sampled = Requests

\* The scheduler's counts, and when a request has a record.
Counts(r) ==
  /\ PromptLen[r] <= numTokens[r] /\ numTokens[r] <= MaxLen[r]
  /\ numComputed[r] < numTokens[r]
  /\ status[r] = "waiting" => numComputed[r] = 0
  /\ status[r] = "running" => numComputed[r] > 0
  /\ NeverDrops(config) => record[r] = << >>
  /\ ~NeverDrops(config) =>
       /\ status[r] = "waiting" => record[r] = << >> /\ numTokens[r] = PromptLen[r]
       /\ status[r] = "running" => /\ record[r] # << >> /\ record[r][1].len \in 1 .. numComputed[r]
                                   /\ \A l \in Layer : LenAtLayer(r, l) \in Nat
                                   /\ numComputed[r] = numTokens[r] - 1

Records(r) ==
  \A i \in DOMAIN record[r] :
    record[r][i].layer \in Layer /\ record[r][i].len \in 1 .. numTokens[r]

Released(r) == sampled[r] = -1 /\ \A l \in Layer : alive[r][l] = {} /\ attended[r][l] = << >>

\* The slots of layer l hold the tokens that reached it in order, from where the
\* manager has taken blocks back on.
Stored(r, l) ==
  \A t \in alive[r][l] : Before(alive[r][l], t) >= TakenBack(r, l) =>
    kv[r][l][Before(alive[r][l], t)] = <<r, t>>

Reads(r, l) ==
  LET tokens == Increasing(alive[r][l])
      first  == MaxNat(0, Len(tokens) - Window(r, l))
  IN  attended[r][l] = [i \in 1 .. (Len(tokens) - first) |-> <<r, tokens[first + i]>>]

LayerOK(r, l) ==
  /\ alive[r][l] \subseteq 0 .. (numComputed[r] - 1)
  /\ NeverDrops(config) \/ l <= FirstDrop => alive[r][l] = 0 .. (numComputed[r] - 1)
  /\ Stored(r, l)
  /\ SeqUsed([x \in Requests |-> 0], r, l) = Cardinality(alive[r][l])
  /\ Reads(r, l)

RequestOK(r) ==
  /\ Counts(r) /\ Records(r)
  /\ status[r] # "running" => Released(r)
  /\ status[r] = "running" => sampled[r] = numComputed[r] - 1 /\ \A l \in Layer : LayerOK(r, l)

IInv == Types /\ \A r \in Requests : RequestOK(r)

-----------------------------------------------------------------------------
(* The forward pass                                                        *)

\* A step as the scheduler forms it.
Pass(batch, q, dropped) ==
  /\ batch \in Batches
  /\ \A r \in Range(batch) : q[r] \in Scheduled(r) /\ numTokens[r] < MaxLen[r]
  /\ dropped \in Selections(batch, q)

LEMMA FirstDropFacts ==
  /\ FirstDrop \in DropLayers /\ FirstDrop \in Layer /\ FirstDrop \in Nat
  /\ \A l \in DropLayers : FirstDrop <= l
  /\ NumLayers \in Nat \ {0}
<1>1. DropLayers \in SUBSET Nat /\ DropLayers # {} /\ DropLayers \in SUBSET Layer /\ NumLayers \in Nat
  BY DropAssumption DEF Layer
<1>2. \E l \in DropLayers : \A k \in DropLayers : l <= k
  BY <1>1, LeastElement
<1>3. FirstDrop \in DropLayers /\ \A l \in DropLayers : FirstDrop <= l
  BY <1>2 DEF FirstDrop
<1>4. FirstDrop \in 0 .. (NumLayers - 1)
  BY <1>1, <1>3 DEF Layer
<1> QED BY <1>1, <1>3, <1>4

LEMMA ConfigFacts ==
  ASSUME Types
  PROVE  /\ AttentionSink \in Nat \ {0} /\ LastQ \in Nat \ {0}
         /\ SlidingWindow \in Nat \ {0} /\ Sliding \subseteq Layer
         /\ BlockSize \in Nat \ {0} /\ IsFiniteSet(Requests)
         /\ \A r \in Requests : PromptLen[r] \in Nat \ {0} /\ MaxLen[r] \in Nat
BY DropAssumption DEF Types, AttentionSink, LastQ, SlidingWindow, Sliding

\* What the counts say about a step.
LEMMA PassFacts ==
  ASSUME IInv, NEW batch, NEW q, NEW dropped, Pass(batch, q, dropped)
  PROVE  /\ Range(batch) \subseteq Requests /\ IsFiniteSet(Range(batch))
         /\ \A i, j \in DOMAIN batch : batch[i] = batch[j] => i = j
         /\ \A r \in Range(batch) :
              /\ status[r] # "finished"
              /\ q[r] \in Nat \ {0} /\ numComputed[r] \in Nat
              /\ numComputed[r] + q[r] <= numTokens[r] /\ numTokens[r] < MaxLen[r]
              /\ ~ChunkedPrefill => numComputed[r] + q[r] = numTokens[r]
<1> DEFINE rs == {r \in Requests : status[r] # "finished"}
<1>0. PICK k : batch \in [1 .. k -> rs] /\ IsInjective(batch)
  BY DEF Pass, Batches
<1>1. Range(batch) \subseteq rs
  BY <1>0 DEF Range
<1>2. \A i, j \in DOMAIN batch : batch[i] = batch[j] => i = j
  BY <1>0 DEF IsInjective
<1>3. IsFiniteSet(Range(batch))
  BY <1>1, DropAssumption, FS_Subset
<1>4. ASSUME NEW r \in Range(batch)
      PROVE  /\ q[r] \in Nat \ {0} /\ numComputed[r] \in Nat
             /\ numComputed[r] + q[r] <= numTokens[r] /\ numTokens[r] < MaxLen[r]
             /\ ~ChunkedPrefill => numComputed[r] + q[r] = numTokens[r]
  <2>1. r \in Requests
    BY <1>1
  <2>2. /\ numComputed[r] \in Nat /\ numTokens[r] \in Nat /\ numComputed[r] < numTokens[r]
    BY <2>1 DEF IInv, Types, RequestOK, Counts
  <2>3. /\ q[r] \in 1 .. (numTokens[r] - numComputed[r])
        /\ ~ChunkedPrefill => q[r] = numTokens[r] - numComputed[r]
    <3>1. q[r] \in Scheduled(r)
      BY DEF Pass
    <3>2. CASE ChunkedPrefill
      BY <3>1, <3>2 DEF Scheduled
    <3>3. CASE ~ChunkedPrefill
      <4>1. q[r] = numTokens[r] - numComputed[r]
        BY <3>1, <3>3 DEF Scheduled
      <4> QED BY <2>2, <4>1
    <3> QED BY <3>2, <3>3
  <2>4. numTokens[r] < MaxLen[r]
    BY DEF Pass
  <2> QED BY <2>2, <2>3, <2>4
<1> QED BY <1>1, <1>2, <1>3, <1>4

\* The tokens of a request in a step: how many, and which may be dropped.  The
\* first and the last may not.
LEMMA QueryFacts ==
  ASSUME Types, NEW q, NEW r, q[r] \in Nat \ {0}, numComputed[r] \in Nat
  PROVE  /\ Query(q, r) = numComputed[r] .. (numComputed[r] + q[r] - 1)
         /\ IsFiniteSet(Query(q, r)) /\ Cardinality(Query(q, r)) = q[r]
         /\ numComputed[r] \in Query(q, r) \ Droppable(q, r)
         /\ numComputed[r] + q[r] - 1 \in Query(q, r) \ Droppable(q, r)
<1> DEFINE c == numComputed[r]
           n == q[r]
<1>0. c \in Nat /\ n \in Nat \ {0}
  OBVIOUS
<1>1. Query(q, r) = c .. (c + n - 1)
  BY DEF Query
<1>10. Droppable(q, r) = {t \in Query(q, r) : /\ Before(Query(q, r), t) >= AttentionSink
                                             /\ Before(Query(q, r), t) < n - LastQ}
  BY DEF Droppable
<1> HIDE DEF c, n
<1>2. c \in Int /\ c + n - 1 \in Int /\ ~(c > c + n - 1) /\ (c + n - 1) - c + 1 = n
  BY <1>0
<1>3. IsFiniteSet(c .. (c + n - 1)) /\ Cardinality(c .. (c + n - 1)) = n
  BY <1>2, FS_Interval
<1>4. c \in Query(q, r) /\ c + n - 1 \in Query(q, r)
  BY <1>0, <1>1
<1>5. Before(Query(q, r), c) = 0
  <2>1. {y \in c .. (c + n - 1) : y < c} = {}
    BY <1>0
  <2> QED BY <1>1, <2>1, FS_EmptySet DEF Before
<1>6. Before(Query(q, r), c + n - 1) = n - 1
  <2>1. {y \in c .. (c + n - 1) : y < c + n - 1} = c .. (c + n - 2)
    BY <1>0
  <2>2. c + n - 2 \in Int
    BY <1>0
  <2>3. Cardinality(c .. (c + n - 2)) = IF c > c + n - 2 THEN 0 ELSE (c + n - 2) - c + 1
    BY <1>2, <2>2, FS_Interval, Zenon
  <2>4. (IF c > c + n - 2 THEN 0 ELSE (c + n - 2) - c + 1) = n - 1
    BY <1>0
  <2> QED BY <1>1, <2>1, <2>3, <2>4 DEF Before
<1>7. AttentionSink \in Nat \ {0} /\ LastQ \in Nat \ {0}
  BY ConfigFacts
<1>8. c \notin Droppable(q, r)
  BY <1>5, <1>7, <1>10
<1>9. c + n - 1 \notin Droppable(q, r)
  <2>1. ~(n - 1 < n - LastQ)
    BY <1>0, <1>7
  <2> QED BY <1>6, <1>10, <2>1
<1> QED BY <1>1, <1>3, <1>4, <1>8, <1>9 DEF c, n

\* The tokens from layer to layer.
IsHidden(batch, q, dropped, hidden) ==
  /\ hidden[0] = [r \in Range(batch) |-> Query(q, r)]
  /\ \A l \in Layer :
       hidden[l + 1] = IF ShouldDrop(batch, q, hidden[l], l)
                         THEN Kept(q, dropped, hidden[l], l)
                         ELSE hidden[l]

\* The recursion over the layers has a solution.
LEMMA HiddenDef ==
  ASSUME NEW batch, NEW q, NEW dropped
  PROVE  IsHidden(batch, q, dropped, Hidden(batch, q, dropped))
<1> DEFINE hidden == Hidden(batch, q, dropped)
           base == [r \in Range(batch) |-> Query(q, r)]
           Nxt(h, l) == IF ShouldDrop(batch, q, h, l) THEN Kept(q, dropped, h, l) ELSE h
           Is(h, n) == h = [l \in 0 .. n |-> IF l = 0 THEN base ELSE Nxt(h[l - 1], l - 1)]
           Bad == {n \in Nat : ~ \E h : Is(h, n)}
<1>0. hidden = CHOOSE h : Is(h, NumLayers)
  BY DEF Hidden
<1> HIDE DEF base, Nxt, hidden
<1>1. Bad = {}
  <2> SUFFICES ASSUME Bad # {} PROVE FALSE
    OBVIOUS
  <2>1. PICK n \in Bad : \A k \in Bad : n <= k
    BY LeastElement
  <2>2. n # 0
    <3> SUFFICES ASSUME n = 0 PROVE FALSE
      OBVIOUS
    <3> DEFINE h == [l \in 0 .. 0 |-> base]
    <3>1. Is(h, 0)
      OBVIOUS
    <3> QED BY <3>1
  <2>3. n - 1 \in Nat /\ n - 1 \notin Bad
    <3>1. n \in Nat
      BY <2>1
    <3> HIDE DEF Bad
    <3>2. n - 1 \in Bad => n <= n - 1
      BY <2>1
    <3> QED BY <2>2, <3>1, <3>2
  <2>4. PICK v : Is(v, n - 1)
    BY <2>3
  <2> DEFINE w == [l \in 0 .. n |-> IF l = 0 THEN base ELSE Nxt(v[l - 1], l - 1)]
  <2>5. \A l \in 0 .. (n - 1) : w[l] = v[l]
    BY <2>3, <2>4
  <2>6. \A l \in 0 .. n : w[l] = IF l = 0 THEN base ELSE Nxt(w[l - 1], l - 1)
    <3> SUFFICES ASSUME NEW l \in 0 .. n, l # 0 PROVE w[l] = Nxt(w[l - 1], l - 1)
      OBVIOUS
    <3>1. w[l] = Nxt(v[l - 1], l - 1) /\ l - 1 \in 0 .. (n - 1)
      OBVIOUS
    <3>2. w[l - 1] = v[l - 1]
      BY <2>5, <3>1
    <3> QED BY <3>1, <3>2
  <2>7. Is(w, n)
    BY <2>6
  <2> QED BY <2>7
<1>2. NumLayers \in Nat
  BY DropAssumption
<1>3. Is(hidden, NumLayers)
  BY <1>0, <1>1, <1>2
<1>4. \A l \in 0 .. NumLayers : hidden[l] = IF l = 0 THEN base ELSE Nxt(hidden[l - 1], l - 1)
  <2> DEFINE step == [l \in 0 .. NumLayers |-> IF l = 0 THEN base ELSE Nxt(hidden[l - 1], l - 1)]
  <2>1. \A l \in 0 .. NumLayers : step[l] = IF l = 0 THEN base ELSE Nxt(hidden[l - 1], l - 1)
    OBVIOUS
  <2>2. hidden = step
    BY <1>3
  <2> HIDE DEF step, Is
  <2> QED BY <2>1, <2>2
<1> HIDE DEF Is
<1>5. hidden[0] = base
  BY <1>2, <1>4
<1>6. ASSUME NEW l \in Layer PROVE hidden[l + 1] = Nxt(hidden[l], l)
  <2>1. l + 1 \in 0 .. NumLayers /\ l + 1 # 0 /\ (l + 1) - 1 = l
    BY <1>2 DEF Layer
  <2> QED BY <1>4, <2>1
<1> QED BY <1>5, <1>6 DEF base, Nxt, hidden, IsHidden

\* Nothing changes between two layers if none of those between them drops.
LEMMA HiddenStays ==
  ASSUME NEW batch, NEW q, NEW dropped, NEW hidden, IsHidden(batch, q, dropped, hidden),
         NEW d \in 0 .. NumLayers, NEW e \in d .. NumLayers,
         \A l \in d .. (e - 1) : ~ShouldDrop(batch, q, hidden[l], l)
  PROVE  hidden[e] = hidden[d]
<1> DEFINE Bad == {l \in d .. e : hidden[l] # hidden[d]}
<1>0. NumLayers \in Nat /\ d \in Nat /\ e \in Nat
  BY DropAssumption
<1>1. Bad = {}
  <2> SUFFICES ASSUME Bad # {} PROVE FALSE
    OBVIOUS
  <2>1. PICK l \in Bad : \A k \in Bad : l <= k
    <3>1. Bad \in SUBSET Nat
      BY <1>0
    <3> HIDE DEF Bad
    <3> QED BY <3>1, LeastElement
  <2>2. l \in d .. e /\ hidden[l] # hidden[d] /\ l # d
    OBVIOUS
  <2>3. l - 1 \in d .. (e - 1) /\ l - 1 \in Layer /\ (l - 1) + 1 = l /\ l - 1 \in d .. e /\ ~(l <= l - 1)
    BY <1>0, <2>2 DEF Layer
  <2>4. hidden[l - 1] = hidden[d]
    BY <2>1, <2>3
  <2>5. hidden[l] = hidden[l - 1]
    <3>1. hidden[(l - 1) + 1] = IF ShouldDrop(batch, q, hidden[l - 1], l - 1)
                                  THEN Kept(q, dropped, hidden[l - 1], l - 1)
                                  ELSE hidden[l - 1]
      BY <2>3 DEF IsHidden
    <3>2. ~ShouldDrop(batch, q, hidden[l - 1], l - 1)
      BY <2>3
    <3> QED BY <2>3, <3>1, <3>2
  <2> QED BY <2>2, <2>4, <2>5
<1>2. e \in d .. e
  BY <1>0
<1> QED BY <1>1, <1>2

\* In every layer: a request keeps tokens of the step, the first and the last of
\* them among them, and a decode its only one.
LEMMA HiddenTokens ==
  ASSUME IInv, NEW batch, NEW q, NEW dropped, Pass(batch, q, dropped),
         NEW hidden, IsHidden(batch, q, dropped, hidden)
  PROVE  \A l \in 0 .. NumLayers :
           /\ DOMAIN hidden[l] = Range(batch)
           /\ \A r \in Range(batch) : /\ hidden[l][r] \subseteq Query(q, r)
                                      /\ Query(q, r) \ Droppable(q, r) \subseteq hidden[l][r]
                                      /\ q[r] = 1 => hidden[l][r] = Query(q, r)
<1> DEFINE Good(l) ==
             /\ DOMAIN hidden[l] = Range(batch)
             /\ \A r \in Range(batch) : /\ hidden[l][r] \subseteq Query(q, r)
                                        /\ Query(q, r) \ Droppable(q, r) \subseteq hidden[l][r]
                                        /\ q[r] = 1 => hidden[l][r] = Query(q, r)
           Bad == {l \in 0 .. NumLayers : ~Good(l)}
<1>0. NumLayers \in Nat
  BY DropAssumption
<1>1. Good(0)
  <2>1. hidden[0] = [r \in Range(batch) |-> Query(q, r)]
    BY DEF IsHidden
  <2> QED BY <2>1
<1>2. ASSUME NEW l \in Layer, Good(l) PROVE Good(l + 1)
  <2>1. CASE ShouldDrop(batch, q, hidden[l], l)
    <3>1. hidden[l + 1] = Kept(q, dropped, hidden[l], l)
      BY <2>1 DEF IsHidden
    <3>2. DOMAIN hidden[l + 1] = Range(batch)
      BY <1>2, <3>1 DEF Kept
    <3>3. ASSUME NEW r \in Range(batch)
          PROVE  /\ hidden[l + 1][r] \subseteq Query(q, r)
                 /\ Query(q, r) \ Droppable(q, r) \subseteq hidden[l + 1][r]
                 /\ q[r] = 1 => hidden[l + 1][r] = Query(q, r)
      <4>1. hidden[l + 1][r] = IF Cardinality(hidden[l][r]) > 1
                                 THEN hidden[l][r] \ {t \in Droppable(q, r) : <<r, t>> \in dropped[l]}
                                 ELSE hidden[l][r]
        BY <1>2, <3>1 DEF Kept
      <4>2. ASSUME q[r] = 1 PROVE ~(Cardinality(hidden[l][r]) > 1)
        <5>1. q[r] \in Nat \ {0} /\ numComputed[r] \in Nat
          BY PassFacts
        <5>2. Cardinality(Query(q, r)) = 1
          BY <4>2, <5>1, QueryFacts DEF IInv
        <5> QED BY <1>2, <4>2, <5>2
      <4> QED BY <1>2, <4>1, <4>2
    <3> QED BY <3>2, <3>3
  <2>2. CASE ~ShouldDrop(batch, q, hidden[l], l)
    <3>1. hidden[l + 1] = hidden[l]
      BY <2>2 DEF IsHidden
    <3> QED BY <1>2, <3>1
  <2> QED BY <2>1, <2>2
<1> HIDE DEF Good
<1>3. Bad = {}
  <2> SUFFICES ASSUME Bad # {} PROVE FALSE
    OBVIOUS
  <2>1. PICK l \in Bad : \A k \in Bad : l <= k
    <3>1. Bad \in SUBSET Nat
      BY <1>0
    <3> HIDE DEF Bad
    <3> QED BY <3>1, LeastElement
  <2>2. l \in 0 .. NumLayers /\ ~Good(l) /\ l # 0
    BY <1>1
  <2>3. l - 1 \in 0 .. NumLayers /\ l - 1 \in Layer /\ (l - 1) + 1 = l /\ ~(l <= l - 1)
    BY <1>0, <2>2 DEF Layer
  <2>4. Good(l - 1)
    BY <2>1, <2>3
  <2>5. Good((l - 1) + 1)
    BY <1>2, <2>3, <2>4
  <2> QED BY <2>2, <2>3, <2>5
<1>4. \A l \in 0 .. NumLayers : Good(l)
  BY <1>3
<1> QED BY <1>4 DEF Good

LEMMA HiddenCounts ==
  ASSUME IInv, NEW batch, NEW q, NEW dropped, Pass(batch, q, dropped),
         NEW hidden, IsHidden(batch, q, dropped, hidden),
         NEW l \in 0 .. NumLayers, NEW r \in Range(batch)
  PROVE  /\ hidden[l][r] \subseteq Query(q, r) /\ hidden[l][r] \subseteq Nat
         /\ IsFiniteSet(hidden[l][r]) /\ Cardinality(hidden[l][r]) \in 1 .. q[r]
         /\ Cardinality(hidden[l][r]) = 1 <=> q[r] = 1
         /\ q[r] = 1 => hidden[l][r] = {numComputed[r]}
         /\ numComputed[r] + q[r] - 1 \in hidden[l][r]
<1> DEFINE c == numComputed[r]
           n == q[r]
           H == hidden[l][r]
<1>0. c \in Nat /\ n \in Nat \ {0} /\ Types
  BY PassFacts DEF IInv
<1>1. /\ Query(q, r) = c .. (c + n - 1) /\ IsFiniteSet(Query(q, r)) /\ Cardinality(Query(q, r)) = n
      /\ c \in Query(q, r) \ Droppable(q, r) /\ c + n - 1 \in Query(q, r) \ Droppable(q, r)
  BY <1>0, QueryFacts
<1>2. H \subseteq Query(q, r) /\ (n = 1 => H = Query(q, r)) /\ c \in H /\ c + n - 1 \in H
  BY <1>1, HiddenTokens
<1> HIDE DEF c, n, H
<1>3. IsFiniteSet(H) /\ Cardinality(H) <= n
  BY <1>1, <1>2, FS_Subset
<1>4. Cardinality(H) \in Nat /\ Cardinality(H) # 0
  BY <1>2, <1>3, FS_CardinalityType, FS_EmptySet
<1>5. H \subseteq Nat
  BY <1>0, <1>1, <1>2
<1>6. ASSUME n # 1 PROVE Cardinality(H) # 1
  <2> SUFFICES ASSUME Cardinality(H) = 1 PROVE FALSE
    OBVIOUS
  <2>1. PICK x : H = {x}
    BY <1>3, FS_Singleton
  <2> QED BY <1>0, <1>2, <1>6, <2>1
<1>7. n = 1 => H = {c} /\ Cardinality(H) = 1
  BY <1>0, <1>1, <1>2
<1> QED BY <1>0, <1>2, <1>3, <1>4, <1>5, <1>6, <1>7 DEF c, n, H

\* The layers up to the first that drops have all tokens.
LEMMA BeforeFirstDrop ==
  ASSUME IInv, NEW batch, NEW q, NEW dropped, Pass(batch, q, dropped),
         NEW hidden, IsHidden(batch, q, dropped, hidden),
         NEW l \in 0 .. NumLayers, ~Rewritten(batch, q, hidden, l), NEW r \in Range(batch)
  PROVE  hidden[l][r] = Query(q, r)
<1>0. NumLayers \in Nat /\ l \in 0 .. NumLayers /\ 0 \in 0 .. NumLayers
  BY DropAssumption
<1>1. \A d \in 0 .. (l - 1) : ~ShouldDrop(batch, q, hidden[d], d)
  BY DEF Rewritten
<1>2. hidden[l] = hidden[0]
  BY <1>0, <1>1, HiddenStays
<1>3. hidden[0][r] = Query(q, r)
  BY DEF IsHidden
<1> QED BY <1>2, <1>3

LEMMA NotRewritten ==
  ASSUME NEW batch, NEW q, NEW hidden, NEW l \in 0 .. NumLayers, l <= FirstDrop
  PROVE  ~Rewritten(batch, q, hidden, l)
<1>1. \A d \in 0 .. (l - 1) : d \notin DropLayers
  <2> SUFFICES ASSUME NEW d \in 0 .. (l - 1), d \in DropLayers PROVE FALSE
    OBVIOUS
  <2>1. FirstDrop \in Nat /\ FirstDrop <= d
    BY FirstDropFacts
  <2>2. l \in Nat /\ d \in Nat /\ d < l
    BY DropAssumption
  <2> QED BY <2>1, <2>2
<1> QED BY <1>1 DEF Rewritten, ShouldDrop

\* A server that never drops has no layer with fewer tokens.
LEMMA NeverDropsFacts ==
  ASSUME IInv, NEW batch, NEW q, NEW dropped, Pass(batch, q, dropped),
         NEW hidden, IsHidden(batch, q, dropped, hidden), NeverDrops(config)
  PROVE  \A l \in 0 .. NumLayers : ~Rewritten(batch, q, hidden, l)
<1> DEFINE S == Range(batch)
           g == [r \in Requests |-> Token(r)]
<1>0. S \subseteq Requests /\ IsFiniteSet(S) /\ IsFiniteSet(Requests)
  BY PassFacts, DropAssumption
<1>1. \A r \in Requests : g[r] = Token(r) /\ IsFiniteSet(Token(r)) /\ Cardinality(g[r]) \in Nat
  <2> SUFFICES ASSUME NEW r \in Requests
               PROVE  g[r] = Token(r) /\ IsFiniteSet(Token(r)) /\ Cardinality(g[r]) \in Nat
    OBVIOUS
  <2>1. MaxLen[r] \in Nat
    BY DropAssumption
  <2>2. IsFiniteSet(Token(r)) /\ Cardinality(Token(r)) = MaxLen[r]
    BY <2>1, IntervalCount DEF Token
  <2> QED BY <2>1, <2>2
<1>2. Total(g, Requests) <= AttentionSink + LastQ
  BY DEF NeverDrops, AttentionSink, LastQ
<1> HIDE DEF g
<1>3. ASSUME NEW l \in 0 .. NumLayers PROVE ~ShouldDrop(batch, q, hidden[l], l)
  <2> DEFINE h == hidden[l]
  <2>1. ASSUME NEW r \in S
        PROVE  /\ Cardinality(h[r]) \in Nat /\ Cardinality(g[r]) \in Nat
               /\ Cardinality(h[r]) <= Cardinality(g[r])
    <3>1. h[r] \subseteq Query(q, r) /\ Cardinality(h[r]) \in 1 .. q[r]
      BY HiddenCounts
    <3>2. r \in Requests /\ numComputed[r] \in Nat /\ q[r] \in Nat \ {0}
          /\ numComputed[r] + q[r] <= numTokens[r] /\ numTokens[r] < MaxLen[r]
      BY <1>0, PassFacts
    <3>3. MaxLen[r] \in Nat /\ numTokens[r] \in Nat
      BY <3>2, DropAssumption DEF IInv, Types
    <3>4. h[r] \in SUBSET Token(r)
      BY <3>1, <3>2, <3>3 DEF Query, Token
    <3>5. Cardinality(h[r]) <= Cardinality(Token(r))
      BY <1>1, <3>2, <3>4, FS_Subset
    <3> QED BY <1>1, <3>1, <3>2, <3>5
  <2> HIDE DEF h
  <2>2. Total(h, S) <= Total(g, S)
    BY <1>0, <2>1, TotalLeq
  <2>3. Total(g, S) <= Total(g, Requests)
    BY <1>0, <1>1, TotalSubset
  <2>4. Total(h, S) \in Nat /\ Total(g, S) \in Nat /\ Total(g, Requests) \in Nat
    BY <1>0, <1>1, <2>1, TotalType
  <2>5. AttentionSink \in Nat /\ LastQ \in Nat
    BY ConfigFacts DEF IInv
  <2>6. ~(Total(h, S) > AttentionSink + LastQ)
    BY <1>2, <2>2, <2>3, <2>4, <2>5
  <2> QED BY <2>6 DEF ShouldDrop, Total, h
<1>4. NumLayers \in Nat
  BY DropAssumption
<1>5. ASSUME NEW l \in 0 .. NumLayers, NEW d \in 0 .. (l - 1) PROVE d \in 0 .. NumLayers
  BY <1>4
<1> QED BY <1>3, <1>5 DEF Rewritten

\* A server that drops: a request is computed in one step that drops, then token
\* by token with a record.
LEMMA WholeFacts ==
  ASSUME Supported, IInv, NEW batch, NEW q, NEW dropped, Pass(batch, q, dropped),
         NEW hidden, IsHidden(batch, q, dropped, hidden), ~NeverDrops(config),
         NEW r \in Range(batch)
  PROVE  /\ ~ChunkedPrefill /\ ~Preemption /\ \A l \in Sliding : l <= FirstDrop
         /\ q[r] = 1 <=> status[r] = "running"
         /\ q[r] # 1 <=> status[r] = "waiting"
         /\ status[r] = "waiting" => numComputed[r] = 0 /\ record[r] = << >>
         /\ status[r] = "running" => record[r] # << >>
         /\ q[r] # 1 => \A l \in 0 .. NumLayers : l > FirstDrop => Rewritten(batch, q, hidden, l)
<1>0. WholePrompts(config)
  BY DEF Supported, IInv, Types
<1>1. ~ChunkedPrefill /\ ~Preemption /\ \A l \in Sliding : l <= FirstDrop
  BY <1>0 DEF WholePrompts, ChunkedPrefill, Preemption, Sliding
<1>2. /\ r \in Requests /\ status[r] # "finished" /\ q[r] \in Nat \ {0} /\ numComputed[r] \in Nat
      /\ numComputed[r] + q[r] = numTokens[r]
  BY <1>1, PassFacts
<1>3. /\ status[r] = "waiting" \/ status[r] = "running"
      /\ status[r] = "waiting" => /\ numComputed[r] = 0 /\ record[r] = << >>
                                  /\ numTokens[r] = PromptLen[r]
      /\ status[r] = "running" => record[r] # << >> /\ numComputed[r] = numTokens[r] - 1
      /\ numTokens[r] \in Nat
  BY <1>2 DEF IInv, Types, RequestOK, Counts
<1>4. /\ PromptLen[r] > AttentionSink + LastQ /\ PromptLen[r] \in Nat
      /\ AttentionSink \in Nat \ {0} /\ LastQ \in Nat \ {0}
  BY <1>0, <1>2, ConfigFacts DEF WholePrompts, AttentionSink, LastQ, IInv
<1>5. /\ q[r] = 1 <=> status[r] = "running"
      /\ q[r] # 1 <=> status[r] = "waiting"
  BY <1>2, <1>3, <1>4
<1>6. ASSUME q[r] # 1, NEW l \in 0 .. NumLayers, l > FirstDrop
      PROVE  Rewritten(batch, q, hidden, l)
  <2> DEFINE d == FirstDrop
             h == hidden[d]
  <2>0. d \in Layer /\ d \in DropLayers /\ NumLayers \in Nat /\ d \in 0 .. NumLayers /\ d \in Nat
    BY FirstDropFacts DEF Layer
  <2>1. ~Rewritten(batch, q, hidden, d)
    BY <2>0, NotRewritten
  <2>2. h[r] = Query(q, r)
    BY <2>0, <2>1, BeforeFirstDrop
  <2>3. Cardinality(h[r]) = q[r]
    BY <1>2, <2>2, QueryFacts DEF IInv
  <2>4. IsFiniteSet(Range(batch)) /\ \A x \in Range(batch) : Cardinality(h[x]) \in Nat
    <3>1. ASSUME NEW x \in Range(batch) PROVE Cardinality(h[x]) \in Nat
      <4>1. Cardinality(h[x]) \in 1 .. q[x]
        BY <2>0, HiddenCounts
      <4> QED BY <4>1
    <3> QED BY <3>1, PassFacts
  <2> HIDE DEF h
  <2>5. Cardinality(h[r]) <= Total(h, Range(batch)) /\ Total(h, Range(batch)) \in Nat
    BY <2>4, TotalAtLeast, TotalType
  <2>6. q[r] > AttentionSink + LastQ /\ q[r] > 1
    BY <1>2, <1>3, <1>4, <1>5, <1>6
  <2>7. Total(h, Range(batch)) > AttentionSink + LastQ
    BY <1>2, <1>4, <2>3, <2>5, <2>6
  <2>8. ShouldDrop(batch, q, h, d)
    BY <2>0, <2>6, <2>7 DEF ShouldDrop, IsPrefillStep, Total
  <2>9. d \in 0 .. (l - 1)
    BY <1>6, <2>0
  <2> QED BY <2>8, <2>9 DEF Rewritten, h
<1> QED BY <1>1, <1>3, <1>5, <1>6

-----------------------------------------------------------------------------
(* Where a step writes and how much it reads                               *)

SlotOf(batch, q, hidden, l, r, t) ==
  IF Overridden(batch, l) /\ Cardinality(hidden[l][r]) = 1
    THEN SeqUsed(q, r, l) - 1
    ELSE MetaSlot(batch, q, hidden, l, r, t)

\* The tokens that have reached layer l after the step.
Reached(hidden, l, r) == alive[r][l] \cup hidden[l][r]

\* The slot mapping of a decode is only used when there is a decode.
LEMMA WritesOwn ==
  ASSUME Supported, IInv, NEW batch, NEW q, NEW dropped, Pass(batch, q, dropped),
         NEW hidden, IsHidden(batch, q, dropped, hidden), NEW l \in Layer
  PROVE  KVWrites(batch, q, hidden, l) =
           UNION {{<<r, SlotOf(batch, q, hidden, l, r, t), r, t>> : t \in hidden[l][r]} :
                  r \in Range(batch)}
<1>1. ~(Overridden(batch, l) /\ \A r \in Range(batch) : Cardinality(hidden[l][r]) # 1)
  <2> SUFFICES ASSUME Overridden(batch, l), \A r \in Range(batch) : Cardinality(hidden[l][r]) # 1
               PROVE  FALSE
    OBVIOUS
  <2>1. PICK r \in Range(batch) : record[r] # << >>
    BY DEF Overridden
  <2>2. r \in Requests
    BY PassFacts
  <2>3. ~NeverDrops(config)
    BY <2>1, <2>2 DEF IInv, RequestOK, Counts
  <2>4. q[r] = 1
    BY <2>1, <2>3, WholeFacts
  <2>5. l \in 0 .. NumLayers
    BY DropAssumption DEF Layer
  <2>6. Cardinality(hidden[l][r]) = 1
    BY <2>4, <2>5, HiddenCounts
  <2> QED BY <2>6
<1> QED BY <1>1 DEF KVWrites, SlotOf

\* A record counts one token more in every decode.
LEMMA SeqUsedNext ==
  ASSUME IInv, NEW r \in Requests, ~NeverDrops(config), status[r] = "running", NEW l \in Layer,
         NEW q, q[r] = 1
  PROVE  SeqUsed(q, r, l) = Cardinality(alive[r][l]) + 1
<1> DEFINE z == [x \in Requests |-> 0]
           n == LenAtLayer(r, l)
           c == numComputed[r]
           k == record[r][1].len
<1>1. /\ record[r] # << >> /\ n \in Nat /\ c \in Nat /\ k \in 1 .. c
      /\ SeqUsed(z, r, l) = Cardinality(alive[r][l])
  BY DEF IInv, RequestOK, Counts, LayerOK, Types
<1>2. SeqUsed(z, r, l) = n + MaxNat(0, c + 0 - k)
  BY <1>1 DEF SeqUsed, KvLen
<1>3. SeqUsed(q, r, l) = n + MaxNat(0, c + 1 - k)
  BY <1>1 DEF SeqUsed, KvLen
<1> HIDE DEF n, c, k, z
<1>4. MaxNat(0, c + 0 - k) = c - k /\ MaxNat(0, c + 1 - k) = c - k + 1
  BY <1>1 DEF MaxNat
<1> QED BY <1>1, <1>2, <1>3, <1>4

\* The heart of the matter.  In every layer a token is stored where it belongs in
\* the order of the tokens that have reached the layer, those before stay where
\* they are, and as many are read as there are.
LEMMA SlotsInOrder ==
  ASSUME Supported, IInv, NEW batch, NEW q, NEW dropped, Pass(batch, q, dropped),
         NEW hidden, IsHidden(batch, q, dropped, hidden), NEW l \in Layer, NEW r \in Range(batch)
  PROVE  /\ Reached(hidden, l, r) \subseteq 0 .. (numComputed[r] + q[r] - 1)
         /\ NeverDrops(config) \/ l <= FirstDrop =>
              Reached(hidden, l, r) = 0 .. (numComputed[r] + q[r] - 1)
         /\ \A t \in hidden[l][r] :
              SlotOf(batch, q, hidden, l, r, t) = Before(Reached(hidden, l, r), t)
         /\ \A t \in alive[r][l] : Before(Reached(hidden, l, r), t) = Before(alive[r][l], t)
         /\ ReadLen(batch, q, hidden, l, r) = Cardinality(Reached(hidden, l, r))
<1> DEFINE c == numComputed[r]
           n == q[r]
           H == hidden[l][r]
           O == alive[r][l]
           A == Reached(hidden, l, r)
<1>00. A = O \cup H
  BY DEF Reached
<1> HIDE DEF A
<1>0. /\ r \in Requests /\ c \in Nat /\ n \in Nat \ {0}
      /\ status[r] = "waiting" \/ status[r] = "running"
      /\ l \in 0 .. NumLayers
  BY PassFacts, DropAssumption DEF IInv, Types, Layer
<1>1. /\ O \subseteq 0 .. (c - 1)
      /\ NeverDrops(config) \/ l <= FirstDrop => O = 0 .. (c - 1)
  <2>1. CASE status[r] = "running"
    BY <1>0, <2>1 DEF IInv, RequestOK, LayerOK
  <2>2. CASE status[r] = "waiting"
    <3>1. O = {} /\ c = 0
      BY <1>0, <2>2 DEF IInv, RequestOK, Released, Counts
    <3> HIDE DEF O, c
    <3> QED BY <3>1
  <2> QED BY <1>0, <2>1, <2>2
<1>2. /\ H \subseteq Query(q, r) /\ Query(q, r) = c .. (c + n - 1)
      /\ Cardinality(H) = 1 <=> n = 1
      /\ n = 1 => H = {c}
  <2>1. Query(q, r) = c .. (c + n - 1)
    BY DEF Query
  <2>2. H \subseteq Query(q, r) /\ (Cardinality(H) = 1 <=> n = 1) /\ (n = 1 => H = {c})
    BY <1>0, HiddenCounts
  <2> QED BY <2>1, <2>2
<1>3. CASE NeverDrops(config) \/ l <= FirstDrop
  <2>1. ~Rewritten(batch, q, hidden, l)
    BY <1>0, <1>3, NeverDropsFacts, NotRewritten
  <2>2. H = c .. (c + n - 1)
    BY <1>0, <1>2, <2>1, BeforeFirstDrop
  <2>3. ~Overridden(batch, l)
    <3>1. CASE NeverDrops(config)
      <4>1. \A x \in Range(batch) : record[x] = << >>
        BY <3>1, PassFacts DEF IInv, RequestOK, Counts
      <4> QED BY <4>1 DEF Overridden
    <3>2. CASE l <= FirstDrop
      <4>1. ~(l > FirstDrop)
        BY <1>0, <3>2, FirstDropFacts
      <4> QED BY <4>1 DEF Overridden
    <3> QED BY <1>3, <3>1, <3>2
  <2>4. \A t \in H : SlotOf(batch, q, hidden, l, r, t) = t
    BY <2>1, <2>3 DEF SlotOf, MetaSlot
  <2>5. ReadLen(batch, q, hidden, l, r) = c + n
    BY <2>1, <2>3 DEF ReadLen, MetaSeqLen, KvLen
  <2>6. O = 0 .. (c - 1)
    BY <1>1, <1>3
  <2>7. A = O \cup H
    BY <1>00
  <2> HIDE DEF c, n, H, O
  <2>8. A = 0 .. (c + n - 1) /\ c + n \in Nat /\ H \subseteq A /\ O \subseteq A
    BY <1>0, <2>2, <2>6, <2>7
  <2>13. PICK k \in Nat : k = c + n
    BY <2>8
  <2>12. A = 0 .. (k - 1)
    BY <1>0, <2>8, <2>13
  <2>9. Cardinality(A) = k
    BY <2>12, IntervalCount
  <2>10. \A t \in A : Before(A, t) = t
    BY <2>12, BeforeInterval
  <2>11. \A t \in O : Before(O, t) = t
    BY <1>0, <2>6, BeforeInterval
  <2> QED BY <2>4, <2>5, <2>8, <2>9, <2>10, <2>11, <2>13 DEF c, n, H, O, A
<1>4. CASE ~(NeverDrops(config) \/ l <= FirstDrop) /\ n # 1
  <2>1. /\ status[r] = "waiting" /\ l > FirstDrop
        /\ \A k \in 0 .. NumLayers : k > FirstDrop => Rewritten(batch, q, hidden, k)
    BY <1>0, <1>4, WholeFacts, FirstDropFacts
  <2>2. Rewritten(batch, q, hidden, l) /\ Cardinality(H) # 1
    BY <1>0, <1>2, <1>4, <2>1
  <2>3. O = {} /\ c = 0
    BY <1>0, <2>1 DEF IInv, RequestOK, Released, Counts
  <2>4. \A t \in H : SlotOf(batch, q, hidden, l, r, t) = Before(H, t)
    BY <1>4, <2>2 DEF SlotOf, MetaSlot
  <2>5. ReadLen(batch, q, hidden, l, r) = Cardinality(H)
    BY <1>4, <2>2 DEF ReadLen, MetaSeqLen
  <2>6. A = H
    BY <1>00, <2>3
  <2>7. A \subseteq 0 .. (c + n - 1)
    <3> HIDE DEF c, n, H, O
    <3> QED BY <1>0, <1>2, <2>3, <2>6
  <2> QED BY <1>4, <2>3, <2>4, <2>5, <2>6, <2>7 DEF A
<1>5. CASE ~(NeverDrops(config) \/ l <= FirstDrop) /\ n = 1
  <2>1. status[r] = "running" /\ record[r] # << >> /\ l > FirstDrop
    BY <1>0, <1>5, WholeFacts, FirstDropFacts
  <2>2. Overridden(batch, l) /\ Cardinality(H) = 1 /\ H = {c}
    BY <1>2, <1>5, <2>1 DEF Overridden
  <2>3. SeqUsed(q, r, l) = Cardinality(O) + 1
    BY <1>0, <1>5, <2>1, SeqUsedNext
  <2>4. \A t \in H : SlotOf(batch, q, hidden, l, r, t) = SeqUsed(q, r, l) - 1
    BY <2>2 DEF SlotOf
  <2>5. ReadLen(batch, q, hidden, l, r) = Cardinality(O) + 1
    BY <2>2, <2>3 DEF ReadLen
  <2>6. A = O \cup {c}
    BY <1>00, <2>2
  <2>7. n = 1
    BY <1>5
  <2> HIDE DEF c, n, H, O
  <2>8. /\ Cardinality(O) \in Nat /\ Cardinality(A) = Cardinality(O) + 1
        /\ Before(A, c) = Cardinality(O) /\ \A x \in O : Before(A, x) = Before(O, x)
    <3>1. c \in Nat /\ O \in SUBSET (0 .. (c - 1))
      BY <1>0, <1>1
    <3>2. /\ Cardinality(O) \in Nat /\ Cardinality(O \cup {c}) = Cardinality(O) + 1
          /\ Before(O \cup {c}, c) = Cardinality(O)
          /\ \A x \in O : Before(O \cup {c}, x) = Before(O, x)
      BY <3>1, BeforeAppend, Zenon
    <3> QED BY <2>6, <3>2, Zenon
  <2>9. A \subseteq 0 .. (c + n - 1)
    <3>1. c + n - 1 = c
      BY <1>0, <2>7
    <3>2. \A x \in O : x \in 0 .. c
      BY <1>0, <1>1
    <3>3. c \in 0 .. c
      BY <1>0
    <3> QED BY <2>6, <3>1, <3>2, <3>3, Zenon
  <2>10. \A t \in H : SlotOf(batch, q, hidden, l, r, t) = Before(A, t)
    <3>1. SeqUsed(q, r, l) - 1 = Cardinality(O)
      BY <2>3, <2>8
    <3> QED BY <2>2, <2>4, <2>8, <3>1
  <2> QED BY <1>5, <2>5, <2>8, <2>9, <2>10 DEF c, n, H, O, A
<1> QED BY <1>3, <1>4, <1>5 DEF A

-----------------------------------------------------------------------------
(* Slots given back to the manager                                         *)

\* TakenBack for a request with c computed tokens.
WholeBlocks(x) == (x \div BlockSize) * BlockSize
Skipped(c)     == MaxNat(0, c - SlidingWindow + 1)
Taken(c, l)    == IF l \in Sliding THEN WholeBlocks(Skipped(c)) ELSE 0

LEMMA TimesMonotone ==
  ASSUME NEW x \in Nat, NEW y \in Nat, NEW z \in Nat, x <= y
  PROVE  x * z <= y * z
<1>1. PICK d \in Nat : y = x + d
  <2>1. y - x \in Nat /\ y = x + (y - x)
    OBVIOUS
  <2> QED BY <2>1
<1>2. y * z = x * z + d * z
  BY <1>1
<1>3. x * z \in Nat /\ d * z \in Nat
  OBVIOUS
<1> QED BY <1>2, <1>3

\* x rounded down to a multiple of d.
LEMMA RoundDown ==
  ASSUME NEW x \in Nat, NEW d \in Nat \ {0}
  PROVE  /\ x \div d \in Nat /\ (x \div d) * d \in Nat
         /\ (x \div d) * d <= x /\ x < (x \div d) * d + d
<1>1. x \div d \in Nat /\ d * (x \div d) <= x /\ x < d * (x \div d) + d
  OBVIOUS
<1> DEFINE p == x \div d
<1> HIDE DEF p
<1>2. p \in Nat /\ d * p <= x /\ x < d * p + d
  BY <1>1 DEF p
<1>3. p * d = d * p /\ p * d \in Nat
  BY <1>2
<1>4. p \in Nat /\ p * d \in Nat /\ p * d <= x /\ x < p * d + d
  BY <1>2, <1>3
<1> QED BY <1>4 DEF p

LEMMA RoundDownMonotone ==
  ASSUME NEW x \in Nat, NEW y \in Nat, NEW d \in Nat \ {0}, x <= y
  PROVE  (x \div d) * d <= (y \div d) * d
<1> DEFINE p == x \div d
           s == y \div d
<1>1. /\ p \in Nat /\ p * d \in Nat /\ p * d <= x
      /\ s \in Nat /\ s * d \in Nat /\ y < s * d + d
  BY RoundDown
<1> HIDE DEF p, s
<1>2. ASSUME s + 1 <= p PROVE FALSE
  <2>1. (s + 1) * d <= p * d
    BY <1>1, <1>2, TimesMonotone
  <2>2. (s + 1) * d = s * d + d
    BY <1>1
  <2> QED BY <1>1, <2>1, <2>2
<1>3. p <= s
  BY <1>1, <1>2
<1>4. p * d <= s * d
  BY <1>1, <1>3, TimesMonotone
<1> QED BY <1>4 DEF p, s

\* More is given back as tokens are computed, but never what the window of the
\* next query reaches.
LEMMA TakenFacts ==
  ASSUME Types, NEW c \in Nat, NEW n \in Nat \ {0}, NEW l
  PROVE  /\ Taken(c, l) \in Nat /\ Taken(c + n, l) \in Nat /\ Taken(c, l) <= Taken(c + n, l)
         /\ l \in Sliding => Taken(c, l) <= MaxNat(0, c + n - SlidingWindow)
         /\ l \notin Sliding => Taken(c, l) = 0
<1> DEFINE w == SlidingWindow
           x == Skipped(c)
           y == Skipped(c + n)
           z == MaxNat(0, c + n - w)
<1>1. w \in Nat \ {0} /\ BlockSize \in Nat \ {0}
  BY ConfigFacts
<1>2. CASE l \in Sliding
  <2>1. Taken(c, l) = WholeBlocks(x) /\ Taken(c + n, l) = WholeBlocks(y)
    BY <1>2 DEF Taken
  <2>2. x \in Nat /\ y \in Nat /\ z \in Nat /\ x <= y /\ x <= z
    BY <1>1 DEF MaxNat, Skipped
  <2> HIDE DEF w, x, y, z
  <2>3. WholeBlocks(x) \in Nat /\ WholeBlocks(x) <= x /\ WholeBlocks(y) \in Nat
    BY <1>1, <2>2, RoundDown DEF WholeBlocks
  <2>4. WholeBlocks(x) <= WholeBlocks(y)
    BY <1>1, <2>2, RoundDownMonotone DEF WholeBlocks
  <2>5. WholeBlocks(x) <= z
    BY <2>2, <2>3
  <2> QED BY <1>2, <2>1, <2>3, <2>4, <2>5 DEF w, z
<1>3. CASE l \notin Sliding
  BY <1>3 DEF Taken
<1> QED BY <1>2, <1>3

-----------------------------------------------------------------------------
(* What the slots hold and the attention reads after a step                *)

\* The tokens of a layer after the step: a finite set of numbers.
LEMMA LayerTokens ==
  ASSUME Supported, IInv, NEW batch, NEW q, NEW dropped, Pass(batch, q, dropped),
         NEW hidden, IsHidden(batch, q, dropped, hidden), NEW l \in Layer, NEW r \in Range(batch)
  PROVE  /\ Reached(hidden, l, r) \in SUBSET Nat /\ IsFiniteSet(Reached(hidden, l, r))
         /\ Cardinality(Reached(hidden, l, r)) \in Nat
         /\ \A t \in Reached(hidden, l, r) : Before(Reached(hidden, l, r), t) \in Slot(r)
<1> DEFINE k == numComputed[r] + q[r]
           A == Reached(hidden, l, r)
<1>0. r \in Requests /\ numComputed[r] \in Nat /\ q[r] \in Nat \ {0} /\ k < MaxLen[r]
  <2>1. /\ r \in Requests /\ numComputed[r] \in Nat /\ q[r] \in Nat \ {0}
        /\ k <= numTokens[r] /\ numTokens[r] < MaxLen[r]
    BY PassFacts
  <2>2. numTokens[r] \in Nat /\ MaxLen[r] \in Nat
    BY <2>1, DropAssumption DEF IInv, Types
  <2> QED BY <2>1, <2>2
<1>1. k \in Nat /\ MaxLen[r] \in Nat
  BY <1>0, DropAssumption
<1>2. A \subseteq 0 .. (k - 1)
  BY <1>0, SlotsInOrder
<1> HIDE DEF k, A
<1>3. IsFiniteSet(0 .. (k - 1)) /\ Cardinality(0 .. (k - 1)) = k
  BY <1>1, IntervalCount
<1>4. IsFiniteSet(A) /\ Cardinality(A) <= k
  BY <1>2, <1>3, FS_Subset
<1>5. A \in SUBSET Nat
  BY <1>1, <1>2
<1>6. ASSUME NEW t \in A PROVE Before(A, t) \in Slot(r)
  <2>1. /\ Cardinality(A) \in Nat /\ Before(A, t) \in Nat /\ Before(A, t) < Cardinality(A)
    BY <1>4, <1>5, BeforeFacts
  <2> QED BY <1>0, <1>1, <1>4, <2>1 DEF Slot
<1> QED BY <1>4, <1>5, <1>6, FS_CardinalityType DEF A

\* The writes to the slots of a request are its own.
LEMMA WritesTo ==
  ASSUME Supported, IInv, NEW batch, NEW q, NEW dropped, Pass(batch, q, dropped),
         NEW hidden, IsHidden(batch, q, dropped, hidden), NEW l \in Layer, NEW r, NEW s,
         NEW w \in KVWrites(batch, q, hidden, l), w[1] = r, w[2] = s
  PROVE  r \in Range(batch) /\ \E t \in hidden[l][r] :
           w = <<r, s, r, t>> /\ SlotOf(batch, q, hidden, l, r, t) = s
<1>1. KVWrites(batch, q, hidden, l) =
           UNION {{<<x, SlotOf(batch, q, hidden, l, x, t), x, t>> : t \in hidden[l][x]} :
                  x \in Range(batch)}
  BY WritesOwn
<1>2. PICK x \in Range(batch) : \E t \in hidden[l][x] : w = <<x, SlotOf(batch, q, hidden, l, x, t), x, t>>
  BY <1>1
<1>3. PICK t \in hidden[l][x] : w = <<x, SlotOf(batch, q, hidden, l, x, t), x, t>>
  BY <1>2
<1>4. x = r /\ SlotOf(batch, q, hidden, l, x, t) = s
  BY <1>3
<1> QED BY <1>3, <1>4

LEMMA StoredNow ==
  ASSUME Supported, IInv, NEW batch, NEW q, NEW dropped, Pass(batch, q, dropped),
         NEW hidden, IsHidden(batch, q, dropped, hidden), NEW reused,
         NEW l \in Layer, NEW r \in Range(batch),
         NEW t \in Reached(hidden, l, r), Before(Reached(hidden, l, r), t) >= TakenBack(r, l)
  PROVE  StoredKV(batch, q, hidden, reused)[r][l][Before(Reached(hidden, l, r), t)] = <<r, t>>
<1> DEFINE A == Reached(hidden, l, r)
           p == Before(A, t)
           W == KVWrites(batch, q, hidden, l)
           ws == {w \in W : w[1] = r /\ w[2] = p}
           H == hidden[l][r]
           O == alive[r][l]
<1>0. /\ r \in Requests /\ p \in Slot(r) /\ numComputed[r] \in Nat /\ q[r] \in Nat \ {0}
      /\ A \in SUBSET Nat /\ IsFiniteSet(A)
  BY PassFacts, LayerTokens
<1>10. t \in A
  OBVIOUS
<1> HIDE DEF A
<1>1. TakenBack(r, l) \in Nat /\ p \in Nat
  <2>1. TakenBack(r, l) = Taken(numComputed[r], l)
    BY DEF TakenBack, Taken, NumSkippedTokens, Skipped, WholeBlocks
  <2>2. Taken(numComputed[r], l) \in Nat
    BY <1>0, TakenFacts DEF IInv
  <2>3. p \in Nat
    BY <1>0, <1>10, BeforeFacts
  <2> QED BY <2>1, <2>2, <2>3
<1>2. ~(p < TakenBack(r, l))
  BY <1>1 DEF A
<1>3. StoredKV(batch, q, hidden, reused)[r][l][p] =
        IF ws = {} THEN kv[r][l][p] ELSE LET w == CHOOSE w \in ws : TRUE IN <<w[3], w[4]>>
  BY <1>0, <1>2 DEF StoredKV
<1>4. /\ \A x \in H : SlotOf(batch, q, hidden, l, r, x) = Before(A, x)
      /\ \A x \in O : Before(A, x) = Before(O, x)
  BY SlotsInOrder DEF A
<1>5. \A x, y \in A : Before(A, x) = Before(A, y) => x = y
  BY <1>0, BeforeFacts
<1>6. A = O \cup H
  BY DEF Reached, A
<1>7. ASSUME NEW w \in ws PROVE w[3] = r /\ w[4] = t /\ t \in H
  <2>1. PICK x \in H : w = <<r, p, r, x>> /\ SlotOf(batch, q, hidden, l, r, x) = p
    BY WritesTo
  <2>2. Before(A, x) = Before(A, t) /\ x \in A
    BY <1>4, <1>6, <2>1
  <2>3. x = t
    BY <1>5, <1>10, <2>2
  <2> QED BY <2>1, <2>3
<1>8. CASE ws = {}
  <2>1. t \notin H
    <3> SUFFICES ASSUME t \in H PROVE FALSE
      OBVIOUS
    <3>1. SlotOf(batch, q, hidden, l, r, t) = p
      BY <1>4
    <3>2. <<r, p, r, t>> \in W
      <4>1. W = UNION {{<<x, SlotOf(batch, q, hidden, l, x, y), x, y>> : y \in hidden[l][x]} :
                  x \in Range(batch)}
        BY WritesOwn
      <4>2. <<r, SlotOf(batch, q, hidden, l, r, t), r, t>> \in W
        BY <4>1
      <4> QED BY <3>1, <4>2
    <3>3. <<r, p, r, t>> \in ws
      BY <3>2
    <3> QED BY <1>8, <3>3
  <2>2. t \in O
    BY <1>6, <1>10, <2>1
  <2>3. status[r] = "running"
    <3>1. status[r] # "running" => O = {}
      BY <1>0 DEF IInv, RequestOK, Released
    <3> QED BY <2>2, <3>1
  <2>4. Before(O, t) = p
    BY <1>4, <2>2
  <2>5. kv[r][l][Before(O, t)] = <<r, t>>
    <3>1. Stored(r, l)
      BY <1>0, <2>3 DEF IInv, RequestOK, LayerOK
    <3>2. Before(O, t) >= TakenBack(r, l)
      BY <1>1, <1>2, <2>4
    <3> QED BY <2>2, <3>1, <3>2 DEF Stored
  <2> QED BY <1>3, <1>8, <2>4, <2>5 DEF A
<1>9. CASE ws # {}
  <2>1. PICK w \in ws : w = CHOOSE v \in ws : TRUE
    BY <1>9
  <2>2. StoredKV(batch, q, hidden, reused)[r][l][p] = <<w[3], w[4]>>
    BY <1>3, <1>9, <2>1
  <2> QED BY <1>7, <2>2 DEF A
<1> QED BY <1>8, <1>9 DEF A

\* The attention of a step reads, in order, the tokens that have reached the
\* layer, or as many of the last of them as the window has room for.
LEMMA ReadsNow ==
  ASSUME Supported, IInv, NEW batch, NEW q, NEW dropped, Pass(batch, q, dropped),
         NEW hidden, IsHidden(batch, q, dropped, hidden), NEW reused,
         NEW l \in Layer, NEW r \in Range(batch),
         NEW first, first = MaxNat(0, Cardinality(Reached(hidden, l, r)) - Window(r, l)),
         NEW i \in 1 .. (Cardinality(Reached(hidden, l, r)) - first)
  PROVE  /\ first \in Nat
         /\ StoredKV(batch, q, hidden, reused)[r][l][first + i - 1]
              = <<r, Increasing(Reached(hidden, l, r))[first + i]>>
<1> DEFINE A == Reached(hidden, l, r)
           n == Cardinality(A)
           w == Window(r, l)
           p == first + i - 1
           t == Increasing(A)[first + i]
<1>0. /\ r \in Requests /\ numComputed[r] \in Nat /\ q[r] \in Nat \ {0}
      /\ A \in SUBSET Nat /\ IsFiniteSet(A) /\ n \in Nat /\ w \in Nat
  <2>1. /\ r \in Requests /\ numComputed[r] \in Nat /\ q[r] \in Nat \ {0}
        /\ A \in SUBSET Nat /\ IsFiniteSet(A) /\ n \in Nat
    BY PassFacts, LayerTokens
  <2>2. w \in Nat
    BY <2>1, ConfigFacts DEF Window, IInv
  <2> QED BY <2>1, <2>2
<1>1. TakenBack(r, l) \in Nat /\ TakenBack(r, l) <= first
  <2>1. TakenBack(r, l) = Taken(numComputed[r], l)
    BY DEF TakenBack, Taken, NumSkippedTokens, Skipped, WholeBlocks
  <2>2. /\ Taken(numComputed[r], l) \in Nat
        /\ l \in Sliding => Taken(numComputed[r], l) <= MaxNat(0, numComputed[r] + q[r] - SlidingWindow)
        /\ l \notin Sliding => Taken(numComputed[r], l) = 0
    BY <1>0, TakenFacts DEF IInv
  <2>3. CASE l \notin Sliding
    <3>1. first \in Nat
      <4> HIDE DEF n, w
      <4>1. first = MaxNat(0, n - w)
        BY DEF n, w
      <4> QED BY <1>0, <4>1 DEF MaxNat
    <3> QED BY <2>1, <2>2, <2>3, <3>1
  <2>4. CASE l \in Sliding
    <3>1. NeverDrops(config) \/ l <= FirstDrop
      BY <2>4, WholeFacts
    <3>2. PICK k \in Nat : k = numComputed[r] + q[r]
      BY <1>0
    <3>6. A = 0 .. (numComputed[r] + q[r] - 1)
      BY <3>1, SlotsInOrder
    <3>3. A = 0 .. (k - 1)
      <4> HIDE DEF A
      <4> QED BY <1>0, <3>2, <3>6
    <3>4. n = k
      BY <3>3, IntervalCount
    <3>5. first = MaxNat(0, k - SlidingWindow)
      BY <2>4, <3>4 DEF Window
    <3>7. Taken(numComputed[r], l) <= MaxNat(0, k - SlidingWindow)
      <4>1. numComputed[r] + q[r] - SlidingWindow = k - SlidingWindow
        BY <1>0, <3>2, ConfigFacts DEF IInv
      <4>2. MaxNat(0, numComputed[r] + q[r] - SlidingWindow) = MaxNat(0, k - SlidingWindow)
        BY <4>1, Zenon
      <4> QED BY <2>2, <2>4, <4>2, Zenon
    <3> QED BY <2>1, <2>2, <3>5, <3>7, Zenon
  <2> QED BY <2>3, <2>4
<1>10. first = MaxNat(0, n - w) /\ i \in 1 .. (n - first)
  OBVIOUS
<1> HIDE DEF A, n, w
<1>2. first \in Nat /\ first <= n
  BY <1>0, <1>10 DEF MaxNat
<1>3. /\ i \in Nat /\ p \in Nat /\ first + i \in 1 .. n /\ p = first + i - 1 /\ p >= first
  BY <1>0, <1>2, <1>10
<1>4. t \in A /\ Before(A, t) = p
  <2>1. \A j \in 1 .. n : Increasing(A)[j] \in A /\ Before(A, Increasing(A)[j]) = j - 1
    BY <1>0, Enumerates DEF n
  <2> DEFINE j == first + i
  <2>2. j \in 1 .. n
    BY <1>3
  <2>3. Increasing(A)[j] \in A /\ Before(A, Increasing(A)[j]) = j - 1
    <3> HIDE DEF j
    <3> QED BY <2>1, <2>2
  <2> QED BY <1>2, <1>3, <2>3
<1> HIDE DEF p, t
<1>5. p >= TakenBack(r, l)
  BY <1>1, <1>2, <1>3
<1>6. StoredKV(batch, q, hidden, reused)[r][l][p] = <<r, t>>
  <2>1. t \in Reached(hidden, l, r) /\ Before(Reached(hidden, l, r), t) = p
    BY <1>4 DEF A
  <2>2. StoredKV(batch, q, hidden, reused)[r][l][Before(Reached(hidden, l, r), t)] = <<r, t>>
    BY <1>5, <2>1, StoredNow
  <2> QED BY <2>1, <2>2
<1> QED BY <1>2, <1>6 DEF p, t, A

-----------------------------------------------------------------------------
(* The records                                                             *)

LEMMA BeforeMonotone ==
  ASSUME NEW S \in SUBSET Nat, IsFiniteSet(S), NEW x \in Nat, NEW y \in Nat, x <= y
  PROVE  Before(S, x) <= Before(S, y)
<1> DEFINE B(z) == {v \in S : v < z}
<1>1. B(y) \in SUBSET S
  OBVIOUS
<1>2. IsFiniteSet(B(y))
  BY <1>1, FS_Subset
<1>3. B(x) \in SUBSET B(y)
  <2>1. ASSUME NEW v \in S, v < x PROVE v < y
    <3>1. v \in Nat
      OBVIOUS
    <3> QED BY <2>1, <3>1
  <2> QED BY <2>1
<1>4. Cardinality(B(x)) <= Cardinality(B(y))
  BY <1>2, <1>3, FS_Subset
<1> QED BY <1>4 DEF Before

\* The length a record gives for a layer.
LenIn(rec, l) ==
  LET passed == {i \in 2 .. Len(rec) : rec[i].layer < l}
  IN  rec[Cardinality(passed) + 1].len

LEMMA ConcatElements ==
  ASSUME NEW n \in Nat, NEW R, NEW e \in R, NEW f \in [1 .. n -> R]
  PROVE  /\ Len(<<e>> \o f) = n + 1
         /\ (<<e>> \o f)[1] = e
         /\ \A i \in 2 .. (n + 1) : (<<e>> \o f)[i] = f[i - 1]
<1>1. <<e>> \in Seq(R) /\ Len(<<e>>) = 1 /\ <<e>>[1] = e
  OBVIOUS
<1>2. f \in Seq(R) /\ Len(f) = n
  OBVIOUS
<1> QED BY <1>1, <1>2

\* The drops of a step: the layer after the last drop before l has the tokens of l.
LEMMA LastDrop ==
  ASSUME NEW batch, NEW q, NEW dropped, NEW hidden, IsHidden(batch, q, dropped, hidden),
         NEW S \in SUBSET Layer, \A d \in Layer : d \in S <=> ShouldDrop(batch, q, hidden[d], d),
         NEW l \in Layer
  PROVE  /\ S \in SUBSET Nat /\ IsFiniteSet(S) /\ Before(S, l) \in 0 .. Cardinality(S)
         /\ Cardinality(S) \in Nat
         /\ \A j \in 1 .. Cardinality(S) : Increasing(S)[j] < l <=> j <= Before(S, l)
         /\ Before(S, l) = 0 => hidden[l] = hidden[0]
         /\ Before(S, l) # 0 => hidden[l] = hidden[Increasing(S)[Before(S, l)] + 1]
<1> DEFINE n == Cardinality(S)
           k == Before(S, l)
           D == Increasing(S)
<1>0. NumLayers \in Nat /\ l \in Nat /\ l < NumLayers /\ l \in 0 .. NumLayers
  BY DropAssumption DEF Layer
<1>1. S \in SUBSET Nat /\ IsFiniteSet(S)
  <2>1. IsFiniteSet(Layer)
    BY <1>0, IntervalCount DEF Layer
  <2>2. S \in SUBSET Nat
    BY <1>0 DEF Layer
  <2> QED BY <2>1, <2>2, FS_Subset
<1>2. n \in Nat /\ k \in Nat /\ k <= n
  BY <1>0, <1>1, BeforeFacts
<1>3. ASSUME NEW j \in 1 .. n PROVE D[j] \in S /\ D[j] \in Nat /\ Before(S, D[j]) = j - 1
  BY <1>1, Enumerates
<1>10. \A x \in S, y \in Nat : x < y => Before(S, x) < Before(S, y)
  BY <1>1, BeforeFacts
<1> HIDE DEF n, k, D
<1>4. ASSUME NEW j \in 1 .. n PROVE D[j] < l <=> j <= k
  <2>1. /\ D[j] \in S /\ D[j] \in Nat /\ Before(S, D[j]) = j - 1 /\ j \in Nat
    BY <1>2, <1>3
  <2>2. ASSUME D[j] < l PROVE j <= k
    <3>1. Before(S, D[j]) < Before(S, l)
      BY <1>0, <1>10, <2>1, <2>2
    <3>2. j - 1 < k
      BY <2>1, <3>1 DEF k
    <3> QED BY <1>2, <2>1, <3>2
  <2>3. ASSUME ~(D[j] < l) PROVE ~(j <= k)
    <3>1. l <= D[j]
      BY <1>0, <2>1, <2>3
    <3>2. Before(S, l) <= Before(S, D[j])
      BY <1>0, <1>1, <2>1, <3>1, BeforeMonotone
    <3>3. k <= j - 1
      BY <2>1, <3>2 DEF k
    <3> QED BY <1>2, <2>1, <3>3
  <2> QED BY <2>2, <2>3
<1>6. ASSUME k = 0 PROVE hidden[l] = hidden[0]
  <2>1. ASSUME NEW m \in 0 .. (l - 1) PROVE ~ShouldDrop(batch, q, hidden[m], m)
    <3>1. m \in Layer /\ m \in Nat /\ m < l
      BY <1>0 DEF Layer
    <3>2. m \notin S
      <4> SUFFICES ASSUME m \in S PROVE FALSE
        OBVIOUS
      <4>1. Before(S, m) < k
        BY <1>0, <1>10, <3>1 DEF k
      <4>2. Before(S, m) \in Nat
        BY <1>1, <3>1, BeforeFacts
      <4> QED BY <1>6, <4>1, <4>2
    <3> QED BY <3>1, <3>2
  <2>2. 0 \in 0 .. NumLayers /\ l \in 0 .. NumLayers
    BY <1>0
  <2> QED BY <2>1, <2>2, HiddenStays
<1>7. ASSUME k # 0 PROVE hidden[l] = hidden[D[k] + 1]
  <2> DEFINE d == D[k] + 1
  <2>1. k \in 1 .. n
    BY <1>2, <1>7
  <2>2. D[k] \in S /\ D[k] \in Nat /\ Before(S, D[k]) = k - 1 /\ D[k] < l
    BY <1>2, <1>3, <1>4, <2>1
  <2>3. d \in 0 .. NumLayers /\ l \in d .. NumLayers /\ d \in Nat
    BY <1>0, <2>2
  <2>4. ASSUME NEW m \in d .. (l - 1) PROVE ~ShouldDrop(batch, q, hidden[m], m)
    <3>1. m \in Layer /\ m \in Nat /\ m < l /\ D[k] < m
      BY <1>0, <2>2, <2>3 DEF Layer
    <3>2. m \notin S
      <4> SUFFICES ASSUME m \in S PROVE FALSE
        OBVIOUS
      <4>1. Before(S, m) < k
        BY <1>0, <1>10, <3>1 DEF k
      <4>2. k - 1 < Before(S, m)
        BY <1>10, <2>2, <3>1
      <4>3. Before(S, m) \in Nat
        BY <1>1, <3>1, BeforeFacts
      <4> QED BY <1>2, <4>1, <4>2, <4>3
    <3> QED BY <3>1, <3>2
  <2> HIDE DEF d
  <2>5. hidden[l] = hidden[d]
    BY <2>3, <2>4, HiddenStays
  <2> QED BY <2>5 DEF d
<1>8. k \in 0 .. n
  BY <1>2
<1> QED BY <1>1, <1>2, <1>4, <1>6, <1>7, <1>8 DEF n, k, D

\* The record of a prefill gives every layer the number of tokens that entered it.
LEMMA NewRecordFacts ==
  ASSUME Supported, IInv, NEW batch, NEW q, NEW dropped, Pass(batch, q, dropped),
         NEW hidden, IsHidden(batch, q, dropped, hidden), ~NeverDrops(config),
         NEW r \in Range(batch), q[r] # 1,
         NEW rec, rec = NewRecord(batch, q, hidden, r)
  PROVE  /\ rec # << >> /\ rec[1].len = numComputed[r] + q[r]
         /\ \A i \in DOMAIN rec : rec[i].layer \in Layer /\ rec[i].len \in 1 .. numTokens[r]
         /\ \A l \in Layer : LenIn(rec, l) = Cardinality(hidden[l][r])
<1> DEFINE S == {l \in DropLayers : ShouldDrop(batch, q, hidden[l], l)}
           D == Increasing(S)
           n == Cardinality(S)
           R == [layer : Layer, len : 1 .. numTokens[r]]
           e == Entry(0, KvLen(q, r))
           F(j) == Entry(D[j], Cardinality(hidden[D[j] + 1][r]))
           f == [j \in 1 .. n |-> F(j)]
<1>0. /\ NumLayers \in Nat \ {0} /\ DropLayers \subseteq Layer /\ 0 \in Layer
      /\ \A l \in Layer : l \in Nat /\ l \in 0 .. NumLayers /\ l + 1 \in 0 .. NumLayers
  BY FirstDropFacts, DropAssumption DEF Layer
<1>1. S \in SUBSET Layer
  BY <1>0
<1>2. \A d \in Layer : d \in S <=> ShouldDrop(batch, q, hidden[d], d)
  BY DEF ShouldDrop
<1>3. /\ r \in Requests /\ q[r] \in Nat \ {0} /\ numComputed[r] = 0
      /\ numComputed[r] + q[r] <= numTokens[r] /\ numTokens[r] \in Nat
  <2>1. status[r] = "waiting" /\ numComputed[r] = 0
    BY WholeFacts
  <2>2. /\ r \in Requests /\ q[r] \in Nat \ {0} /\ numComputed[r] + q[r] <= numTokens[r]
    BY PassFacts
  <2>3. numTokens[r] \in Nat
    BY <2>2 DEF IInv, Types
  <2> QED BY <2>1, <2>2, <2>3
<1>4. KvLen(q, r) = q[r] /\ KvLen(q, r) \in 1 .. numTokens[r] /\ numComputed[r] + q[r] = KvLen(q, r)
  BY <1>3 DEF KvLen
<1>5. \A l \in 0 .. NumLayers : Cardinality(hidden[l][r]) \in 1 .. q[r]
  BY HiddenCounts
<1>6. \A l \in 0 .. NumLayers : Cardinality(hidden[l][r]) \in 1 .. numTokens[r]
  BY <1>3, <1>5
<1> HIDE DEF S
<1>7. /\ S \in SUBSET Nat /\ IsFiniteSet(S) /\ n \in Nat
  <2>1. 0 \in Layer
    BY <1>0
  <2> QED BY <1>1, <1>2, <2>1, LastDrop
<1>8. /\ \A j \in 1 .. n : D[j] \in S
      /\ Len(D) = n
  BY <1>7, Enumerates
<1>9. rec = <<e>> \o f
  <2>1. rec = <<e>> \o [j \in 1 .. Len(D) |-> F(j)]
    BY DEF NewRecord, S
  <2> QED BY <1>8, <2>1
<1> HIDE DEF D, n
<1>10. e = [layer |-> 0, len |-> KvLen(q, r)] /\ e \in R
  BY <1>0, <1>4 DEF Entry
<1>11. \A j \in 1 .. n : /\ F(j).layer = D[j] /\ F(j).len = Cardinality(hidden[D[j] + 1][r])
                         /\ F(j) \in R
  <2> SUFFICES ASSUME NEW j \in 1 .. n
               PROVE  /\ F(j).layer = D[j] /\ F(j).len = Cardinality(hidden[D[j] + 1][r])
                      /\ F(j) \in R
    OBVIOUS
  <2>1. D[j] \in Layer /\ D[j] + 1 \in 0 .. NumLayers
    BY <1>0, <1>1, <1>8
  <2>2. Cardinality(hidden[D[j] + 1][r]) \in 1 .. numTokens[r]
    BY <1>6, <2>1
  <2> QED BY <2>1, <2>2 DEF Entry
<1> HIDE DEF F, e, R
<1>12. f \in [1 .. n -> R]
  BY <1>11
<1>13. Len(rec) = n + 1 /\ rec[1] = e /\ \A i \in 2 .. (n + 1) : rec[i] = f[i - 1]
  BY <1>7, <1>9, <1>10, <1>12, ConcatElements
<1>14. \A i \in 2 .. (n + 1) : i - 1 \in 1 .. n /\ rec[i] = F(i - 1)
  BY <1>7, <1>13
<1>15. DOMAIN rec = 1 .. (n + 1) /\ rec # << >>
  <2>1. rec \in Seq(R)
    <3>1. <<e>> \in Seq(R)
      BY <1>10
    <3>2. f \in Seq(R)
      BY <1>7, <1>12
    <3> HIDE DEF f
    <3> QED BY <1>9, <3>1, <3>2
  <2>2. n + 1 # 0
    BY <1>7
  <2> QED BY <1>13, <2>1, <2>2
<1>16. \A i \in 1 .. (n + 1) : rec[i] \in R
  <2> SUFFICES ASSUME NEW i \in 1 .. (n + 1) PROVE rec[i] \in R
    OBVIOUS
  <2>1. CASE i = 1
    BY <1>10, <1>13, <2>1
  <2>2. CASE i # 1
    <3>1. i \in 2 .. (n + 1)
      BY <1>7, <2>2
    <3> QED BY <1>11, <1>14, <3>1
  <2> QED BY <2>1, <2>2
<1>17. ASSUME NEW l \in Layer PROVE LenIn(rec, l) = Cardinality(hidden[l][r])
  <2> DEFINE k == Before(S, l)
             passed == {i \in 2 .. Len(rec) : rec[i].layer < l}
  <2>1. /\ k \in 0 .. n /\ \A j \in 1 .. n : D[j] < l <=> j <= k
        /\ k = 0 => hidden[l] = hidden[0]
        /\ k # 0 => hidden[l] = hidden[D[k] + 1]
    <3>1. Before(S, l) \in 0 .. Cardinality(S)
      BY <1>1, <1>2, LastDrop
    <3>2. \A j \in 1 .. Cardinality(S) : Increasing(S)[j] < l <=> j <= Before(S, l)
      BY <1>1, <1>2, LastDrop
    <3>3. Before(S, l) = 0 => hidden[l] = hidden[0]
      BY <1>1, <1>2, LastDrop
    <3>4. Before(S, l) # 0 => hidden[l] = hidden[Increasing(S)[Before(S, l)] + 1]
      BY <1>1, <1>2, LastDrop
    <3> QED BY <3>1, <3>2, <3>3, <3>4 DEF D, n
  <2> HIDE DEF k
  <2>2. k \in Nat /\ k <= n
    BY <1>7, <2>1
  <2>3. passed = 2 .. (k + 1)
    <3>1. ASSUME NEW i \in 2 .. (n + 1) PROVE rec[i].layer < l <=> i \in 2 .. (k + 1)
      <4>1. rec[i].layer = D[i - 1] /\ i - 1 \in 1 .. n /\ i \in Nat
        BY <1>7, <1>11, <1>14
      <4>2. D[i - 1] < l <=> i - 1 <= k
        BY <2>1, <4>1
      <4>3. i - 1 <= k <=> i \in 2 .. (k + 1)
        BY <2>2, <4>1
      <4> QED BY <4>1, <4>2, <4>3
    <3>2. \A i \in 2 .. (k + 1) : i \in 2 .. (n + 1)
      BY <1>7, <2>2
    <3> QED BY <1>13, <3>1, <3>2
  <2>4. Cardinality(passed) = k
    <3>1. 2 \in Int /\ k + 1 \in Int
      BY <2>2
    <3>2. Cardinality(2 .. (k + 1)) = IF 2 > k + 1 THEN 0 ELSE (k + 1) - 2 + 1
      BY <3>1, FS_Interval, Zenon
    <3>3. (IF 2 > k + 1 THEN 0 ELSE (k + 1) - 2 + 1) = k
      BY <2>2
    <3> QED BY <2>3, <3>2, <3>3
  <2>5. LenIn(rec, l) = rec[k + 1].len
    BY <2>4 DEF LenIn
  <2>6. CASE k = 0
    <3>1. LenIn(rec, l) = KvLen(q, r)
      BY <1>10, <1>13, <2>5, <2>6
    <3>2. hidden[l][r] = Query(q, r)
      BY <2>1, <2>6 DEF IsHidden
    <3>3. Cardinality(Query(q, r)) = q[r]
      BY <1>3, QueryFacts DEF IInv
    <3> QED BY <1>4, <3>1, <3>2, <3>3
  <2>7. CASE k # 0
    <3>1. k + 1 \in 2 .. (n + 1) /\ (k + 1) - 1 = k /\ k \in 1 .. n
      BY <1>7, <2>2, <2>7
    <3>2. rec[k + 1] = F(k)
      BY <1>14, <3>1
    <3>3. rec[k + 1].len = Cardinality(hidden[D[k] + 1][r])
      BY <1>11, <3>1, <3>2
    <3> QED BY <2>1, <2>5, <2>7, <3>3
  <2> QED BY <2>6, <2>7
<1> QED BY <1>4, <1>10, <1>13, <1>15, <1>16, <1>17 DEF R

-----------------------------------------------------------------------------
(* A step of the engine                                                    *)

\* Step for given choices.
StepOf(batch, q, hidden, reused) ==
  /\ Forward(batch, q, hidden, reused)
  /\ SaveRecords(batch, q, hidden)
  /\ UNCHANGED config
  /\ status' = [r \in Requests |-> IF r \in Range(batch) THEN "running" ELSE status[r]]
  /\ numComputed' = [r \in Requests |->
       IF r \in Range(batch) THEN numComputed[r] + q[r] ELSE numComputed[r]]
  /\ numTokens' = [r \in Requests |->
       IF r \in Range(batch) /\ numComputed[r] + q[r] = numTokens[r]
         THEN numTokens[r] + 1 ELSE numTokens[r]]

LEMMA StepParts ==
  ASSUME Step
  PROVE  \E batch, q, dropped, reused :
           Pass(batch, q, dropped) /\ StepOf(batch, q, Hidden(batch, q, dropped), reused)
<1> USE DEF Step
<1>1. PICK batch \in Batches : \E q \in {q \in [Range(batch) -> 1 .. Max(Range(MaxLen))] :
               \A r \in Range(batch) : q[r] \in Scheduled(r)} :
      \E dropped \in Selections(batch, q), reused \in Reuses(batch) :
        (\A r \in Range(batch) : numTokens[r] < MaxLen[r])
        /\ StepOf(batch, q, Hidden(batch, q, dropped), reused)
  BY Zenon DEF StepOf
<1>2. PICK q : /\ \A r \in Range(batch) : q[r] \in Scheduled(r)
               /\ \E dropped \in Selections(batch, q), reused \in Reuses(batch) :
                    (\A r \in Range(batch) : numTokens[r] < MaxLen[r])
                    /\ StepOf(batch, q, Hidden(batch, q, dropped), reused)
  BY <1>1, Zenon
<1>3. PICK dropped \in Selections(batch, q), reused \in Reuses(batch) :
        (\A r \in Range(batch) : numTokens[r] < MaxLen[r])
        /\ StepOf(batch, q, Hidden(batch, q, dropped), reused)
  BY <1>2, Zenon
<1>4. Pass(batch, q, dropped)
  BY <1>2, <1>3 DEF Pass
<1> QED BY <1>3, <1>4, Zenon

LEMMA TokensBelow ==
  ASSUME NEW k \in Nat, NEW A \in SUBSET (0 .. (k - 1))
  PROVE  /\ A \in SUBSET Nat /\ IsFiniteSet(A) /\ Cardinality(A) \in 0 .. k
         /\ \A t \in A : Before(A, t) \in 0 .. (k - 1)
<1>1. A \in SUBSET Nat
  OBVIOUS
<1>2. IsFiniteSet(0 .. (k - 1)) /\ Cardinality(0 .. (k - 1)) = k
  BY IntervalCount
<1>3. IsFiniteSet(A) /\ Cardinality(A) <= k
  BY <1>2, FS_Subset
<1>4. Cardinality(A) \in Nat
  BY <1>3, FS_CardinalityType
<1>5. ASSUME NEW t \in A PROVE Before(A, t) \in 0 .. (k - 1)
  <2>1. Before(A, t) \in Nat /\ Before(A, t) < Cardinality(A)
    BY <1>1, <1>3, BeforeFacts
  <2> QED BY <1>3, <1>4, <2>1
<1> QED BY <1>1, <1>3, <1>4, <1>5

\* The tokens computed after those that a record counts.
Since(k, rec) == MaxNat(0, k - rec[1].len)

\* The record after a step: as many tokens of every layer as there are.
LEMMA RecordAfter ==
  ASSUME Supported, IInv, NEW batch, NEW q, NEW dropped, Pass(batch, q, dropped),
         NEW hidden, IsHidden(batch, q, dropped, hidden), NEW reused,
         StepOf(batch, q, hidden, reused), NEW r \in Range(batch)
  PROVE  /\ NeverDrops(config) => record'[r] = << >>
         /\ ~NeverDrops(config) => /\ record'[r] # << >>
                                   /\ record'[r][1].len \in 1 .. numComputed'[r]
                                   /\ \A l \in Layer : LenAtLayer(r, l)' \in Nat
         /\ \A i \in DOMAIN record'[r] :
              record'[r][i].layer \in Layer /\ record'[r][i].len \in 1 .. numTokens'[r]
         /\ \A l \in Layer :
              SeqUsed([x \in Requests |-> 0], r, l)' = Cardinality(Reached(hidden, l, r))
<1> DEFINE c == numComputed[r]
           n == q[r]
           z == [x \in Requests |-> 0]
<1>0. /\ r \in Requests /\ c \in Nat /\ n \in Nat \ {0} /\ numTokens[r] \in Nat /\ c + n <= numTokens[r]
      /\ numComputed'[r] = c + n /\ numTokens'[r] \in {numTokens[r], numTokens[r] + 1}
      /\ NumLayers \in 0 .. NumLayers /\ FirstDrop < NumLayers
      /\ z[r] = 0
  <2>1. r \in Requests /\ c \in Nat /\ n \in Nat \ {0} /\ c + n <= numTokens[r]
    BY PassFacts
  <2>2. numTokens[r] \in Nat
    BY <2>1 DEF IInv, Types
  <2>3. numComputed'[r] = c + n /\ numTokens'[r] \in {numTokens[r], numTokens[r] + 1}
    BY <2>1 DEF StepOf
  <2>4. NumLayers \in 0 .. NumLayers /\ FirstDrop < NumLayers
    BY FirstDropFacts DEF Layer
  <2>5. z[r] = 0
    BY <2>1
  <2> QED BY <2>1, <2>2, <2>3, <2>4, <2>5
<1>1. record'[r] = IF n > 1 /\ Rewritten(batch, q, hidden, NumLayers)
                     THEN NewRecord(batch, q, hidden, r) ELSE record[r]
  BY <1>0 DEF StepOf, SaveRecords
<1>2. \A l : SeqUsed(z, r, l)' = IF record'[r] = << >> THEN c + n
                                 ELSE LenIn(record'[r], l) + Since(c + n, record'[r])
  <2>1. KvLen(z, r)' = c + n
    <3>1. KvLen(z, r)' = (c + n) + 0
      BY <1>0 DEF KvLen
    <3> HIDE DEF c, n
    <3> QED BY <1>0, <3>1
  <2> SUFFICES ASSUME NEW l
               PROVE  SeqUsed(z, r, l)' = IF record'[r] = << >> THEN c + n
                        ELSE LenIn(record'[r], l) + Since(c + n, record'[r])
    OBVIOUS
  <2>2. SeqUsed(z, r, l)' = IF record'[r] = << >> THEN KvLen(z, r)'
                        ELSE LenAtLayer(r, l)' + Since(KvLen(z, r)', record'[r])
    BY DEF SeqUsed, Since
  <2>3. LenAtLayer(r, l)' = LenIn(record'[r], l)
    BY DEF LenAtLayer, LenIn
  <2> HIDE DEF z, c, n
  <2> QED BY <2>1, <2>2, <2>3, Zenon
<1>3. \A l : LenAtLayer(r, l)' = LenIn(record'[r], l)
  BY DEF LenAtLayer, LenIn
<1> HIDE DEF z
<1>4. CASE NeverDrops(config)
  <2>1. record'[r] = << >>
    <3>1. ~Rewritten(batch, q, hidden, NumLayers)
      BY <1>0, <1>4, NeverDropsFacts
    <3>2. record[r] = << >>
      BY <1>0, <1>4 DEF IInv, RequestOK, Counts
    <3> QED BY <1>1, <3>1, <3>2
  <2>2. ASSUME NEW l \in Layer PROVE SeqUsed(z, r, l)' = Cardinality(Reached(hidden, l, r))
    <3>1. Reached(hidden, l, r) = 0 .. (c + n - 1)
      BY <1>4, SlotsInOrder
    <3>2. PICK k \in Nat : k = c + n
      <4> HIDE DEF c, n
      <4> QED BY <1>0
    <3>3. Reached(hidden, l, r) = 0 .. (k - 1)
      <4> HIDE DEF c, n
      <4> QED BY <1>0, <3>1, <3>2
    <3>4. Cardinality(Reached(hidden, l, r)) = k
      BY <3>3, IntervalCount
    <3> QED BY <1>2, <2>1, <3>2, <3>4
  <2> QED BY <1>4, <2>1, <2>2 DEF z
<1>5. CASE ~NeverDrops(config) /\ n = 1
  <2>1. status[r] = "running" /\ record[r] # << >>
    BY <1>5, WholeFacts
  <2>2. record'[r] = record[r]
    BY <1>1, <1>5
  <2>3. /\ record[r][1].len \in 1 .. c /\ \A l \in Layer : LenAtLayer(r, l) \in Nat
        /\ Records(r)
    BY <1>0, <1>5, <2>1 DEF IInv, RequestOK, Counts
  <2>4. \A l \in Layer : LenAtLayer(r, l)' \in Nat
    BY <1>3, <2>2, <2>3 DEF LenAtLayer, LenIn
  <2>5. record'[r][1].len \in 1 .. numComputed'[r]
    <3> HIDE DEF c, n
    <3> QED BY <1>0, <2>2, <2>3
  <2>6. \A i \in DOMAIN record'[r] :
          record'[r][i].layer \in Layer /\ record'[r][i].len \in 1 .. numTokens'[r]
    <3> SUFFICES ASSUME NEW i \in DOMAIN record[r]
                 PROVE  record[r][i].layer \in Layer /\ record[r][i].len \in 1 .. numTokens'[r]
      BY <2>2
    <3>1. record[r][i].layer \in Layer /\ record[r][i].len \in 1 .. numTokens[r]
      BY <2>3 DEF Records
    <3> QED BY <1>0, <3>1
  <2>7. ASSUME NEW l \in Layer PROVE SeqUsed(z, r, l)' = Cardinality(Reached(hidden, l, r))
    <3>1. SeqUsed(z, r, l)' = SeqUsed(q, r, l)
      <4>1. KvLen(q, r) = c + n
        BY DEF KvLen
      <4>2. SeqUsed(q, r, l) = LenAtLayer(r, l) + Since(c + n, record[r])
        <5>1. SeqUsed(q, r, l) = LenAtLayer(r, l) + Since(KvLen(q, r), record[r])
          BY <2>1 DEF SeqUsed, Since
        <5> HIDE DEF c, n
        <5> QED BY <4>1, <5>1, Zenon
      <4>3. SeqUsed(z, r, l)' = LenIn(record[r], l) + Since(c + n, record[r])
        BY <1>2, <2>1, <2>2
      <4>4. LenAtLayer(r, l) = LenIn(record[r], l)
        BY DEF LenAtLayer, LenIn
      <4> QED BY <4>2, <4>3, <4>4
    <3>2. SeqUsed(q, r, l) = Cardinality(alive[r][l]) + 1
      BY <1>0, <1>5, <2>1, SeqUsedNext
    <3>3. Reached(hidden, l, r) = alive[r][l] \cup {c}
      <4>1. l \in 0 .. NumLayers
        BY DropAssumption DEF Layer
      <4>2. hidden[l][r] = {c}
        BY <1>5, <4>1, HiddenCounts
      <4> QED BY <4>2 DEF Reached
    <3>4. c \in Nat /\ alive[r][l] \in SUBSET (0 .. (c - 1))
      BY <1>0, <2>1 DEF IInv, RequestOK, LayerOK
    <3> HIDE DEF c
    <3>5. Cardinality(alive[r][l] \cup {c}) = Cardinality(alive[r][l]) + 1
      BY <3>4, BeforeAppend, Zenon
    <3> QED BY <3>1, <3>2, <3>3, <3>5, Zenon
  <2> QED BY <1>5, <2>1, <2>2, <2>4, <2>5, <2>6, <2>7 DEF z
<1>6. CASE ~NeverDrops(config) /\ n # 1
  <2>1. status[r] = "waiting" /\ c = 0 /\ Rewritten(batch, q, hidden, NumLayers)
    BY <1>0, <1>6, WholeFacts
  <2>2. record'[r] = NewRecord(batch, q, hidden, r)
    <3>1. n > 1
      BY <1>0, <1>6
    <3> QED BY <1>1, <2>1, <3>1
  <2>3. /\ record'[r] # << >> /\ record'[r][1].len = c + n
        /\ \A i \in DOMAIN record'[r] :
             record'[r][i].layer \in Layer /\ record'[r][i].len \in 1 .. numTokens[r]
        /\ \A l \in Layer : LenIn(record'[r], l) = Cardinality(hidden[l][r])
    BY <1>6, <2>2, NewRecordFacts
  <2>4. \A i \in DOMAIN record'[r] :
          record'[r][i].layer \in Layer /\ record'[r][i].len \in 1 .. numTokens'[r]
    <3> SUFFICES ASSUME NEW i \in DOMAIN record'[r]
                 PROVE  record'[r][i].layer \in Layer /\ record'[r][i].len \in 1 .. numTokens'[r]
      OBVIOUS
    <3>1. record'[r][i].layer \in Layer /\ record'[r][i].len \in 1 .. numTokens[r]
      BY <2>3
    <3> QED BY <1>0, <3>1
  <2>5. ASSUME NEW l \in Layer
        PROVE  /\ LenAtLayer(r, l)' \in Nat
               /\ SeqUsed(z, r, l)' = Cardinality(Reached(hidden, l, r))
    <3>1. alive[r][l] = {}
      BY <1>0, <2>1 DEF IInv, RequestOK, Released
    <3>2. Reached(hidden, l, r) = hidden[l][r]
      BY <3>1 DEF Reached
    <3>3. LenIn(record'[r], l) = Cardinality(Reached(hidden, l, r))
      BY <2>3, <3>2
    <3>4. Cardinality(Reached(hidden, l, r)) \in Nat
      BY LayerTokens
    <3>5. Since(c + n, record'[r]) = 0
      <4>1. record'[r][1].len = c + n
        BY <2>3
      <4> HIDE DEF c, n
      <4> DEFINE v == (c + n) - record'[r][1].len
      <4>2. Since(c + n, record'[r]) = MaxNat(0, v)
        BY DEF Since
      <4>3. v = 0
        BY <1>0, <4>1
      <4> HIDE DEF v
      <4>4. Since(c + n, record'[r]) = MaxNat(0, 0)
        BY <4>2, <4>3
      <4>5. MaxNat(0, 0) = 0
        BY DEF MaxNat
      <4> QED BY <4>4, <4>5
    <3>6. SeqUsed(z, r, l)' = LenIn(record'[r], l) + Since(c + n, record'[r])
      BY <1>2, <2>3
    <3>7. SeqUsed(z, r, l)' = Cardinality(Reached(hidden, l, r)) + 0
      BY <3>3, <3>5, <3>6, Zenon
    <3>8. SeqUsed(z, r, l)' = Cardinality(Reached(hidden, l, r))
      BY <3>4, <3>7
    <3>9. LenAtLayer(r, l)' \in Nat
      BY <1>3, <3>3, <3>4
    <3> QED BY <3>8, <3>9
  <2>6. record'[r][1].len \in 1 .. numComputed'[r]
    <3>1. record'[r][1].len = c + n
      BY <2>3
    <3> HIDE DEF c, n
    <3> QED BY <1>0, <3>1
  <2> QED BY <1>6, <2>3, <2>4, <2>5, <2>6 DEF z
<1> QED BY <1>4, <1>5, <1>6

\* What a step does for a request of its batch.
LEMMA RequestStepped ==
  ASSUME Supported, IInv, NEW batch, NEW q, NEW dropped, Pass(batch, q, dropped),
         NEW hidden, IsHidden(batch, q, dropped, hidden), NEW reused,
         StepOf(batch, q, hidden, reused), NEW r \in Range(batch)
  PROVE  RequestOK(r)'
<1> DEFINE c == numComputed[r]
           n == q[r]
<1>0. /\ r \in Requests /\ c \in Nat /\ n \in Nat \ {0} /\ numTokens[r] \in Nat
      /\ c + n <= numTokens[r] /\ numTokens[r] < MaxLen[r] /\ MaxLen[r] \in Nat
      /\ ~ChunkedPrefill => c + n = numTokens[r]
      /\ PromptLen[r] <= numTokens[r] /\ PromptLen[r] \in Nat /\ config' = config
  <2>1. r \in Requests /\ c \in Nat /\ n \in Nat \ {0} /\ c + n <= numTokens[r]
        /\ numTokens[r] < MaxLen[r] /\ (~ChunkedPrefill => c + n = numTokens[r])
    BY PassFacts
  <2>2. numTokens[r] \in Nat /\ PromptLen[r] <= numTokens[r]
    BY <2>1 DEF IInv, Types, RequestOK, Counts
  <2>3. MaxLen[r] \in Nat /\ PromptLen[r] \in Nat
    BY <2>1, DropAssumption
  <2>4. config' = config
    BY DEF StepOf
  <2> QED BY <2>1, <2>2, <2>3, <2>4
<1>1. PICK k \in Nat : k = c + n
  <2> HIDE DEF c, n
  <2> QED BY <1>0
<1>2. /\ status'[r] = "running" /\ numComputed'[r] = k
      /\ numTokens'[r] = IF k = numTokens[r] THEN numTokens[r] + 1 ELSE numTokens[r]
  BY <1>0, <1>1 DEF StepOf
<1>3. /\ NeverDrops(config) => record'[r] = << >>
      /\ ~NeverDrops(config) => /\ record'[r] # << >>
                                /\ record'[r][1].len \in 1 .. numComputed'[r]
                                /\ \A l \in Layer : LenAtLayer(r, l)' \in Nat
      /\ \A i \in DOMAIN record'[r] :
           record'[r][i].layer \in Layer /\ record'[r][i].len \in 1 .. numTokens'[r]
  BY RecordAfter
<1>4. k > 0 /\ k <= numTokens[r] /\ (~NeverDrops(config) => k = numTokens[r])
  <2>1. ~NeverDrops(config) => ~ChunkedPrefill
    BY WholeFacts
  <2> HIDE DEF c, n
  <2> QED BY <1>0, <1>1, <2>1
<1>5. Counts(r)'
  <2>1. /\ PromptLen[r] <= numTokens'[r] /\ numTokens'[r] <= MaxLen[r]
        /\ k < numTokens'[r] /\ (~NeverDrops(config) => k = numTokens'[r] - 1)
    <3> HIDE DEF c, n
    <3> QED BY <1>0, <1>2, <1>4
  <2> QED BY <1>0, <1>2, <1>3, <1>4, <2>1 DEF Counts
<1>6. Records(r)'
  BY <1>3 DEF Records
<1>7. sampled'[r] = k - 1
  <2> DEFINE H == hidden[NumLayers][r]
  <2>1. NumLayers \in 0 .. NumLayers
    BY DropAssumption
  <2>2. /\ H \subseteq Query(q, r) /\ numComputed[r] + q[r] - 1 \in H
        /\ Query(q, r) = numComputed[r] .. (numComputed[r] + q[r] - 1)
    BY <1>0, <2>1, HiddenCounts, QueryFacts DEF IInv
  <2>3. sampled'[r] = Max(H)
    BY <1>0 DEF StepOf, Forward
  <2> HIDE DEF H
  <2>4. H \subseteq 0 .. (k - 1) /\ k - 1 \in H
    <3>1. H \subseteq c .. (c + n - 1) /\ c + n - 1 \in H
      BY <2>2
    <3> HIDE DEF c, n
    <3> QED BY <1>0, <1>1, <3>1
  <2>5. Max(H) = k - 1
    <3>1. \A x \in H : x \in Int /\ x <= k - 1
      BY <2>4
    <3>2. Max(H) \in H /\ \A y \in H : Max(H) >= y
      BY <2>4, <3>1 DEF Max
    <3>3. Max(H) \in Int /\ Max(H) <= k - 1 /\ Max(H) >= k - 1
      BY <2>4, <3>1, <3>2
    <3> QED BY <3>3
  <2> QED BY <2>3, <2>5
<1>8. ASSUME NEW l \in Layer PROVE LayerOK(r, l)'
  <2> DEFINE A == Reached(hidden, l, r)
  <2>1. alive'[r][l] = A
    BY <1>0 DEF StepOf, Forward, Reached
  <2>2. /\ A \subseteq 0 .. (k - 1)
        /\ NeverDrops(config) \/ l <= FirstDrop => A = 0 .. (k - 1)
        /\ ReadLen(batch, q, hidden, l, r) = Cardinality(A)
    <3>1. /\ A \subseteq 0 .. (c + n - 1)
          /\ NeverDrops(config) \/ l <= FirstDrop => A = 0 .. (c + n - 1)
          /\ ReadLen(batch, q, hidden, l, r) = Cardinality(A)
      BY SlotsInOrder
    <3>2. c + n - 1 = k - 1
      <4> HIDE DEF c, n
      <4> QED BY <1>0, <1>1
    <3> HIDE DEF A
    <3> QED BY <3>1, <3>2, Zenon
  <2>3. A \in SUBSET Nat /\ IsFiniteSet(A) /\ Cardinality(A) \in Nat /\ \A t \in A : Before(A, t) \in Nat
    <3>1. /\ A \in SUBSET Nat /\ IsFiniteSet(A) /\ Cardinality(A) \in 0 .. k
          /\ \A t \in A : Before(A, t) \in 0 .. (k - 1)
      BY <2>2, TokensBelow
    <3> HIDE DEF A
    <3> QED BY <3>1
  <2>4. Stored(r, l)'
    <3> SUFFICES ASSUME NEW t \in A, Before(A, t) >= TakenBack(r, l)'
                 PROVE  kv'[r][l][Before(A, t)] = <<r, t>>
      BY <2>1 DEF Stored
    <3>1. TakenBack(r, l) = Taken(c, l) /\ TakenBack(r, l)' = Taken(k, l)
      <4>1. TakenBack(r, l) = Taken(c, l)
        BY DEF TakenBack, Taken, NumSkippedTokens, Skipped, WholeBlocks
      <4>2. Sliding' = Sliding /\ SlidingWindow' = SlidingWindow
        BY <1>0 DEF Sliding, SlidingWindow
      <4>3. TakenBack(r, l)' = Taken(k, l)
        BY <1>2, <4>2 DEF TakenBack, Taken, NumSkippedTokens, Skipped, WholeBlocks
      <4> QED BY <4>1, <4>3
    <3>2. Taken(c, l) \in Nat /\ Taken(k, l) \in Nat /\ Taken(c, l) <= Taken(k, l)
      <4>1. Taken(c, l) \in Nat /\ Taken(c + n, l) \in Nat /\ Taken(c, l) <= Taken(c + n, l)
        BY <1>0, TakenFacts DEF IInv
      <4> HIDE DEF c, n
      <4> QED BY <1>1, <4>1
    <3>3. Before(A, t) >= TakenBack(r, l)
      BY <2>3, <3>1, <3>2
    <3>4. StoredKV(batch, q, hidden, reused)[r][l][Before(A, t)] = <<r, t>>
      BY <3>3, StoredNow
    <3> QED BY <3>4 DEF StepOf, Forward
  <2>5. SeqUsed([x \in Requests |-> 0], r, l)' = Cardinality(A)
    BY RecordAfter
  <2>6. Reads(r, l)'
    <3> DEFINE tokens == Increasing(A)
               w == Window(r, l)
               first == MaxNat(0, Cardinality(A) - w)
    <3>1. Window(r, l)' = w
      BY <1>0 DEF Window, Sliding, SlidingWindow
    <3>2. Len(tokens) = Cardinality(A)
      BY <2>3, Enumerates
    <3>3. kv' = StoredKV(batch, q, hidden, reused)
      BY DEF StepOf, Forward
    <3>4. attended'[r][l] = [i \in 1 .. (Cardinality(A) - first) |-> kv'[r][l][first + i - 1]]
      BY <1>0, <2>2 DEF StepOf, Forward
    <3>5. \A i \in 1 .. (Cardinality(A) - first) : kv'[r][l][first + i - 1] = <<r, tokens[first + i]>>
      BY <3>3, ReadsNow
    <3>6. attended'[r][l] = [i \in 1 .. (Cardinality(A) - first) |-> <<r, tokens[first + i]>>]
      <4> HIDE DEF tokens, first, A
      <4> QED BY <3>4, <3>5
    <3> HIDE DEF w, A
    <3> QED BY <2>1, <3>1, <3>2, <3>6 DEF Reads
  <2> HIDE DEF A
  <2> QED BY <1>0, <1>2, <2>1, <2>2, <2>4, <2>5, <2>6 DEF LayerOK
<1> QED BY <1>2, <1>5, <1>6, <1>7, <1>8 DEF RequestOK

\* A request for which nothing changes.
LEMMA RequestKept ==
  ASSUME NEW r \in Requests, RequestOK(r), Types, UNCHANGED config,
         status'[r] = status[r], numTokens'[r] = numTokens[r], numComputed'[r] = numComputed[r],
         record'[r] = record[r], alive'[r] = alive[r], attended'[r] = attended[r],
         sampled'[r] = sampled[r],
         \A l \in Layer : \A s \in Slot(r) : kv'[r][l][s] = kv[r][l][s]
  PROVE  RequestOK(r)'
<1>1. \A l : LenAtLayer(r, l)' = LenAtLayer(r, l)
  BY DEF LenAtLayer
<1>2. Counts(r)' /\ Records(r)'
  <2>1. Counts(r)'
    BY <1>1 DEF RequestOK, Counts
  <2> QED BY <2>1 DEF RequestOK, Records
<1>3. ASSUME status[r] # "running" PROVE Released(r)'
  BY <1>3 DEF RequestOK, Released
<1>4. ASSUME status[r] = "running", NEW l \in Layer PROVE LayerOK(r, l)'
  <2>1. LayerOK(r, l)
    BY <1>4 DEF RequestOK
  <2>2. SeqUsed([x \in Requests |-> 0], r, l)' = SeqUsed([x \in Requests |-> 0], r, l)
    BY <1>1 DEF SeqUsed, KvLen
  <2>3. Sliding' = Sliding /\ SlidingWindow' = SlidingWindow
    BY DEF Sliding, SlidingWindow
  <2>4. TakenBack(r, l)' = TakenBack(r, l) /\ Window(r, l)' = Window(r, l)
    BY <2>3 DEF TakenBack, NumSkippedTokens, Window
  <2>5. Stored(r, l)'
    <3> DEFINE A == alive[r][l]
    <3> SUFFICES ASSUME NEW t \in A, Before(A, t) >= TakenBack(r, l)
                 PROVE  kv'[r][l][Before(A, t)] = <<r, t>>
      BY <2>4 DEF Stored
    <3>1. kv[r][l][Before(A, t)] = <<r, t>>
      BY <2>1 DEF LayerOK, Stored
    <3>2. /\ numComputed[r] \in Nat /\ numComputed[r] < numTokens[r] /\ numTokens[r] <= MaxLen[r]
          /\ numTokens[r] \in Nat /\ MaxLen[r] \in Nat
      BY DropAssumption DEF Types, RequestOK, Counts
    <3>3. A \in SUBSET (0 .. (numComputed[r] - 1))
      BY <2>1 DEF LayerOK
    <3> HIDE DEF A
    <3>4. Before(A, t) \in 0 .. (numComputed[r] - 1)
      BY <3>2, <3>3, TokensBelow
    <3>5. Before(A, t) \in Slot(r)
      BY <3>2, <3>4 DEF Slot
    <3> QED BY <3>1, <3>5
  <2>6. Reads(r, l)'
    BY <2>1, <2>4 DEF LayerOK, Reads
  <2> QED BY <2>1, <2>2, <2>5, <2>6 DEF LayerOK
<1> QED BY <1>2, <1>3, <1>4 DEF RequestOK

LEMMA StepKeeps ==
  ASSUME Supported, IInv, Step
  PROVE  IInv'
<1>1. PICK batch, q, dropped, reused :
        Pass(batch, q, dropped) /\ StepOf(batch, q, Hidden(batch, q, dropped), reused)
  BY StepParts, Zenon
<1>2. IsHidden(batch, q, dropped, Hidden(batch, q, dropped))
  BY HiddenDef
<1> DEFINE hidden == Hidden(batch, q, dropped)
<1>3. /\ Pass(batch, q, dropped) /\ IsHidden(batch, q, dropped, hidden)
      /\ StepOf(batch, q, hidden, reused)
  BY <1>1, <1>2
<1> HIDE DEF hidden
<1>4. Types'
  <2>1. \A r \in Range(batch) : q[r] \in Nat
    BY <1>3, PassFacts
  <2>2. numComputed' \in [Requests -> Nat]
    BY <1>3, <2>1 DEF StepOf, IInv, Types
  <2>3. numTokens' \in [Requests -> Nat]
    BY <1>3 DEF StepOf, IInv, Types
  <2> QED BY <1>3, <2>2, <2>3 DEF StepOf, Forward, StoredKV, SaveRecords, IInv, Types
<1>5. ASSUME NEW r \in Requests PROVE RequestOK(r)'
  <2>1. CASE r \in Range(batch)
    BY <1>3, <2>1, RequestStepped
  <2>2. CASE r \notin Range(batch)
    <3>1. ASSUME NEW l \in Layer, NEW s \in Slot(r) PROVE kv'[r][l][s] = kv[r][l][s]
      <4>1. {w \in KVWrites(batch, q, hidden, l) : w[1] = r /\ w[2] = s} = {}
        BY <1>3, <2>2, WritesTo
      <4>2. StoredKV(batch, q, hidden, reused)[r][l][s] = kv[r][l][s]
        BY <2>2, <4>1 DEF StoredKV
      <4> QED BY <1>3, <4>2 DEF StepOf, Forward
    <3>2. /\ status'[r] = status[r] /\ numTokens'[r] = numTokens[r]
          /\ numComputed'[r] = numComputed[r] /\ UNCHANGED config
      BY <1>3, <2>2 DEF StepOf
    <3>3. record'[r] = record[r]
      BY <1>3, <2>2 DEF StepOf, SaveRecords
    <3>4. alive'[r] = alive[r] /\ attended'[r] = attended[r] /\ sampled'[r] = sampled[r]
      BY <1>3, <2>2 DEF StepOf, Forward
    <3> QED BY <3>1, <3>2, <3>3, <3>4, RequestKept DEF IInv
  <2> QED BY <2>1, <2>2
<1> QED BY <1>4, <1>5 DEF IInv

\* A request whose blocks are freed has nothing left in any layer.
LEMMA ReleaseFacts ==
  ASSUME Types, NEW r \in Requests, ReleaseKV(r)
  PROVE  /\ Released(r)'
         /\ DOMAIN kv' = Requests /\ DOMAIN alive' = Requests /\ DOMAIN attended' = Requests
         /\ DOMAIN sampled' = Requests
         /\ \A x \in Requests : x # r =>
              /\ kv'[x] = kv[x] /\ alive'[x] = alive[x] /\ attended'[x] = attended[x]
              /\ sampled'[x] = sampled[x]
<1>1. alive'[r] = [l \in Layer |-> {}] /\ attended'[r] = [l \in Layer |-> << >>] /\ sampled'[r] = -1
  BY DEF Types, ReleaseKV
<1>2. Released(r)'
  BY <1>1 DEF Released
<1>3. /\ DOMAIN kv' = Requests /\ DOMAIN alive' = Requests /\ DOMAIN attended' = Requests
      /\ DOMAIN sampled' = Requests
  BY DEF Types, ReleaseKV
<1>4. ASSUME NEW x \in Requests, x # r
      PROVE  /\ kv'[x] = kv[x] /\ alive'[x] = alive[x] /\ attended'[x] = attended[x]
             /\ sampled'[x] = sampled[x]
  BY <1>4 DEF Types, ReleaseKV
<1> QED BY <1>2, <1>3, <1>4

LEMMA FinishKeeps ==
  ASSUME IInv, NEW r \in Requests, Finish(r)
  PROVE  IInv'
<1>1. Types'
  <2>1. /\ DOMAIN kv' = Requests /\ DOMAIN alive' = Requests /\ DOMAIN attended' = Requests
        /\ DOMAIN sampled' = Requests
    BY ReleaseFacts DEF IInv, Finish
  <2> QED BY <2>1 DEF IInv, Types, Finish
<1>2. ASSUME NEW x \in Requests PROVE RequestOK(x)'
  <2>1. CASE x = r
    <3>1. status'[r] = "finished" /\ record'[r] = << >> /\ UNCHANGED <<config, numTokens, numComputed>>
      BY DEF IInv, Types, Finish
    <3>2. Released(r)'
      BY ReleaseFacts DEF IInv, Finish
    <3>3. Counts(r)'
      BY <3>1 DEF IInv, RequestOK, Counts
    <3>4. Records(r)'
      BY <3>1 DEF Records
    <3> QED BY <2>1, <3>1, <3>2, <3>3, <3>4 DEF RequestOK
  <2>2. CASE x # r
    <3>1. /\ status'[x] = status[x] /\ record'[x] = record[x]
          /\ UNCHANGED <<config, numTokens, numComputed>>
      BY <2>2 DEF IInv, Types, Finish
    <3>2. /\ kv'[x] = kv[x] /\ alive'[x] = alive[x] /\ attended'[x] = attended[x]
          /\ sampled'[x] = sampled[x]
      BY <2>2, ReleaseFacts DEF IInv, Finish
    <3> QED BY <3>1, <3>2, RequestKept DEF IInv
  <2> QED BY <2>1, <2>2
<1> QED BY <1>1, <1>2 DEF IInv

\* A preempted request is one of a server that never drops.
LEMMA PreemptKeeps ==
  ASSUME Supported, IInv, NEW r \in Requests, Preempt(r)
  PROVE  IInv'
<1>0. NeverDrops(config)
  BY DEF Supported, WholePrompts, Preempt, Preemption, IInv, Types
<1>1. Types'
  <2>1. /\ DOMAIN kv' = Requests /\ DOMAIN alive' = Requests /\ DOMAIN attended' = Requests
        /\ DOMAIN sampled' = Requests
    BY ReleaseFacts DEF IInv, Preempt
  <2> QED BY <2>1 DEF IInv, Types, Preempt
<1>2. ASSUME NEW x \in Requests PROVE RequestOK(x)'
  <2>1. CASE x = r
    <3>1. status'[r] = "waiting" /\ numComputed'[r] = 0 /\ UNCHANGED <<config, numTokens, record>>
      BY DEF IInv, Types, Preempt
    <3>2. Released(r)'
      BY ReleaseFacts DEF IInv, Preempt
    <3>3. Counts(r)'
      <4>1. PromptLen[r] \in Nat \ {0} /\ PromptLen[r] <= numTokens[r] /\ numTokens[r] \in Nat
        BY DropAssumption DEF IInv, Types, RequestOK, Counts
      <4>2. 0 < numTokens[r]
        BY <4>1
      <4> QED BY <1>0, <3>1, <4>2 DEF IInv, RequestOK, Counts
    <3>4. Records(r)'
      BY <3>1 DEF IInv, RequestOK, Records
    <3> QED BY <2>1, <3>1, <3>2, <3>3, <3>4 DEF RequestOK
  <2>2. CASE x # r
    <3>1. /\ status'[x] = status[x] /\ numComputed'[x] = numComputed[x]
          /\ UNCHANGED <<config, numTokens, record>>
      BY <2>2 DEF IInv, Types, Preempt
    <3>2. /\ kv'[x] = kv[x] /\ alive'[x] = alive[x] /\ attended'[x] = attended[x]
          /\ sampled'[x] = sampled[x]
      BY <2>2, ReleaseFacts DEF IInv, Preempt
    <3> QED BY <3>1, <3>2, RequestKept DEF IInv
  <2> QED BY <2>1, <2>2
<1> QED BY <1>1, <1>2 DEF IInv

LEMMA InitIInv == ASSUME Init PROVE IInv
<1>1. Types
  BY DropAssumption DEF Init, Types
<1>2. ASSUME NEW r \in Requests PROVE RequestOK(r)
  <2>1. /\ status[r] = "waiting" /\ numTokens[r] = PromptLen[r] /\ numComputed[r] = 0
        /\ record[r] = << >> /\ sampled[r] = -1
        /\ \A l \in Layer : alive[r][l] = {} /\ attended[r][l] = << >>
    BY DEF Init
  <2>2. PromptLen[r] \in Nat \ {0} /\ MaxLen[r] \in Nat /\ PromptLen[r] < MaxLen[r]
    BY DropAssumption
  <2>3. Counts(r)
    BY <2>1, <2>2 DEF Counts
  <2>4. Records(r) /\ Released(r)
    BY <2>1 DEF Records, Released
  <2> QED BY <2>1, <2>3, <2>4 DEF RequestOK
<1> QED BY <1>1, <1>2 DEF IInv

-----------------------------------------------------------------------------
(* The theorems                                                            *)

\* A step, the end of a request and a preemption keep the lengths, the records
\* and the slots of all layers in agreement, if dropping is supported.
THEOREM Invariant == ASSUME Supported PROVE Spec => []IInv
<1>1. Init => IInv
  BY InitIInv
<1>2. IInv /\ [Next]_vars => IInv'
  <2> SUFFICES ASSUME IInv, [Next]_vars PROVE IInv'
    OBVIOUS
  <2>1. CASE Step
    BY <2>1, StepKeeps
  <2>2. ASSUME NEW r \in Requests, Finish(r) PROVE IInv'
    BY <2>2, FinishKeeps
  <2>3. ASSUME NEW r \in Requests, Preempt(r) PROVE IInv'
    BY <2>3, PreemptKeeps
  <2>4. CASE UNCHANGED vars
    <3>1. Types'
      BY <2>4 DEF vars, IInv, Types
    <3>2. ASSUME NEW r \in Requests PROVE RequestOK(r)'
      BY <2>4, RequestKept DEF vars, IInv
    <3> QED BY <3>1, <3>2 DEF IInv
  <2> QED BY <2>1, <2>2, <2>3, <2>4 DEF Next
<1> QED BY <1>1, <1>2, PTL DEF Spec

\* The attention of every step reads in every layer the KV of exactly the tokens
\* of the request that reached the layer, in order (_seqused, seq_lens and the
\* slot mapping that _update_metadata_after_drop and the runner derive).
THEOREM AttentionAlwaysRight == ASSUME Supported PROVE Spec => []AttentionReadsItsTokens
<1>1. IInv => AttentionReadsItsTokens
  BY DEF IInv, RequestOK, LayerOK, Reads, AttentionReadsItsTokens, HasComputed
<1> QED BY <1>1, Invariant, PTL

\* _token_drop_per_req and the scheduler's count determine how many tokens every
\* layer has: the next decode step writes behind them.
THEOREM RecordsAlwaysCount == ASSUME Supported PROVE Spec => []RecordCounts
<1>1. ASSUME IInv PROVE TypeOK
  <2>1. status \in [Requests -> {"waiting", "running", "finished"}]
    BY <1>1 DEF IInv, Types
  <2>2. ASSUME NEW r \in Requests
        PROVE  /\ numTokens[r] \in PromptLen[r] .. MaxLen[r]
               /\ numComputed[r] \in 0 .. numTokens[r]
               /\ sampled[r] \in -1 .. (numTokens[r] - 1)
               /\ \A i \in DOMAIN record[r] :
                    record[r][i].layer \in Layer /\ record[r][i].len \in 1 .. numTokens[r]
               /\ \A l \in Layer : /\ alive[r][l] \subseteq Token(r)
                                  /\ Len(attended[r][l]) <= numComputed[r]
    <3>1. /\ numTokens[r] \in Nat /\ numComputed[r] \in Nat /\ PromptLen[r] \in Nat /\ MaxLen[r] \in Nat
          /\ PromptLen[r] <= numTokens[r] /\ numTokens[r] <= MaxLen[r]
          /\ numComputed[r] < numTokens[r]
      BY <1>1, DropAssumption DEF IInv, Types, RequestOK, Counts
    <3>2. sampled[r] = -1 \/ sampled[r] = numComputed[r] - 1
      BY <1>1 DEF IInv, RequestOK, Released
    <3>3. \A i \in DOMAIN record[r] :
            record[r][i].layer \in Layer /\ record[r][i].len \in 1 .. numTokens[r]
      BY <1>1 DEF IInv, RequestOK, Records
    <3>4. ASSUME NEW l \in Layer
          PROVE  alive[r][l] \subseteq Token(r) /\ Len(attended[r][l]) <= numComputed[r]
      <4>1. CASE status[r] # "running"
        <5>1. alive[r][l] = {} /\ attended[r][l] = << >>
          BY <1>1, <4>1 DEF IInv, RequestOK, Released
        <5>2. Len(<< >>) = 0
          OBVIOUS
        <5> QED BY <3>1, <5>1, <5>2
      <4>2. CASE status[r] = "running"
        <5> DEFINE A == alive[r][l]
                   n == Cardinality(A)
                   w == Window(r, l)
                   tokens == Increasing(A)
                   first == MaxNat(0, Len(tokens) - w)
        <5>1. /\ A \in SUBSET (0 .. (numComputed[r] - 1)) /\ Reads(r, l)
          BY <1>1, <4>2 DEF IInv, RequestOK, LayerOK
        <5>2. w \in Nat
          BY <1>1, <3>1, ConfigFacts DEF IInv, Window
        <5>3. attended[r][l] = [i \in 1 .. (Len(tokens) - first) |-> <<r, tokens[first + i]>>]
          BY <5>1 DEF Reads
        <5> HIDE DEF A, w
        <5>4. A \in SUBSET Nat /\ IsFiniteSet(A) /\ n \in 0 .. numComputed[r]
          BY <3>1, <5>1, TokensBelow
        <5>5. Len(tokens) = n
          BY <5>4, Enumerates
        <5> HIDE DEF tokens, n
        <5>6. first \in Nat /\ Len(tokens) - first \in Nat /\ Len(tokens) - first <= numComputed[r]
          BY <3>1, <5>2, <5>4, <5>5 DEF MaxNat
        <5> HIDE DEF first
        <5>7. Len(attended[r][l]) = Len(tokens) - first
          BY <5>3, <5>6
        <5>8. A \subseteq Token(r)
          BY <3>1, <5>1 DEF Token
        <5> QED BY <5>6, <5>7, <5>8 DEF A
      <4> QED BY <4>1, <4>2
    <3>5. sampled[r] \in -1 .. (numTokens[r] - 1)
      BY <3>1, <3>2
    <3> QED BY <3>1, <3>3, <3>4, <3>5
  <2> QED BY <2>1, <2>2 DEF TypeOK
<1>2. IInv => RecordCounts
  BY <1>1 DEF IInv, RequestOK, LayerOK, RecordCounts, HasComputed
<1> QED BY <1>2, Invariant, PTL

\* Logits are always those of the last computed token, whatever was dropped
\* before it (logits_indices after token_drop_applied).
THEOREM SampledAlwaysLast == ASSUME Supported PROVE Spec => []SampledFromLastToken
<1>1. IInv => SampledFromLastToken
  BY DEF IInv, RequestOK, SampledFromLastToken, HasComputed
<1> QED BY <1>1, Invariant, PTL
=============================================================================
