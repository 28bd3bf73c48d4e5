------------------------ MODULE KVCacheManagerProofs ------------------------
(***************************************************************************)
(* The block bookkeeping of the KV cache manager is correct for every      *)
(* number of blocks, every block size and every set of requests:           *)
(* TypeOK, FreeQueueExact, RefCountsOwners and CacheMapExact hold in every *)
(* reachable state of KVCacheManager.  On it rests what it is for: the     *)
(* contents of the blocks, in the second half of the module.               *)
(*                                                                         *)
(* None of them is inductive.  To free a list of blocks the counts must    *)
(* count its owners; to cache a block it must have no hash, which holds    *)
(* because a request caches its blocks in order (HashedInOrder) and        *)
(* because nobody else can have got hold of a block that was never cached  *)
(* (UnhashedUnshared).                                                     *)
(*                                                                         *)
(* The module begins with lemmas on the operators of BlockPool: what each  *)
(* method does to the free queue, to the reference counts and to the cache *)
(* map.                                                                    *)
(***************************************************************************)
EXTENDS KVCacheManager, FiniteSetTheorems, SequenceTheorems, WellFoundedInduction, TLAPS

-----------------------------------------------------------------------------
(* Sequences                                                               *)

\* x comes somewhere before y in s.
Before(s, x, y) == \E j, k \in DOMAIN s : j < k /\ s[j] = x /\ s[k] = y

\* The elements of a subsequence kept by Keep are the elements that are in S,
\* in their order, and a queue without duplicates stays without
\* (FreeKVCacheBlockQueue.remove).
LEMMA KeepProperties ==
  ASSUME NEW T, NEW s \in Seq(T), NEW S
  PROVE  /\ Keep(s, S) \in Seq(T)
         /\ Range(Keep(s, S)) = Range(s) \cap S
         /\ IsInjective(s) => IsInjective(Keep(s, S))
         /\ \A x, y \in S : Before(s, x, y) => Before(Keep(s, S), x, y)
<1> DEFINE I == {i \in DOMAIN s : s[i] \in S}
           n == Cardinality(I)
           f == [i \in I |-> Rank(I, i)]
           g == [k \in 1 .. n |-> CHOOSE i \in I : Rank(I, i) = k]
<1>1. I \subseteq 1 .. Len(s) /\ Len(s) \in Nat
  BY LenProperties
<1>2. IsFiniteSet(I) /\ n \in Nat
  <2>1. IsFiniteSet(1 .. Len(s))
    BY <1>1, FS_Interval
  <2>2. IsFiniteSet(I)
    BY <1>1, <2>1, FS_Subset
  <2> QED BY <2>2, FS_CardinalityType
<1>3. ASSUME NEW i \in I PROVE Rank(I, i) \in 1 .. n
  <2> DEFINE J == {j \in I : j <= i}
  <2>1. i \in J /\ J \subseteq I
    BY <1>1
  <2>2. IsFiniteSet(J) /\ Cardinality(J) \in Nat /\ Cardinality(J) <= n /\ Cardinality(J) # 0
    BY <1>2, <2>1, FS_Subset, FS_EmptySet, FS_CardinalityType
  <2> QED BY <2>2, <1>2 DEF Rank
<1>4. ASSUME NEW i \in I, NEW j \in I, i < j PROVE Rank(I, i) < Rank(I, j)
  <2> DEFINE Ji == {k \in I : k <= i}
             Jj == {k \in I : k <= j}
  <2>1. Ji \subseteq Jj /\ j \in Jj /\ j \notin Ji /\ Jj \subseteq I
    BY <1>1, <1>4
  <2>2. IsFiniteSet(Jj)
    BY <1>2, <2>1, FS_Subset
  <2>3. Cardinality(Ji) < Cardinality(Jj)
    BY <2>1, <2>2, FS_Subset, FS_CardinalityType
  <2> QED BY <2>3 DEF Rank
<1>5. f \in Injection(I, 1 .. n)
  <2>1. f \in [I -> 1 .. n]
    BY <1>3
  <2>2. ASSUME NEW i \in I, NEW j \in I, f[i] = f[j] PROVE i = j
    <3>1. i \in Int /\ j \in Int
      BY <1>1
    <3>2. i = j \/ i < j \/ j < i
      BY <3>1
    <3>3. Rank(I, i) = Rank(I, j) /\ Rank(I, i) \in Nat
      BY <2>2, <1>3
    <3> QED BY <3>2, <3>3, <1>4
  <2> QED BY <2>1, <2>2 DEF Injection, IsInjective
<1>6. f \in Surjection(I, 1 .. n)
  <2>1. IsFiniteSet(1 .. n) /\ Cardinality(1 .. n) = n
    BY <1>2, FS_Interval
  <2> QED BY <2>1, <1>5, FS_Injection
<1>7. \A k \in 1 .. n : g[k] \in I /\ Rank(I, g[k]) = k
  <2> TAKE k \in 1 .. n
  <2>1. PICK i \in I : f[i] = k
    BY <1>6 DEF Surjection
  <2> QED BY <2>1
<1>8. \A i \in I : g[Rank(I, i)] = i
  <2> TAKE i \in I
  <2>1. Rank(I, i) \in 1 .. n
    BY <1>3
  <2>2. g[Rank(I, i)] \in I /\ Rank(I, g[Rank(I, i)]) = Rank(I, i)
    BY <2>1, <1>7
  <2> QED BY <2>2, <1>5 DEF Injection, IsInjective
<1>9. Keep(s, S) = [k \in 1 .. n |-> s[g[k]]]
  BY DEF Keep
<1> HIDE DEF n, g
<1>10. Keep(s, S) \in Seq(T)
  <2>1. \A k \in 1 .. n : s[g[k]] \in T
    BY <1>7, <1>1, ElementOfSeq
  <2> QED BY <1>2, <1>9, <2>1, IsASeq
<1>11. Range(Keep(s, S)) = Range(s) \cap S
  <2>1. ASSUME NEW x \in Range(Keep(s, S)) PROVE x \in Range(s) \cap S
    <3>1. PICK k \in 1 .. n : x = s[g[k]]
      BY <1>9 DEF Range
    <3>2. g[k] \in DOMAIN s /\ s[g[k]] \in S
      BY <1>7
    <3> QED BY <3>1, <3>2 DEF Range
  <2>2. ASSUME NEW x \in Range(s) \cap S PROVE x \in Range(Keep(s, S))
    <3>1. PICK i \in DOMAIN s : s[i] = x
      BY DEF Range
    <3>2. i \in I
      BY <3>1
    <3>3. Rank(I, i) \in 1 .. n /\ g[Rank(I, i)] = i
      BY <3>2, <1>3, <1>8
    <3>4. \E k \in 1 .. n : Keep(s, S)[k] = x
      BY <3>1, <3>3, <1>9
    <3> QED BY <3>4, <1>9 DEF Range
  <2> QED BY <2>1, <2>2
<1>12. ASSUME IsInjective(s) PROVE IsInjective(Keep(s, S))
  <2> SUFFICES ASSUME NEW k \in 1 .. n, NEW l \in 1 .. n, s[g[k]] = s[g[l]]
               PROVE  k = l
    BY <1>9 DEF IsInjective
  <2>1. g[k] \in DOMAIN s /\ g[l] \in DOMAIN s
    BY <1>7
  <2>2. g[k] = g[l]
    BY <2>1, <1>12 DEF IsInjective
  <2> QED BY <2>2, <1>7
<1>13. ASSUME NEW x \in S, NEW y \in S, Before(s, x, y) PROVE Before(Keep(s, S), x, y)
  <2>1. PICK j \in DOMAIN s, k \in DOMAIN s : j < k /\ s[j] = x /\ s[k] = y
    BY <1>13 DEF Before
  <2>2. j \in I /\ k \in I
    BY <2>1
  <2>3. /\ Rank(I, j) \in 1 .. n /\ Rank(I, k) \in 1 .. n /\ Rank(I, j) < Rank(I, k)
        /\ g[Rank(I, j)] = j /\ g[Rank(I, k)] = k
    BY <2>1, <2>2, <1>3, <1>4, <1>8
  <2> HIDE DEF I
  <2> QED BY <2>1, <2>3, <1>9 DEF Before
<1> QED BY <1>10, <1>11, <1>12, <1>13

\* Concatenation: elements, and no duplicates when the parts are disjoint.
LEMMA ConcatRange ==
  ASSUME NEW T, NEW s \in Seq(T), NEW t \in Seq(T)
  PROVE  /\ s \o t \in Seq(T)
         /\ Range(s \o t) = Range(s) \cup Range(t)
         /\ IsInjective(s) /\ IsInjective(t) /\ Range(s) \cap Range(t) = {}
              => IsInjective(s \o t)
<1>1. /\ s \o t \in Seq(T)
      /\ Len(s \o t) = Len(s) + Len(t)
      /\ \A i \in 1 .. Len(s) + Len(t) :
           (s \o t)[i] = IF i <= Len(s) THEN s[i] ELSE t[i - Len(s)]
  BY ConcatProperties
<1>2. Range(s \o t) = Range(s) \cup Range(t)
  BY RangeConcatenation
<1>3. /\ Len(s) \in Nat /\ DOMAIN s = 1 .. Len(s)
      /\ Len(t) \in Nat /\ DOMAIN t = 1 .. Len(t)
      /\ DOMAIN (s \o t) = 1 .. Len(s) + Len(t)
  BY <1>1, LenProperties
<1>4. ASSUME IsInjective(s), IsInjective(t), Range(s) \cap Range(t) = {}
      PROVE  IsInjective(s \o t)
  <2> SUFFICES ASSUME NEW i \in 1 .. Len(s) + Len(t), NEW j \in 1 .. Len(s) + Len(t),
                      (s \o t)[i] = (s \o t)[j]
               PROVE  i = j
    BY <1>3 DEF IsInjective
  <2>1. \A k \in 1 .. Len(s), l \in 1 .. Len(t) : s[k] # t[l]
    BY <1>3, <1>4 DEF Range
  <2>2. CASE i <= Len(s) /\ j <= Len(s)
    BY <2>2, <1>1, <1>3, <1>4 DEF IsInjective
  <2>3. CASE i > Len(s) /\ j > Len(s)
    <3>1. /\ i - Len(s) \in DOMAIN t
          /\ j - Len(s) \in DOMAIN t
          /\ t[i - Len(s)] = t[j - Len(s)]
      BY <2>3, <1>1, <1>3
    <3>2. i - Len(s) = j - Len(s)
      BY <3>1, <1>4 DEF IsInjective
    <3> QED BY <3>2, <1>3
  <2>4. CASE i <= Len(s) /\ j > Len(s)
    <3>1. i \in 1 .. Len(s) /\ j - Len(s) \in 1 .. Len(t) /\ s[i] = t[j - Len(s)]
      BY <2>4, <1>1, <1>3
    <3> QED BY <3>1, <2>1
  <2>5. CASE i > Len(s) /\ j <= Len(s)
    <3>1. j \in 1 .. Len(s) /\ i - Len(s) \in 1 .. Len(t) /\ s[j] = t[i - Len(s)]
      BY <2>5, <1>1, <1>3
    <3> QED BY <3>1, <2>1
  <2> QED BY <2>2, <2>3, <2>4, <2>5, <1>3
<1> QED BY <1>1, <1>2, <1>4

\* Reversing a block list changes neither its elements nor their number.
LEMMA ReversedProperties ==
  ASSUME NEW T, NEW s \in Seq(T)
  PROVE  /\ Reversed(s) \in Seq(T)
         /\ Range(Reversed(s)) = Range(s)
         /\ IsInjective(s) => IsInjective(Reversed(s))
<1>1. Len(s) \in Nat /\ DOMAIN s = 1 .. Len(s) /\ \A i \in 1 .. Len(s) : s[i] \in T
  BY LenProperties, ElementOfSeq
<1>2. \A i \in 1 .. Len(s) : /\ Len(s) + 1 - i \in 1 .. Len(s)
                              /\ Len(s) + 1 - (Len(s) + 1 - i) = i
  BY <1>1
<1>3. Reversed(s) \in Seq(T)
  BY <1>1, <1>2, IsASeq DEF Reversed
<1>4. Range(Reversed(s)) = Range(s)
  <2>1. Range(Reversed(s)) \subseteq Range(s)
    BY <1>1, <1>2 DEF Range, Reversed
  <2>2. ASSUME NEW i \in 1 .. Len(s) PROVE s[i] \in Range(Reversed(s))
    <3>1. Reversed(s)[Len(s) + 1 - i] = s[i]
      BY <1>2 DEF Reversed
    <3> QED BY <3>1, <1>2 DEF Range, Reversed
  <2> QED BY <2>1, <2>2, <1>1 DEF Range
<1>5. ASSUME IsInjective(s) PROVE IsInjective(Reversed(s))
  <2> SUFFICES ASSUME NEW i \in 1 .. Len(s), NEW j \in 1 .. Len(s),
                      s[Len(s) + 1 - i] = s[Len(s) + 1 - j]
               PROVE  i = j
    BY DEF IsInjective, Reversed
  <2>1. Len(s) + 1 - i = Len(s) + 1 - j
    BY <1>1, <1>2, <1>5 DEF IsInjective
  <2> QED BY <2>1, <1>1
<1> QED BY <1>3, <1>4, <1>5

\* A queue without duplicates splits into its first n elements and the rest
\* (popleft_n): both without duplicates, and disjoint.
LEMMA SplitProperties ==
  ASSUME NEW T, NEW s \in Seq(T), IsInjective(s), NEW n \in 0 .. Len(s)
  PROVE  LET a == SubSeq(s, 1, n)
             b == SubSeq(s, n + 1, Len(s))
         IN  /\ a \in Seq(T) /\ IsInjective(a) /\ Len(a) = n
             /\ b \in Seq(T) /\ IsInjective(b)
             /\ Range(a) \subseteq Range(s)
             /\ Range(b) = Range(s) \ Range(a)
<1> DEFINE a == SubSeq(s, 1, n)
           b == SubSeq(s, n + 1, Len(s))
<1>1. Len(s) \in Nat /\ DOMAIN s = 1 .. Len(s) /\ \A i \in 1 .. Len(s) : s[i] \in T
  BY LenProperties, ElementOfSeq
<1>2. n \in Nat /\ n <= Len(s)
  BY <1>1
<1>3. a \in Seq(T) /\ Len(a) = n /\ \A i \in 1 .. n : a[i] = s[i]
  <2>1. \A i \in 1 .. n : s[i] \in T
    BY <1>1, <1>2
  <2> QED BY <1>2, <2>1, SubSeqProperties
<1>4. b \in Seq(T) /\ Len(b) = Len(s) - n /\ \A i \in 1 .. Len(s) - n : b[i] = s[n + i]
  <2>1. \A i \in (n + 1) .. Len(s) : s[i] \in T
    BY <1>1, <1>2
  <2>2. n + 1 \in Int /\ Len(s) \in Int
    BY <1>1, <1>2
  <2>3. /\ b \in Seq(T)
        /\ Len(b) = IF n + 1 <= Len(s) THEN Len(s) - (n + 1) + 1 ELSE 0
        /\ \A i \in 1 .. Len(s) - (n + 1) + 1 : b[i] = s[(n + 1) + i - 1]
    BY <2>1, <2>2, SubSeqProperties
  <2> HIDE DEF b
  <2>4. Len(b) = Len(s) - n
    <3>1. Len(b) = IF n + 1 <= Len(s) THEN Len(s) - (n + 1) + 1 ELSE 0
      BY <2>3
    <3>2. (IF n + 1 <= Len(s) THEN Len(s) - (n + 1) + 1 ELSE 0) = Len(s) - n
      <4>1. Len(s) \in Nat /\ n \in Nat /\ n <= Len(s)
        BY <1>1, <1>2
      <4> QED BY <4>1
    <3> QED BY <3>1, <3>2
  <2>5. ASSUME NEW i \in 1 .. Len(s) - n PROVE b[i] = s[n + i]
    <3>1. i \in 1 .. Len(s) - (n + 1) + 1 /\ (n + 1) + i - 1 = n + i
      BY <1>1, <1>2
    <3> QED BY <3>1, <2>3
  <2> QED BY <2>3, <2>4, <2>5
<1>5. DOMAIN a = 1 .. n /\ DOMAIN b = 1 .. Len(s) - n
  BY <1>3, <1>4, LenProperties
<1> HIDE DEF a, b
<1>6. IsInjective(a)
  BY <1>1, <1>2, <1>3, <1>5 DEF IsInjective
<1>7. IsInjective(b)
  <2> SUFFICES ASSUME NEW i \in 1 .. Len(s) - n, NEW j \in 1 .. Len(s) - n, b[i] = b[j]
               PROVE  i = j
    BY <1>5 DEF IsInjective
  <2>1. n + i \in DOMAIN s /\ n + j \in DOMAIN s /\ s[n + i] = s[n + j]
    BY <1>1, <1>2, <1>4
  <2>2. n + i = n + j
    BY <2>1 DEF IsInjective
  <2> QED BY <2>2, <1>2
<1>8. Range(a) \subseteq Range(s)
  BY <1>1, <1>2, <1>3, <1>5 DEF Range
<1>9. Range(b) = Range(s) \ Range(a)
  <2>1. ASSUME NEW x \in Range(b) PROVE x \in Range(s) /\ x \notin Range(a)
    <3>1. PICK i \in 1 .. Len(s) - n : x = b[i]
      BY <1>5 DEF Range
    <3>2. n + i \in DOMAIN s /\ x = s[n + i]
      BY <3>1, <1>1, <1>2, <1>4
    <3>3. ASSUME NEW j \in 1 .. n, x = a[j] PROVE FALSE
      <4>1. j \in DOMAIN s /\ s[j] = s[n + i]
        BY <3>2, <3>3, <1>1, <1>2, <1>3
      <4>2. j = n + i
        BY <4>1, <3>2 DEF IsInjective
      <4> QED BY <4>2, <1>2
    <3> QED BY <3>2, <3>3, <1>5 DEF Range
  <2>2. ASSUME NEW x \in Range(s), x \notin Range(a) PROVE x \in Range(b)
    <3>1. PICK i \in 1 .. Len(s) : x = s[i]
      BY <1>1 DEF Range
    <3>2. i > n
      BY <3>1, <2>2, <1>2, <1>3, <1>5 DEF Range
    <3>3. i - n \in 1 .. Len(s) - n /\ n + (i - n) = i
      BY <3>2, <1>1, <1>2
    <3>4. b[i - n] = x
      BY <3>1, <3>3, <1>4
    <3> QED BY <3>3, <3>4, <1>5 DEF Range
  <2> QED BY <2>1, <2>2
<1> QED BY <1>3, <1>4, <1>6, <1>7, <1>8, <1>9 DEF a, b

\* Concatenation keeps the order within both parts, and the first part comes
\* before the second (append_n puts blocks behind those in the queue).
LEMMA ConcatOrder ==
  ASSUME NEW T, NEW s \in Seq(T), NEW t \in Seq(T), NEW x, NEW y
  PROVE  /\ Before(s, x, y) => Before(s \o t, x, y)
         /\ Before(t, x, y) => Before(s \o t, x, y)
         /\ x \in Range(s) /\ y \in Range(t) => Before(s \o t, x, y)
<1>1. /\ s \o t \in Seq(T) /\ Len(s \o t) = Len(s) + Len(t)
      /\ \A i \in 1 .. Len(s) + Len(t) :
           (s \o t)[i] = IF i <= Len(s) THEN s[i] ELSE t[i - Len(s)]
  BY ConcatProperties
<1>2. /\ Len(s) \in Nat /\ DOMAIN s = 1 .. Len(s)
      /\ Len(t) \in Nat /\ DOMAIN t = 1 .. Len(t)
      /\ DOMAIN (s \o t) = 1 .. Len(s) + Len(t)
  BY <1>1, LenProperties
<1> DEFINE st == s \o t
           l  == Len(s)
<1>3. \A i \in DOMAIN s : i \in DOMAIN st /\ st[i] = s[i] /\ i <= l /\ i \in Nat
  BY <1>1, <1>2
<1>4. \A i \in DOMAIN t : l + i \in DOMAIN st /\ st[l + i] = t[i] /\ l < l + i /\ i \in Nat
  <2> TAKE i \in DOMAIN t
  <2>1. l + i \in 1 .. Len(s) + Len(t) /\ ~(l + i <= Len(s)) /\ (l + i) - Len(s) = i
    BY <1>2
  <2> QED BY <2>1, <1>1, <1>2
<1> HIDE DEF st, l
<1>5. l \in Nat
  BY <1>2 DEF l
<1>6. ASSUME Before(s, x, y) PROVE Before(st, x, y)
  BY <1>6, <1>3 DEF Before
<1>7. ASSUME Before(t, x, y) PROVE Before(st, x, y)
  <2>1. PICK j \in DOMAIN t, k \in DOMAIN t : j < k /\ t[j] = x /\ t[k] = y
    BY <1>7 DEF Before
  <2>2. l + j < l + k
    BY <2>1, <1>4, <1>5
  <2> QED BY <2>1, <2>2, <1>4 DEF Before
<1>8. ASSUME x \in Range(s), y \in Range(t) PROVE Before(st, x, y)
  <2>1. PICK j \in DOMAIN s, k \in DOMAIN t : s[j] = x /\ t[k] = y
    BY <1>8 DEF Range
  <2>2. j < l + k
    BY <2>1, <1>3, <1>4, <1>5
  <2> QED BY <2>1, <2>2, <1>3, <1>4 DEF Before
<1> QED BY <1>6, <1>7, <1>8 DEF st

\* In a reversed list the later element comes first.
LEMMA ReversedOrder ==
  ASSUME NEW T, NEW s \in Seq(T), NEW j \in 1 .. Len(s), NEW k \in 1 .. Len(s), j < k
  PROVE  Before(Reversed(s), s[k], s[j])
<1> DEFINE l == Len(s)
           u == Reversed(s)
<1>1. l \in Nat
  BY LenProperties
<1>2. DOMAIN u = 1 .. l /\ \A i \in 1 .. l : u[i] = s[l + 1 - i]
  BY DEF Reversed
<1> HIDE DEF l, u
<1>3. j \in 1 .. l /\ k \in 1 .. l
  BY DEF l
<1>4. /\ l + 1 - k \in 1 .. l /\ l + 1 - j \in 1 .. l /\ l + 1 - k < l + 1 - j
      /\ l + 1 - (l + 1 - k) = k /\ l + 1 - (l + 1 - j) = j
  BY <1>1, <1>3
<1>5. u[l + 1 - k] = s[k] /\ u[l + 1 - j] = s[j]
  BY <1>2, <1>4
<1> QED BY <1>2, <1>4, <1>5 DEF Before, u

\* When the first n elements are taken from a queue, what comes behind an
\* element that stays stays too, and the order of the rest is kept.
LEMMA TailOrder ==
  ASSUME NEW T, NEW s \in Seq(T), IsInjective(s), NEW n \in 0 .. Len(s),
         NEW x, NEW y, Before(s, x, y), x \notin Range(SubSeq(s, 1, n))
  PROVE  y \notin Range(SubSeq(s, 1, n)) /\ Before(SubSeq(s, n + 1, Len(s)), x, y)
<1> DEFINE a == SubSeq(s, 1, n)
           b == SubSeq(s, n + 1, Len(s))
           l == Len(s)
<1>1. l \in Nat /\ DOMAIN s = 1 .. l /\ (\A i \in 1 .. l : s[i] \in T) /\ n \in 0 .. l
  BY LenProperties, ElementOfSeq
<1>2. Len(a) = n /\ DOMAIN a = 1 .. n /\ \A i \in 1 .. n : a[i] = s[i]
  <2>1. \A i \in 1 .. n : i \in 1 .. l
    BY <1>1
  <2>2. /\ a \in Seq(T)
        /\ Len(a) = IF 1 <= n THEN n - 1 + 1 ELSE 0
        /\ \A i \in 1 .. n - 1 + 1 : a[i] = s[1 + i - 1]
    BY <2>1, <1>1, SubSeqProperties
  <2>3. Len(a) = n
    BY <2>2, <1>1
  <2>4. \A i \in 1 .. n : i \in 1 .. n - 1 + 1 /\ 1 + i - 1 = i
    BY <1>1
  <2> QED BY <2>2, <2>3, <2>4, LenProperties
<1>3. DOMAIN b = 1 .. (l - n) /\ \A i \in 1 .. (l - n) : b[i] = s[n + i]
  <2>1. \A i \in (n + 1) .. l : i \in 1 .. l
    BY <1>1
  <2>2. /\ b \in Seq(T)
        /\ Len(b) = IF n + 1 <= l THEN l - (n + 1) + 1 ELSE 0
        /\ \A i \in 1 .. l - (n + 1) + 1 : b[i] = s[(n + 1) + i - 1]
    BY <2>1, <1>1, SubSeqProperties
  <2>3. Len(b) = l - n
    <3>1. (IF n + 1 <= l THEN l - (n + 1) + 1 ELSE 0) = l - n
      <4> HIDE DEF l
      <4> QED BY <1>1
    <3> QED BY <2>2, <3>1
  <2>4. \A i \in 1 .. (l - n) : i \in 1 .. l - (n + 1) + 1 /\ (n + 1) + i - 1 = n + i
    BY <1>1
  <2> QED BY <2>2, <2>3, <2>4, LenProperties
<1> HIDE DEF a, b, l
<1>4. PICK j \in 1 .. l, k \in 1 .. l : j < k /\ s[j] = x /\ s[k] = y
  BY <1>1 DEF Before
<1>5. j > n
  <2> SUFFICES ASSUME j \in 1 .. n PROVE FALSE
    BY <1>1
  <2>1. a[j] = x
    BY <1>2, <1>4
  <2> QED BY <2>1, <1>2 DEF Range, a
<1>6. y \notin Range(a)
  <2> SUFFICES ASSUME NEW i \in 1 .. n, a[i] = y PROVE FALSE
    BY <1>2 DEF Range
  <2>1. s[i] = s[k] /\ i \in 1 .. l /\ i # k
    BY <1>1, <1>2, <1>4, <1>5
  <2> QED BY <2>1, <1>1, <1>4 DEF IsInjective
<1>7. /\ j - n \in 1 .. (l - n) /\ k - n \in 1 .. (l - n) /\ j - n < k - n
      /\ n + (j - n) = j /\ n + (k - n) = k
  BY <1>1, <1>4, <1>5
<1>8. b[j - n] = x /\ b[k - n] = y
  BY <1>3, <1>4, <1>7
<1> QED BY <1>3, <1>6, <1>7, <1>8 DEF Before, a, b, l

-----------------------------------------------------------------------------
(* Pool methods                                                            *)

\* The pool __init__ builds is consistent.
LEMMA InitPoolProperties ==
  InitPool \in PoolType /\ FreeExact(InitPool) /\ MapExact(InitPool)
<1>1. NumGpuBlocks - 1 \in Nat /\ \A i \in 1 .. NumGpuBlocks - 1 : i \in Blocks
  BY PoolAssumption DEF Blocks
<1>2. InitPool.free \in Seq(Blocks)
  BY <1>1, IsASeq DEF InitPool
<1>3. InitPool \in PoolType
  BY <1>2, EmptySeq DEF InitPool, PoolType
<1>4. FreeExact(InitPool)
  BY PoolAssumption DEF FreeExact, InitPool, IsInjective, Range, Blocks, NullBlock
<1>5. MapExact(InitPool)
  <2>1. \A h \in Hashes : InitPool.cached[h] = << >>
    BY DEF InitPool
  <2>2. \A h \in Hashes, b \in Blocks : InitPool.hash[b] # h
    BY PoolAssumption DEF InitPool
  <2> QED BY <2>1, <2>2 DEF MapExact, IsInjective, Range
<1> QED BY <1>3, <1>4, <1>5

\* touch: references go up, eviction candidates leave the queue, and the queue
\* still is exactly the unreferenced blocks.
LEMMA TouchProperties ==
  ASSUME NEW p \in PoolType, FreeExact(p), MapExact(p), NEW bs \in Seq(Blocks)
  PROVE  LET q == Touch(p, bs)
         IN  /\ q \in PoolType /\ FreeExact(q) /\ MapExact(q)
             /\ q.hash = p.hash
             /\ \A b \in Blocks :
                  q.ref[b] = IF b \in Range(bs) THEN p.ref[b] + 1 ELSE p.ref[b]
<1> DEFINE unfree == {b \in Range(bs) : p.ref[b] = 0 /\ b # NullBlock}
           q == Touch(p, bs)
<1>1. /\ q.hash = p.hash /\ q.cached = p.cached
      /\ q.free = Keep(p.free, Blocks \ unfree)
      /\ q.ref = [b \in Blocks |-> IF b \in Range(bs) THEN p.ref[b] + 1 ELSE p.ref[b]]
      /\ q = [ref |-> q.ref, hash |-> q.hash, cached |-> q.cached, free |-> q.free]
  BY DEF Touch
<1>2. /\ p.ref \in [Blocks -> Nat] /\ p.free \in Seq(Blocks)
      /\ p.hash \in [Blocks -> Hashes \cup {NoHash}]
      /\ p.cached \in [Hashes -> Seq(Blocks)]
  BY DEF PoolType
<1>3. /\ q.free \in Seq(Blocks)
      /\ Range(q.free) = Range(p.free) \cap (Blocks \ unfree)
      /\ IsInjective(q.free)
  <2> HIDE DEF unfree, q
  <2> QED BY <1>1, <1>2, KeepProperties DEF FreeExact
<1>4. Range(bs) \subseteq Blocks
  BY RangeOfSeq
<1> HIDE DEF q
<1>5. q \in PoolType
  <2>1. q.ref \in [Blocks -> Nat]
    BY <1>1, <1>2
  <2> QED BY <1>1, <1>2, <1>3, <2>1 DEF PoolType
<1>6. FreeExact(q)
  <2>1. \A b \in Blocks : b \in Range(q.free) <=> b # NullBlock /\ q.ref[b] = 0
    BY <1>1, <1>2, <1>3, <1>4 DEF FreeExact
  <2>2. Range(q.free) \subseteq Blocks
    BY <1>3
  <2> QED BY <1>3, <2>1, <2>2 DEF FreeExact
<1>7. MapExact(q)
  BY <1>1 DEF MapExact
<1> QED BY <1>1, <1>5, <1>6, <1>7 DEF q

\* _maybe_evict_cached_block leaves the evicted blocks without hash, the others
\* untouched, and hash and map in agreement.
LEMMA EvictProperties ==
  ASSUME NEW p \in PoolType, MapExact(p), NEW S \in SUBSET Blocks
  PROVE  LET q == EvictCachedBlocks(p, S)
         IN  /\ q \in PoolType /\ MapExact(q)
             /\ q.ref = p.ref /\ q.free = p.free
             /\ \A b \in Blocks : q.hash[b] = IF b \in S THEN NoHash ELSE p.hash[b]
<1> DEFINE gone == {b \in S : p.hash[b] \in Hashes /\ b \in Range(p.cached[p.hash[b]])}
           stay(h) == {b \in Blocks : ~(b \in gone /\ p.hash[b] = h)}
           q == EvictCachedBlocks(p, S)
<1>1. /\ q.ref = p.ref /\ q.free = p.free
      /\ q.hash = [b \in Blocks |-> IF b \in gone THEN NoHash ELSE p.hash[b]]
      /\ q.cached = [h \in Hashes |-> Keep(p.cached[h], stay(h))]
      /\ q = [ref |-> q.ref, hash |-> q.hash, cached |-> q.cached, free |-> q.free]
  BY DEF EvictCachedBlocks
<1>2. /\ p.ref \in [Blocks -> Nat] /\ p.free \in Seq(Blocks)
      /\ p.hash \in [Blocks -> Hashes \cup {NoHash}]
      /\ p.cached \in [Hashes -> Seq(Blocks)]
  BY DEF PoolType
<1>3. \A b \in S : b \in gone <=> p.hash[b] # NoHash
  BY <1>2, PoolAssumption DEF MapExact
<1>4. \A b \in Blocks : q.hash[b] = IF b \in S THEN NoHash ELSE p.hash[b]
  BY <1>1, <1>3
<1>5. ASSUME NEW h \in Hashes
      PROVE  /\ q.cached[h] \in Seq(Blocks)
             /\ IsInjective(q.cached[h])
             /\ Range(q.cached[h]) = Range(p.cached[h]) \cap stay(h)
  <2>1. q.cached[h] = Keep(p.cached[h], stay(h)) /\ p.cached[h] \in Seq(Blocks)
    BY <1>1, <1>2
  <2>2. IsInjective(p.cached[h])
    BY DEF MapExact
  <2> HIDE DEF stay, gone, q
  <2> QED BY <2>1, <2>2, KeepProperties
<1> HIDE DEF q
<1>6. q \in PoolType
  <2>1. q.hash \in [Blocks -> Hashes \cup {NoHash}]
    BY <1>1, <1>2
  <2>2. q.cached \in [Hashes -> Seq(Blocks)]
    BY <1>1, <1>5
  <2> QED BY <1>1, <1>2, <2>1, <2>2 DEF PoolType
<1>7. MapExact(q)
  <2> SUFFICES ASSUME NEW h \in Hashes
               PROVE  Range(q.cached[h]) = {b \in Blocks : q.hash[b] = h}
    BY <1>5 DEF MapExact
  <2>1. Range(p.cached[h]) = {b \in Blocks : p.hash[b] = h}
    BY DEF MapExact
  <2>2. h # NoHash
    BY PoolAssumption
  <2>3. Range(q.cached[h]) = Range(p.cached[h]) \cap stay(h)
    BY <1>5
  <2>4. ASSUME NEW b \in Blocks PROVE b \in Range(q.cached[h]) <=> q.hash[b] = h
    BY <1>1, <2>1, <2>2, <2>3
  <2> QED BY <2>1, <2>3, <2>4
<1> QED BY <1>1, <1>4, <1>6, <1>7 DEF q

\* get_new_blocks: n unreferenced blocks, none of them the null block, come out
\* without hash and with one reference; hash and map stay in agreement.
LEMMA GetNewBlocksProperties ==
  ASSUME NEW p \in PoolType, FreeExact(p), MapExact(p), NEW n \in 0 .. Len(p.free)
  PROVE  LET q   == GetNewBlocks(p, n)
             new == NewBlocks(p, n)
         IN  /\ q \in PoolType /\ FreeExact(q) /\ MapExact(q)
             /\ new \in Seq(Blocks) /\ IsInjective(new) /\ Len(new) = n
             /\ \A b \in Range(new) : b \in Blocks /\ b # NullBlock /\ p.ref[b] = 0
             /\ \A b \in Blocks : q.ref[b] = IF b \in Range(new) THEN 1 ELSE p.ref[b]
             /\ \A b \in Blocks : q.hash[b] = IF b \in Range(new) THEN NoHash ELSE p.hash[b]
<1> DEFINE q    == GetNewBlocks(p, n)
           new  == NewBlocks(p, n)
           rest == SubSeq(p.free, n + 1, Len(p.free))
           e    == EvictCachedBlocks(p, Range(new))
<1>1. /\ p.ref \in [Blocks -> Nat] /\ p.free \in Seq(Blocks)
  BY DEF PoolType
<1>2. /\ new \in Seq(Blocks) /\ IsInjective(new) /\ Len(new) = n
      /\ rest \in Seq(Blocks) /\ IsInjective(rest)
      /\ Range(new) \subseteq Range(p.free)
      /\ Range(rest) = Range(p.free) \ Range(new)
  BY <1>1, SplitProperties DEF FreeExact, NewBlocks
<1>3. \A b \in Range(new) : b \in Blocks /\ b # NullBlock /\ p.ref[b] = 0
  BY <1>2 DEF FreeExact
<1>4. /\ e \in PoolType /\ MapExact(e)
      /\ \A b \in Blocks : e.hash[b] = IF b \in Range(new) THEN NoHash ELSE p.hash[b]
  <2>1. Range(new) \in SUBSET Blocks
    BY <1>3
  <2> QED BY <2>1, EvictProperties
<1>5. /\ q.ref = [b \in Blocks |-> IF b \in Range(new) THEN p.ref[b] + 1 ELSE p.ref[b]]
      /\ q.hash = e.hash /\ q.cached = e.cached /\ q.free = rest
      /\ q = [ref |-> q.ref, hash |-> q.hash, cached |-> q.cached, free |-> q.free]
  BY DEF GetNewBlocks
<1> HIDE DEF q, e, new, rest
<1>6. \A b \in Blocks : q.ref[b] = IF b \in Range(new) THEN 1 ELSE p.ref[b]
  BY <1>3, <1>5
<1>7. q \in PoolType
  <2>1. q.ref \in [Blocks -> Nat]
    BY <1>1, <1>5
  <2>2. /\ q.hash \in [Blocks -> Hashes \cup {NoHash}]
        /\ q.cached \in [Hashes -> Seq(Blocks)]
    BY <1>4, <1>5 DEF PoolType
  <2> QED BY <1>2, <1>5, <2>1, <2>2 DEF PoolType
<1>8. FreeExact(q)
  <2>1. \A b \in Blocks : b \in Range(q.free) <=> b # NullBlock /\ q.ref[b] = 0
    BY <1>2, <1>5, <1>6 DEF FreeExact
  <2>2. Range(q.free) \subseteq Blocks
    BY <1>2, <1>5 DEF FreeExact
  <2> QED BY <1>2, <1>5, <2>1, <2>2 DEF FreeExact
<1>9. MapExact(q)
  BY <1>4, <1>5 DEF MapExact
<1> QED BY <1>2, <1>3, <1>4, <1>5, <1>6, <1>7, <1>8, <1>9 DEF q, new

\* free_blocks: blocks that lose their last reference enter the queue, and no
\* block enters it twice.
LEMMA FreeBlocksProperties ==
  ASSUME NEW p \in PoolType, FreeExact(p), MapExact(p),
         NEW bs \in Seq(Blocks), IsInjective(bs),
         \A b \in Range(bs) : b # NullBlock /\ p.ref[b] > 0
  PROVE  LET q == FreeBlocks(p, bs)
         IN  /\ q \in PoolType /\ FreeExact(q) /\ MapExact(q)
             /\ q.hash = p.hash
             /\ \A b \in Blocks :
                  q.ref[b] = IF b \in Range(bs) THEN p.ref[b] - 1 ELSE p.ref[b]
<1> DEFINE q    == FreeBlocks(p, bs)
           ref  == [b \in Blocks |-> IF b \in Range(bs) THEN p.ref[b] - 1 ELSE p.ref[b]]
           last == {b \in Blocks : ref[b] = 0 /\ b # NullBlock}
           back == Keep(bs, last)
<1>1. /\ p.ref \in [Blocks -> Nat] /\ p.free \in Seq(Blocks)
      /\ p.hash \in [Blocks -> Hashes \cup {NoHash}]
      /\ p.cached \in [Hashes -> Seq(Blocks)]
  BY DEF PoolType
<1>2. /\ q.ref = ref /\ q.hash = p.hash /\ q.cached = p.cached
      /\ q.free = p.free \o back
      /\ q = [ref |-> q.ref, hash |-> q.hash, cached |-> q.cached, free |-> q.free]
  BY DEF FreeBlocks
<1>3. Range(bs) \subseteq Blocks
  BY RangeOfSeq
<1>4. back \in Seq(Blocks) /\ Range(back) = Range(bs) \cap last /\ IsInjective(back)
  <2> HIDE DEF last
  <2> QED BY KeepProperties
<1>5. Range(p.free) \cap Range(back) = {}
  <2>1. ASSUME NEW b \in Range(p.free), b \in Range(bs) PROVE FALSE
    <3>1. p.ref[b] = 0 /\ p.ref[b] > 0
      BY <2>1 DEF FreeExact
    <3> QED BY <3>1
  <2> QED BY <2>1, <1>4
<1>6. /\ q.free \in Seq(Blocks) /\ IsInjective(q.free)
      /\ Range(q.free) = Range(p.free) \cup (Range(bs) \cap last)
  <2> HIDE DEF back, last, ref, q
  <2> QED BY <1>1, <1>2, <1>4, <1>5, ConcatRange DEF FreeExact
<1>7. ref \in [Blocks -> Nat]
  BY <1>1, <1>3
<1>8. q \in PoolType
  <2> HIDE DEF ref, q
  <2> QED BY <1>1, <1>2, <1>6, <1>7 DEF PoolType
<1>9. FreeExact(q)
  <2>1. ASSUME NEW b \in Blocks
        PROVE  b \in Range(q.free) <=> b # NullBlock /\ ref[b] = 0
    <3>1. b \in Range(p.free) <=> b # NullBlock /\ p.ref[b] = 0
      BY DEF FreeExact
    <3>2. CASE b \in Range(bs)
      BY <3>1, <3>2, <1>6
    <3>3. CASE b \notin Range(bs)
      BY <3>1, <3>3, <1>6
    <3> QED BY <3>2, <3>3
  <2>2. Range(q.free) \subseteq Blocks
    BY <1>6, <1>3 DEF FreeExact
  <2> HIDE DEF ref, q
  <2> QED BY <1>2, <1>6, <2>1, <2>2 DEF FreeExact
<1>10. MapExact(q)
  <2> HIDE DEF ref, q
  <2> QED BY <1>2 DEF MapExact
<1> QED BY <1>2, <1>8, <1>9, <1>10

\* cache_full_blocks: under the precondition its assertion states, that the new
\* full blocks have no hash yet, hash and map stay in agreement.
LEMMA CacheFullBlocksProperties ==
  ASSUME NEW p \in PoolType, FreeExact(p), MapExact(p),
         NEW bs \in Seq(Blocks), NEW hs \in Seq(Hashes), Len(hs) = Len(bs),
         IsInjective(bs), IsInjective(hs),
         \A b \in Range(bs) : p.hash[b] = NoHash
  PROVE  LET q == CacheFullBlocks(p, bs, hs)
         IN  /\ q \in PoolType /\ FreeExact(q) /\ MapExact(q)
             /\ q.ref = p.ref
             /\ \A i \in 1 .. Len(bs) : q.hash[bs[i]] = hs[i]
             /\ \A b \in Blocks : b \notin Range(bs) => q.hash[b] = p.hash[b]
<1> DEFINE q == CacheFullBlocks(p, bs, hs)
<1>1. /\ p.ref \in [Blocks -> Nat] /\ p.free \in Seq(Blocks)
      /\ p.hash \in [Blocks -> Hashes \cup {NoHash}]
      /\ p.cached \in [Hashes -> Seq(Blocks)]
  BY DEF PoolType
<1>2. /\ Len(bs) \in Nat /\ DOMAIN bs = 1 .. Len(bs) /\ DOMAIN hs = 1 .. Len(bs)
      /\ \A i \in 1 .. Len(bs) : bs[i] \in Blocks /\ hs[i] \in Hashes
  BY LenProperties, ElementOfSeq
<1>3. /\ q.ref = p.ref /\ q.free = p.free
      /\ q.hash = [b \in Blocks |-> IF b \in Range(bs)
                                       THEN hs[CHOOSE i \in DOMAIN bs : bs[i] = b]
                                       ELSE p.hash[b]]
      /\ q.cached = [h \in Hashes |-> IF h \in Range(hs)
                                         THEN Append(p.cached[h],
                                                bs[CHOOSE i \in DOMAIN hs : hs[i] = h])
                                         ELSE p.cached[h]]
      /\ q = [ref |-> q.ref, hash |-> q.hash, cached |-> q.cached, free |-> q.free]
  BY DEF CacheFullBlocks
<1> HIDE DEF q
<1>4. \A i \in 1 .. Len(bs) : q.hash[bs[i]] = hs[i]
  <2> TAKE i \in 1 .. Len(bs)
  <2>1. (CHOOSE j \in DOMAIN bs : bs[j] = bs[i]) = i
    BY <1>2 DEF IsInjective
  <2>2. bs[i] \in Range(bs) /\ bs[i] \in Blocks
    BY <1>2 DEF Range
  <2> QED BY <2>1, <2>2, <1>3
<1>5. \A b \in Blocks : b \notin Range(bs) => q.hash[b] = p.hash[b]
  BY <1>3
<1>6. \A i \in 1 .. Len(bs) : q.cached[hs[i]] = Append(p.cached[hs[i]], bs[i])
  <2> TAKE i \in 1 .. Len(bs)
  <2>1. (CHOOSE j \in DOMAIN hs : hs[j] = hs[i]) = i
    BY <1>2 DEF IsInjective
  <2>2. hs[i] \in Range(hs) /\ hs[i] \in Hashes
    BY <1>2 DEF Range
  <2> QED BY <2>1, <2>2, <1>3
<1>7. \A h \in Hashes : h \notin Range(hs) => q.cached[h] = p.cached[h]
  BY <1>3
<1>8. ASSUME NEW h \in Hashes
      PROVE  /\ q.cached[h] \in Seq(Blocks)
             /\ IsInjective(q.cached[h])
             /\ Range(q.cached[h]) = {b \in Blocks : q.hash[b] = h}
  <2>1. /\ p.cached[h] \in Seq(Blocks) /\ IsInjective(p.cached[h])
        /\ Range(p.cached[h]) = {b \in Blocks : p.hash[b] = h}
    BY <1>1 DEF MapExact
  <2>2. h # NoHash
    BY PoolAssumption
  <2>3. CASE h \notin Range(hs)
    <3>1. \A i \in 1 .. Len(bs) : hs[i] # h
      BY <1>2, <2>3 DEF Range
    <3>2. \A b \in Range(bs) : q.hash[b] # h /\ p.hash[b] # h
      BY <3>1, <1>2, <1>4, <2>2 DEF Range
    <3>3. \A b \in Blocks : q.hash[b] = h <=> p.hash[b] = h
      BY <3>2, <1>5
    <3> QED BY <2>1, <2>3, <3>3, <1>7
  <2>4. CASE h \in Range(hs)
    <3>1. PICK i \in 1 .. Len(bs) : h = hs[i]
      BY <2>4, <1>2 DEF Range
    <3>2. bs[i] \in Blocks /\ bs[i] \in Range(bs) /\ p.hash[bs[i]] = NoHash
      BY <1>2 DEF Range
    <3>3. << bs[i] >> \in Seq(Blocks) /\ IsInjective(<< bs[i] >>)
          /\ Range(<< bs[i] >>) = {bs[i]}
      BY <3>2 DEF IsInjective, Range
    <3>4. q.cached[h] = p.cached[h] \o << bs[i] >>
      BY <3>1, <1>6, <2>1, <3>2, AppendIsConcat
    <3>5. bs[i] \notin Range(p.cached[h])
      BY <2>1, <2>2, <3>2
    <3>6. /\ q.cached[h] \in Seq(Blocks) /\ IsInjective(q.cached[h])
          /\ Range(q.cached[h]) = Range(p.cached[h]) \cup {bs[i]}
      <4>1. Range(p.cached[h]) \cap Range(<< bs[i] >>) = {}
        BY <3>3, <3>5
      <4> DEFINE old == p.cached[h]
                 one == << bs[i] >>
      <4>2. /\ old \in Seq(Blocks) /\ IsInjective(old)
            /\ one \in Seq(Blocks) /\ IsInjective(one) /\ Range(one) = {bs[i]}
            /\ Range(old) \cap Range(one) = {} /\ q.cached[h] = old \o one
        BY <2>1, <3>3, <3>4, <4>1
      <4> HIDE DEF old, one
      <4>3. old \o one \in Seq(Blocks) /\ IsInjective(old \o one)
            /\ Range(old \o one) = Range(old) \cup Range(one)
        BY <4>2, ConcatRange
      <4> QED BY <4>2, <4>3 DEF old
    <3>7. \A j \in 1 .. Len(bs) : hs[j] = h => j = i
      BY <3>1, <1>2 DEF IsInjective
    <3>8. ASSUME NEW b \in Blocks
          PROVE  q.hash[b] = h <=> p.hash[b] = h \/ b = bs[i]
      <4>1. CASE b \in Range(bs)
        <5>1. PICK j \in 1 .. Len(bs) : b = bs[j]
          BY <4>1, <1>2 DEF Range
        <5>2. q.hash[b] = hs[j] /\ p.hash[b] = NoHash
          BY <5>1, <1>4, <4>1
        <5>3. hs[j] = h <=> j = i
          BY <3>1, <3>7
        <5>4. j = i <=> b = bs[i]
          BY <5>1, <1>2 DEF IsInjective
        <5> QED BY <5>2, <5>3, <5>4, <2>2
      <4>2. CASE b \notin Range(bs)
        BY <4>2, <1>5, <3>2
      <4> QED BY <4>1, <4>2
    <3> QED BY <3>6, <3>8, <2>1, <3>2
  <2> QED BY <2>3, <2>4
<1>9. q \in PoolType
  <2>1. q.cached \in [Hashes -> Seq(Blocks)]
    BY <1>3, <1>8
  <2>2. ASSUME NEW b \in Blocks PROVE q.hash[b] \in Hashes \cup {NoHash}
    <3>1. CASE b \in Range(bs)
      <4>1. PICK i \in 1 .. Len(bs) : b = bs[i]
        BY <3>1, <1>2 DEF Range
      <4> QED BY <4>1, <1>2, <1>4
    <3>2. CASE b \notin Range(bs)
      BY <3>2, <1>1, <1>5
    <3> QED BY <3>1, <3>2
  <2>3. q.hash \in [Blocks -> Hashes \cup {NoHash}]
    <3>1. DOMAIN q.hash = Blocks /\ q.hash = [b \in Blocks |-> q.hash[b]]
      BY <1>3
    <3> QED BY <2>2, <3>1
  <2> QED BY <1>1, <1>3, <2>1, <2>3 DEF PoolType
<1>10. FreeExact(q)
  BY <1>3 DEF FreeExact
<1>11. MapExact(q)
  BY <1>8 DEF MapExact
<1> QED BY <1>3, <1>4, <1>5, <1>9, <1>10, <1>11 DEF q

\* The test of reset_prefix_cache, which only counts free blocks, means that no
\* block but the null block is referenced.
LEMMA ResetProperties ==
  ASSUME NEW p \in PoolType, FreeExact(p), CanResetPrefixCache(p)
  PROVE  LET q == ResetPrefixCache(p)
         IN  /\ \A b \in Blocks : b # NullBlock => p.ref[b] = 0
             /\ q \in PoolType /\ FreeExact(q) /\ MapExact(q)
             /\ q.ref = p.ref
             /\ \A b \in Blocks : q.hash[b] = NoHash
<1> DEFINE q == ResetPrefixCache(p)
           m == NumGpuBlocks - 1
<1>1. p.free \in Seq(Blocks) /\ Len(p.free) = m /\ m \in Nat
  <2>1. p.free \in Seq(Blocks)
    BY DEF PoolType
  <2>2. Len(p.free) \in Nat /\ NumGpuBlocks - Len(p.free) = 1
    BY <2>1, LenProperties DEF CanResetPrefixCache, GetNumFreeBlocks
  <2> QED BY <2>1, <2>2, PoolAssumption
<1>2. Range(p.free) \subseteq 1 .. m
  BY PoolAssumption DEF FreeExact, Blocks, NullBlock
<1>3. p.free \in Injection(1 .. m, 1 .. m)
  <2>1. DOMAIN p.free = 1 .. m
    BY <1>1, LenProperties
  <2>2. \A i \in 1 .. m : p.free[i] \in 1 .. m
    BY <1>2, <2>1 DEF Range
  <2>3. p.free = [i \in 1 .. m |-> p.free[i]]
    BY <1>1, <2>1, LenProperties
  <2>4. p.free \in [1 .. m -> 1 .. m]
    BY <2>2, <2>3
  <2> QED BY <2>4 DEF Injection, FreeExact
<1>4. p.free \in Surjection(1 .. m, 1 .. m)
  <2>1. IsFiniteSet(1 .. m)
    BY <1>1, FS_Interval
  <2> QED BY <1>3, <2>1, FS_Injection
<1>5. \A b \in Blocks : b # NullBlock => p.ref[b] = 0
  <2> SUFFICES ASSUME NEW b \in Blocks, b # NullBlock PROVE p.ref[b] = 0
    OBVIOUS
  <2>1. b \in 1 .. m
    BY PoolAssumption DEF Blocks, NullBlock
  <2>2. b \in Range(p.free)
    BY <2>1, <1>4 DEF Surjection, Range
  <2> QED BY <2>2 DEF FreeExact
<1>6. /\ q.ref = p.ref /\ q.free = p.free
      /\ q.hash = [b \in Blocks |-> NoHash] /\ q.cached = [h \in Hashes |-> << >>]
      /\ q = [ref |-> q.ref, hash |-> q.hash, cached |-> q.cached, free |-> q.free]
  BY DEF ResetPrefixCache
<1> HIDE DEF q
<1>7. q \in PoolType
  <2>1. p.ref \in [Blocks -> Nat] /\ p.free \in Seq(Blocks)
    BY DEF PoolType
  <2>2. << >> \in Seq(Blocks)
    BY EmptySeq
  <2>3. /\ q.hash \in [Blocks -> Hashes \cup {NoHash}]
        /\ q.cached \in [Hashes -> Seq(Blocks)]
    BY <1>6, <2>2
  <2> QED BY <1>6, <2>1, <2>3 DEF PoolType
<1>8. FreeExact(q)
  BY <1>6 DEF FreeExact
<1>9. MapExact(q)
  <2>1. \A h \in Hashes : q.cached[h] = << >>
    BY <1>6
  <2>2. \A h \in Hashes, b \in Blocks : q.hash[b] # h
    BY <1>6, PoolAssumption
  <2> QED BY <2>1, <2>2 DEF MapExact, IsInjective, Range
<1> QED BY <1>5, <1>6, <1>7, <1>8, <1>9 DEF q

-----------------------------------------------------------------------------
(* The inductive invariant                                                 *)

\* num_cached_block.get(request_id, 0)
NumCached(r) == IF numCachedBlock[r] = Untracked THEN 0 ELSE numCachedBlock[r]

\* The null block belongs to no request and is never cached.
NullUnused ==
  /\ pool.hash[NullBlock] = NoHash
  /\ \A r \in Requests : NullBlock \notin Range(reqBlocks[r])

\* The blocks of a request beyond those it has cached have no hash.
HashedInOrder ==
  \A r \in Requests : \A i \in DOMAIN reqBlocks[r] :
    i > NumCached(r) => pool.hash[reqBlocks[r][i]] = NoHash

\* A block without hash belongs to at most one request.
UnhashedUnshared ==
  \A r, s \in Requests : \A b \in Range(reqBlocks[r]) \cap Range(reqBlocks[s]) :
    pool.hash[b] = NoHash => r = s

\* The part of the inductive invariant that is about the manager's own state.
BlocksInv ==
  /\ pool \in PoolType
  /\ reqBlocks \in [Requests -> Seq(Blocks)]
  /\ numCachedBlock \in [Requests -> Nat \cup {Untracked}]
  /\ FreeQueueExact
  /\ CacheMapExact
  /\ RefCountsOwners
  /\ NullUnused
  /\ HashedInOrder
  /\ UnhashedUnshared

\* What the client's protocol keeps: only running requests hold blocks, and a
\* request to be computed has not stopped.
ClientInv ==
  \A r \in Requests :
    /\ status[r] # "running" => /\ reqBlocks[r] = << >>
                                /\ numCachedBlock[r] = Untracked
                                /\ numScheduled[r] = 0
    /\ status[r] = "waiting" => numComputed[r] = 0
    /\ status[r] = "waiting" \/ numScheduled[r] > 0 => numTokens[r] < Len(Stream[r])

IInv == TypeOK /\ BlocksInv /\ ClientInv

-----------------------------------------------------------------------------
(* Arithmetic                                                              *)

\* Division by a positive number, characterised.
LEMMA DivBounds ==
  ASSUME NEW x \in Nat, NEW b \in Nat \ {0}
  PROVE  x \div b \in Nat /\ b * (x \div b) <= x /\ x < b * (x \div b) + b
OBVIOUS

\* Division by a positive number is monotonic.
LEMMA DivMonotonic ==
  ASSUME NEW x \in Nat, NEW y \in Nat, x <= y, NEW b \in Nat \ {0}
  PROVE  x \div b <= y \div b
<1> DEFINE p == x \div b
           q == y \div b
           bp == b * p
           bq == b * q
<1>1. p \in Nat /\ bp <= x /\ q \in Nat /\ y < bq + b
  BY DivBounds
<1>2. bp \in Int /\ bq \in Int
  BY <1>1
<1> HIDE DEF p, q
<1>3. q < p => bq + b <= bp
  BY <1>1
<1> HIDE DEF bp, bq
<1>4. ~(q < p)
  BY <1>1, <1>2, <1>3
<1> QED BY <1>1, <1>4 DEF p, q

\* The blocks required for x tokens are at least the ones x tokens fill.
LEMMA FullAtMostRequired ==
  ASSUME NEW x \in Nat, NEW b \in Nat \ {0}
  PROVE  x \div b <= cdiv(x, b) /\ cdiv(x, b) \in Nat
<1>1. x + b - 1 \in Nat /\ x <= x + b - 1
  OBVIOUS
<1>2. x \div b <= (x + b - 1) \div b
  BY <1>1, DivMonotonic
<1>3. (x + b - 1) \div b \in Nat
  BY <1>1, DivBounds
<1> QED BY <1>2, <1>3 DEF cdiv

\* The number of elements of a sequence without duplicates is its length.
LEMMA InjectiveLen ==
  ASSUME NEW T, NEW s \in Seq(T), IsInjective(s)
  PROVE  IsFiniteSet(Range(s)) /\ Cardinality(Range(s)) = Len(s)
<1>1. Len(s) \in Nat /\ DOMAIN s = 1 .. Len(s)
  BY LenProperties
<1>2. s \in [1 .. Len(s) -> Range(s)]
  <2>1. s \in [1 .. Len(s) -> T]
    BY <1>1, LenProperties
  <2> QED BY <2>1, <1>1 DEF Range
<1>3. s \in Bijection(1 .. Len(s), Range(s))
  BY <1>1, <1>2 DEF Bijection, Injection, Surjection, IsInjective, Range
<1>4. IsFiniteSet(1 .. Len(s)) /\ Cardinality(1 .. Len(s)) = Len(s)
  BY <1>1, FS_Interval, SMTT(30)
<1>5. ExistsBijection(1 .. Len(s), Range(s))
  BY <1>3 DEF ExistsBijection
<1> QED BY <1>4, <1>5, FS_Bijection

\* The chained hashes of the blocks of a request are hashes, and all different.
LEMMA HashProperties ==
  ASSUME NEW r \in Requests
  PROVE  LET m == Len(Stream[r]) \div BlockSize
         IN  /\ m \in Nat
             /\ \A i \in 1 .. m : Hash(r, i) \in Hashes
             /\ \A i, j \in 1 .. m : Hash(r, i) = Hash(r, j) => i = j
<1> DEFINE s == Stream[r]
           m == Len(s) \div BlockSize
<1>1. /\ BlockSize \in Nat \ {0} /\ Len(s) \in Nat /\ DOMAIN s = 1 .. Len(s)
      /\ \A i \in 1 .. m : Hash(r, i) \in Hashes
  <2>1. /\ BlockSize \in Nat \ {0} /\ MaxModelLen \in Nat
        /\ DOMAIN s = 1 .. Len(s) /\ Len(s) \in 1 .. MaxModelLen
        /\ \A i \in 1 .. m : Hash(r, i) \in Hashes
    BY ManagerAssumption, Zenon
  <2> HIDE DEF s, m
  <2>2. Len(s) \in Nat
    BY <2>1
  <2> QED BY <2>1, <2>2, Zenon
<1>2. m \in Nat /\ BlockSize * m <= Len(s)
  BY <1>1, DivBounds
<1> HIDE DEF s, m
<1>3. ASSUME NEW i \in 1 .. m PROVE Len(Hash(r, i)) = i * BlockSize
  <2>1. i \in Nat /\ i >= 1 /\ i <= m
    BY <1>2
  <2>2. i * BlockSize <= m * BlockSize
    BY <2>1, <1>1, <1>2
  <2>3. i * BlockSize \in Nat /\ i * BlockSize <= Len(s) /\ 1 <= i * BlockSize
    BY <2>1, <2>2, <1>1, <1>2
  <2>4. \A k \in 1 .. (i * BlockSize) : s[k] \in Range(s)
    BY <2>3, <1>1 DEF Range
  <2> DEFINE n == i * BlockSize
  <2> HIDE DEF n
  <2>5. Len(SubSeq(s, 1, n)) = n
    BY <2>3, <2>4, SubSeqProperties DEF n
  <2> QED BY <2>5 DEF Hash, n, s
<1>4. ASSUME NEW i \in 1 .. m, NEW j \in 1 .. m, Hash(r, i) = Hash(r, j) PROVE i = j
  <2>1. i * BlockSize = j * BlockSize
    BY <1>3, <1>4
  <2> QED BY <2>1, <1>1, <1>2
<1> QED BY <1>1, <1>2, <1>4 DEF m, s

-----------------------------------------------------------------------------
(* Prefix-cache hits                                                       *)

\* A set of natural numbers that is not empty has a least element.
LEMMA LeastElement ==
  ASSUME NEW S \in SUBSET Nat, S # {}
  PROVE  \E x \in S : \A y \in S : x <= y
<1> DEFINE R == OpToRel(<, Nat)
<1>1. IsWellFoundedOn(R, Nat)
  BY NatLessThanWellFounded
<1>2. \A x, y \in Nat : y < x => <<y, x>> \in R
  BY DEF OpToRel
<1> HIDE DEF R
<1>3. PICK x \in S : \A y \in S : ~(<<y, x>> \in R)
  BY <1>1, WFMin
<1>4. ASSUME NEW y \in S PROVE x <= y
  <2>1. x \in Nat /\ y \in Nat
    OBVIOUS
  <2>2. ~(y < x)
    BY <2>1, <1>2, <1>3, Zenon
  <2> QED BY <2>1, <2>2
<1> QED BY <1>4

\* find_longest_cache_hit returns a number of blocks that are all cached: the
\* scan stops at the first miss or at the maximum.
LEMMA LongestHitProperties ==
  ASSUME NEW p, NEW r, NEW L \in Nat, BlockSize \in Nat \ {0}
  PROVE  /\ LongestHit(p, r, L) \in 0 .. (L \div BlockSize)
         /\ \A i \in 1 .. LongestHit(p, r, L) : IsCached(p, Hash(r, i))
<1> DEFINE m == L \div BlockSize
           c(i) == IsCached(p, Hash(r, i))
           S == {k \in 0 .. m : k < m => ~c(k + 1)}
<1>1. m \in Nat
  BY DivBounds
<1> HIDE DEF m, c
<1>2. S \in SUBSET Nat /\ m \in S
  BY <1>1
<1>3. PICK k \in S : \A j \in S : k <= j
  BY <1>2, LeastElement, Zenon
<1>4. \A i \in 1 .. k : c(i)
  <2> SUFFICES ASSUME NEW i \in 1 .. k, ~c(i) PROVE FALSE
    OBVIOUS
  <2>1. i - 1 \in 0 .. m /\ i - 1 < k /\ (i - 1) + 1 = i
    BY <1>1, <1>2, <1>3
  <2>2. i - 1 \in S
    BY <2>1
  <2> QED BY <2>1, <2>2, <1>1, <1>2, <1>3
<1>5. \E j \in 0 .. m : (\A i \in 1 .. j : c(i)) /\ (j < m => ~c(j + 1))
  BY <1>3, <1>4
<1>6. \E j \in 0 .. (L \div BlockSize) :
          /\ \A i \in 1 .. j : IsCached(p, Hash(r, i))
          /\ j < L \div BlockSize => ~IsCached(p, Hash(r, j + 1))
  BY <1>5 DEF m, c
<1> QED BY <1>6 DEF LongestHit

\* The hits of a request are different blocks that have the hashes of its first
\* blocks, and end before its last token.
LEMMA HitProperties ==
  ASSUME NEW r \in Requests, pool \in PoolType, MapExact(pool),
         numTokens[r] \in 1 .. Len(Stream[r])
  PROVE  LET hits == GetComputedBlocks(r)
         IN  /\ hits \in Seq(Blocks)
             /\ IsInjective(hits)
             /\ \A i \in 1 .. Len(hits) : pool.hash[hits[i]] = Hash(r, i)
             /\ Len(hits) * BlockSize < numTokens[r]
<1> DEFINE n == LongestHit(pool, r, numTokens[r] - 1)
           m == Len(Stream[r]) \div BlockSize
           hits == GetComputedBlocks(r)
<1>1. BlockSize \in Nat \ {0} /\ Len(Stream[r]) \in Nat
  <2>1. BlockSize \in Nat \ {0} /\ MaxModelLen \in Nat /\ Len(Stream[r]) \in 1 .. MaxModelLen
    BY ManagerAssumption, Zenon
  <2> QED BY <2>1
<1>2. /\ numTokens[r] \in Nat /\ numTokens[r] - 1 \in Nat /\ numTokens[r] - 1 < Len(Stream[r])
  BY <1>1
<1>3. CASE ~EnableCaching
  <2>1. hits = << >>
    BY <1>3 DEF GetComputedBlocks
  <2>2. Len(hits) = 0 /\ hits \in Seq(Blocks) /\ IsInjective(hits)
    BY <2>1, EmptySeq DEF IsInjective
  <2> HIDE DEF hits
  <2> QED BY <2>2, <1>1, <1>2 DEF hits
<1>4. CASE EnableCaching
  <2>1. /\ n \in 0 .. ((numTokens[r] - 1) \div BlockSize)
        /\ \A i \in 1 .. n : IsCached(pool, Hash(r, i))
    BY <1>1, <1>2, LongestHitProperties
  <2>2. /\ (numTokens[r] - 1) \div BlockSize \in Nat
        /\ BlockSize * ((numTokens[r] - 1) \div BlockSize) <= numTokens[r] - 1
        /\ (numTokens[r] - 1) \div BlockSize <= m
    <3> DEFINE t == numTokens[r] - 1
               s == Len(Stream[r])
    <3>1. t \in Nat /\ s \in Nat /\ t <= s
      BY <1>1, <1>2
    <3> HIDE DEF t, s
    <3>2. t \div BlockSize \in Nat /\ BlockSize * (t \div BlockSize) <= t
      BY <3>1, <1>1, DivBounds
    <3>3. t \div BlockSize <= s \div BlockSize
      BY <3>1, <1>1, DivMonotonic
    <3> QED BY <3>2, <3>3 DEF t, s
  <2>3. /\ m \in Nat
        /\ \A i \in 1 .. m : Hash(r, i) \in Hashes
        /\ \A i, j \in 1 .. m : Hash(r, i) = Hash(r, j) => i = j
    BY HashProperties
  <2>4. hits = [i \in 1 .. n |-> GetCachedBlock(pool, Hash(r, i))]
    BY <1>4 DEF GetComputedBlocks
  <2> DEFINE d == (numTokens[r] - 1) \div BlockSize
  <2> HIDE DEF n, m, d
  <2>5. n \in Nat /\ n <= d /\ d \in Nat /\ d <= m
    BY <2>1, <2>2 DEF d
  <2>6. n * BlockSize < numTokens[r]
    <3>1. n * BlockSize <= d * BlockSize
      BY <2>5, <1>1
    <3>2. d * BlockSize <= numTokens[r] - 1
      BY <2>2, <1>1, <2>5 DEF d
    <3> QED BY <3>1, <3>2, <1>1, <1>2, <2>5
  <2>7. ASSUME NEW i \in 1 .. n
        PROVE  /\ GetCachedBlock(pool, Hash(r, i)) \in Blocks
               /\ pool.hash[GetCachedBlock(pool, Hash(r, i))] = Hash(r, i)
    <3> DEFINE h == Hash(r, i)
               b == pool.cached[h][1]
    <3>1. h \in Hashes
      BY <2>3, <2>5
    <3>2. pool.cached[h] \in Seq(Blocks) /\ pool.cached[h] # << >>
      BY <3>1, <2>1 DEF PoolType, IsCached
    <3> HIDE DEF h
    <3>3. 1 \in DOMAIN pool.cached[h]
      BY <3>2, EmptySeq, LenProperties
    <3>4. b \in Range(pool.cached[h])
      BY <3>3 DEF Range
    <3>5. b \in Blocks /\ pool.hash[b] = h
      BY <3>4, <3>1 DEF MapExact
    <3> QED BY <3>5 DEF GetCachedBlock, h
  <2>8. hits \in Seq(Blocks) /\ Len(hits) = n /\ DOMAIN hits = 1 .. n
    <3>1. hits \in Seq(Blocks)
      BY <2>4, <2>5, <2>7, IsASeq
    <3>2. DOMAIN hits = 1 .. n
      BY <2>4
    <3> HIDE DEF hits
    <3> QED BY <3>1, <3>2, <2>5, LenProperties
  <2>9. \A i \in 1 .. n : pool.hash[hits[i]] = Hash(r, i)
    BY <2>4, <2>7
  <2> HIDE DEF hits
  <2>10. IsInjective(hits)
    <3> SUFFICES ASSUME NEW i \in 1 .. n, NEW j \in 1 .. n, hits[i] = hits[j] PROVE i = j
      BY <2>8 DEF IsInjective
    <3>1. Hash(r, i) = Hash(r, j)
      BY <2>9
    <3>2. i \in 1 .. m /\ j \in 1 .. m
      BY <2>5, <2>3
    <3> QED BY <3>1, <3>2, <2>3
  <2> QED BY <2>6, <2>8, <2>9, <2>10 DEF hits
<1> QED BY <1>3, <1>4

-----------------------------------------------------------------------------
(* Allocation                                                              *)

\* Touching the hits takes the evictable ones, and only these, off the queue.
LEMMA TouchedPoolProperties ==
  ASSUME pool \in PoolType, FreeExact(pool), MapExact(pool), NEW hits \in Seq(Blocks)
  PROVE  LET t == TouchedPool(hits)
         IN  /\ t \in PoolType /\ FreeExact(t) /\ MapExact(t)
             /\ t.hash = pool.hash
             /\ \A b \in Blocks :
                  t.ref[b] = IF b \in Range(hits) THEN pool.ref[b] + 1 ELSE pool.ref[b]
             /\ NumEvictable(hits) \in Nat
             /\ hits = << >> => NumEvictable(hits) = 0
             /\ Len(t.free) = Len(pool.free) - NumEvictable(hits)
<1> DEFINE t == TouchedPool(hits)
           E == {b \in Range(hits) : pool.ref[b] = 0 /\ b # NullBlock}
<1>1. NumEvictable(hits) = Cardinality(E)
  BY DEF NumEvictable
<1>2. /\ pool.free \in Seq(Blocks) /\ Len(pool.free) \in Nat
      /\ pool.ref \in [Blocks -> Nat]
  BY LenProperties DEF PoolType
<1>3. CASE hits = << >>
  <2>1. Range(hits) = {} /\ t = pool
    BY <1>3 DEF Range, TouchedPool
  <2>2. E = {}
    BY <2>1
  <2>3. Cardinality(E) = 0
    BY <2>2, FS_EmptySet, Zenon
  <2> HIDE DEF t, E
  <2>4. /\ t \in PoolType /\ FreeExact(t) /\ MapExact(t) /\ t.hash = pool.hash
        /\ \A b \in Blocks : t.ref[b] = IF b \in Range(hits) THEN pool.ref[b] + 1 ELSE pool.ref[b]
    BY <2>1
  <2>5. NumEvictable(hits) \in Nat /\ Len(t.free) = Len(pool.free) - NumEvictable(hits)
    BY <2>1, <2>3, <1>1, <1>2
  <2> QED BY <2>4, <2>5, <2>3, <1>1 DEF t
<1>4. CASE hits # << >>
  <2>1. t = Touch(pool, hits)
    BY <1>4 DEF TouchedPool
  <2> HIDE DEF t
  <2>2. /\ t \in PoolType /\ FreeExact(t) /\ MapExact(t) /\ t.hash = pool.hash
        /\ \A b \in Blocks :
             t.ref[b] = IF b \in Range(hits) THEN pool.ref[b] + 1 ELSE pool.ref[b]
    BY <2>1, TouchProperties
  <2>3. t.free \in Seq(Blocks)
    BY <2>2 DEF PoolType
  <2>4. Range(t.free) = Range(pool.free) \ E /\ Range(pool.free) \cap E = E
    <3>1. Range(hits) \subseteq Blocks
      BY LenProperties, ElementOfSeq DEF Range
    <3> QED BY <3>1, <2>2, <1>2, SMTT(30) DEF FreeExact
  <2>5. /\ IsFiniteSet(Range(pool.free)) /\ Cardinality(Range(pool.free)) = Len(pool.free)
        /\ Cardinality(Range(t.free)) = Len(t.free)
    BY <2>2, <2>3, <1>2, InjectiveLen DEF FreeExact
  <2>6. Len(t.free) = Len(pool.free) - Cardinality(E)
    <3>1. Cardinality(Range(pool.free) \ E)
            = Cardinality(Range(pool.free)) - Cardinality(Range(pool.free) \cap E)
      BY <2>5, FS_Difference, Zenon
    <3> QED BY <3>1, <2>4, <2>5, ZenonT(30)
  <2>7. Cardinality(E) \in Nat
    <3>1. IsFiniteSet(E)
      BY <2>4, <2>5, FS_Intersection, Zenon
    <3> QED BY <3>1, FS_CardinalityType
  <2> HIDE DEF E
  <2> QED BY <2>2, <2>6, <2>7, <1>1, <1>4 DEF t
<1> QED BY <1>3, <1>4

\* The numbers of allocate_slots for a request that computes n of its tokens:
\* the capacity check leaves enough free blocks once the hits are touched, and
\* the blocks of the request then hold all the full blocks.
LEMMA AllocateNumbers ==
  ASSUME NEW r \in Requests, NEW hits \in Seq(Blocks), NEW n \in Nat \ {0},
         pool \in PoolType, FreeExact(pool), MapExact(pool),
         reqBlocks[r] \in Seq(Blocks),
         numCachedBlock[r] \in Nat \cup {Untracked},
         hits # << >> => reqBlocks[r] = << >> /\ numCachedBlock[r] = Untracked,
         numComputed[r] \in Nat, numTokens[r] \in Nat,
         numComputed[r] + Len(hits) * BlockSize + n <= numTokens[r],
         numTokens[r] <= Len(Stream[r]),
         CanAllocateSlots(r, n, hits)
  PROVE  LET new   == NumNewBlocks(r, n, hits)
             first == NumAlreadyCached(r, hits)
             last  == NumFullBlocks(r, n, hits)
         IN  /\ new \in 0 .. Len(TouchedPool(hits).free)
             /\ first \in Nat /\ last \in Nat
             /\ last <= Len(reqBlocks[r]) + Len(hits) + new
             /\ last <= Len(Stream[r]) \div BlockSize
<1> DEFINE x == numComputed[r] + Len(hits) * BlockSize + n
           h == Len(hits)
           o == Len(reqBlocks[r])
           free == Len(pool.free)
           evict == NumEvictable(hits)
           req == NumRequiredBlocks(r, n, hits)
           new == NumNewBlocks(r, n, hits)
           last == NumFullBlocks(r, n, hits)
<1>1. BlockSize \in Nat \ {0} /\ MaxModelLen \in Nat /\ Len(Stream[r]) \in 1 .. MaxModelLen
  BY ManagerAssumption, Zenon
<1>2. h \in Nat /\ o \in Nat /\ free \in Nat /\ h * BlockSize \in Nat
  <2>1. h \in Nat /\ o \in Nat /\ free \in Nat
    BY LenProperties DEF PoolType
  <2> QED BY <2>1, <1>1
<1>3. /\ x \in Nat /\ x <= Len(Stream[r]) /\ Len(Stream[r]) \in Nat
      /\ MinOf(numComputed[r] + h * BlockSize, MaxModelLen) + n = x
      /\ MinOf(x, MaxModelLen) = x /\ MinOf(x, numTokens[r]) = x
  <2> DEFINE hb == h * BlockSize
  <2> HIDE DEF h
  <2>1. hb \in Nat
    BY <1>2
  <2> HIDE DEF hb
  <2>2. numComputed[r] + hb + n <= numTokens[r]
    BY DEF hb, h
  <2>3. x = numComputed[r] + hb + n
    BY DEF hb, h
  <2> HIDE DEF x
  <2>4. /\ x \in Nat /\ x <= Len(Stream[r]) /\ Len(Stream[r]) \in Nat
        /\ x <= MaxModelLen /\ numComputed[r] + hb <= MaxModelLen /\ x <= numTokens[r]
    <3> DEFINE c == numComputed[r]
               t == numTokens[r]
               s == Len(Stream[r])
    <3>1. s \in Nat /\ s <= MaxModelLen
      BY <1>1
    <3>2. c \in Nat /\ t \in Nat /\ c + hb + n <= t /\ t <= s /\ x = c + hb + n
      BY <2>2, <2>3
    <3> HIDE DEF c, t, s
    <3>3. /\ x \in Nat /\ x <= s /\ x <= MaxModelLen /\ c + hb <= MaxModelLen /\ x <= t
      BY <3>1, <3>2, <2>1, <1>1
    <3> QED BY <3>1, <3>3 DEF c, t, s
  <2> QED BY <2>1, <2>3, <2>4 DEF MinOf, hb
<1>4. req = cdiv(x, BlockSize) /\ last = x \div BlockSize
  BY <1>3 DEF NumRequiredBlocks, NumFullBlocks
<1> HIDE DEF x
<1>5. req \in Nat /\ last \in Nat /\ last <= req /\ last <= Len(Stream[r]) \div BlockSize
  <2>1. x \in Nat /\ BlockSize \in Nat \ {0} /\ Len(Stream[r]) \in Nat /\ x <= Len(Stream[r])
    BY <1>1, <1>3
  <2>2. x \div BlockSize \in Nat
    BY <2>1, DivBounds, Zenon
  <2>3. x \div BlockSize <= cdiv(x, BlockSize) /\ cdiv(x, BlockSize) \in Nat
    BY <2>1, FullAtMostRequired, Zenon
  <2>4. x \div BlockSize <= Len(Stream[r]) \div BlockSize
    BY <2>1, DivMonotonic, Zenon
  <2> QED BY <2>2, <2>3, <2>4, <1>4, Zenon
<1>6. new = MaxOf(req - (o + h), 0)
  <2>1. Len(reqBlocks[r] \o hits) = o + h
    BY ConcatProperties
  <2> QED BY <2>1 DEF NumNewBlocks
<1>7. evict \in Nat /\ (hits = << >> => evict = 0) /\ Len(TouchedPool(hits).free) = free - evict
  BY TouchedPoolProperties
<1>8. hits = << >> => h = 0
  OBVIOUS
<1>9. new + evict <= free
  <2>1. CASE numCachedBlock[r] # Untracked
    <3>1. hits = << >>
      BY <2>1
    <3>2. MaxOf(req - o, 0) <= free
      BY <2>1 DEF CanAllocateSlots, NumBlocksToAllocate, GetNumFreeBlocks
    <3> HIDE DEF req, o, h, new, evict, free
    <3> QED BY <3>1, <3>2, <1>2, <1>5, <1>6, <1>7, <1>8 DEF MaxOf
  <2>2. CASE numCachedBlock[r] = Untracked
    <3>1. MaxOf(req - (h + o), 0) + evict <= free
      BY <2>2 DEF CanAllocateSlots, NumBlocksToAllocate, GetNumFreeBlocks
    <3> HIDE DEF req, o, h, new, evict, free
    <3> QED BY <3>1, <1>2, <1>5, <1>6, <1>7 DEF MaxOf
  <2> QED BY <2>1, <2>2
<1>10. NumAlreadyCached(r, hits) \in Nat
  BY <1>2 DEF NumAlreadyCached
<1> HIDE DEF req, o, h, new, evict, free, last
<1>11. new \in Nat /\ new <= free - evict /\ last <= o + h + new
  BY <1>2, <1>5, <1>6, <1>7, <1>9 DEF MaxOf
<1> QED BY <1>2, <1>5, <1>7, <1>10, <1>11 DEF o, h, new, last

\* A block that some request holds is referenced, and a block without holder
\* is not.
LEMMA OwnersProperties ==
  ASSUME BlocksInv, NEW b \in Blocks
  PROVE  /\ IsFiniteSet(Owners(b)) /\ Cardinality(Owners(b)) \in Nat
         /\ pool.ref[b] = Cardinality(Owners(b))
         /\ pool.ref[b] = 0 <=> Owners(b) = {}
<1>1. IsFiniteSet(Requests)
  BY ManagerAssumption
<1>2. IsFiniteSet(Owners(b))
  BY <1>1, FS_Subset DEF Owners
<1>3. pool.ref[b] = Cardinality(Owners(b))
  BY DEF BlocksInv, RefCountsOwners
<1> QED BY <1>2, <1>3, FS_CardinalityType, FS_EmptySet

UnhashedIn(p, b) == p.hash[b] = NoHash

\* When the capacity check passes, the blocks are there: new ones that are in
\* nobody's list, and no block to be cached has a hash.
LEMMA AllocatedBlocks ==
  ASSUME BlocksInv,
         NEW r \in Requests, NEW hits \in Seq(Blocks), NEW n \in Nat \ {0},
         IsInjective(hits),
         \A i \in 1 .. Len(hits) : pool.hash[hits[i]] = Hash(r, i),
         hits # << >> => reqBlocks[r] = << >> /\ numCachedBlock[r] = Untracked,
         numComputed[r] \in Nat, numTokens[r] \in Nat,
         numComputed[r] + Len(hits) * BlockSize + n <= numTokens[r],
         numTokens[r] <= Len(Stream[r]),
         CanAllocateSlots(r, n, hits)
  PROVE  LET o     == reqBlocks[r]
             t     == TouchedPool(hits)
             new   == NumNewBlocks(r, n, hits)
             nb    == NewBlocks(t, new)
             blks  == o \o hits \o nb
             q     == GetNewBlocks(t, new)
             first == NumAlreadyCached(r, hits)
             last  == NumFullBlocks(r, n, hits)
             m     == Len(Stream[r]) \div BlockSize
         IN  /\ new \in 0 .. Len(t.free)
             /\ first \in Nat /\ last \in Nat
             /\ t \in PoolType /\ FreeExact(t) /\ MapExact(t) /\ t.hash = pool.hash
             /\ \A b \in Blocks : t.ref[b] = IF b \in Range(hits) THEN pool.ref[b] + 1 ELSE pool.ref[b]
             /\ q \in PoolType /\ FreeExact(q) /\ MapExact(q)
             /\ nb \in Seq(Blocks) /\ IsInjective(nb) /\ Len(nb) = new
             /\ \A b \in Range(nb) : b \in Blocks /\ b # NullBlock /\ t.ref[b] = 0
             /\ \A b \in Blocks : q.ref[b] = IF b \in Range(nb) THEN 1 ELSE t.ref[b]
             /\ \A b \in Blocks : q.hash[b] = IF b \in Range(nb) THEN NoHash ELSE t.hash[b]
             /\ Range(o) \subseteq Blocks /\ Range(hits) \subseteq Blocks /\ Range(nb) \subseteq Blocks
             /\ \A b \in Range(nb) : /\ b \notin Range(hits) /\ pool.ref[b] = 0
                                    /\ \A s \in Requests : b \notin Range(reqBlocks[s])
             /\ \A b \in Range(hits) : pool.hash[b] \in Hashes /\ b \notin Range(o) /\ b # NullBlock
             /\ blks \in Seq(Blocks) /\ IsInjective(blks)
             /\ Range(blks) = Range(o) \cup Range(hits) \cup Range(nb)
             /\ DOMAIN blks = 1 .. Len(blks)
             /\ m \in Nat /\ Len(blks) \in Nat
             /\ last <= Len(blks) /\ last <= m
             /\ Len(o) \in Nat /\ DOMAIN o = 1 .. Len(o) /\ Len(hits) \in Nat
             /\ Len(nb) \in Nat /\ DOMAIN nb = 1 .. Len(nb)
             /\ Len(blks) = Len(o) + Len(hits) + Len(nb)
             /\ \A i \in 1 .. Len(blks) :
                  /\ i <= Len(o) => blks[i] = o[i]
                  /\ i > Len(o) /\ i <= Len(o) + Len(hits) => blks[i] = hits[i - Len(o)]
                  /\ i > Len(o) + Len(hits) => blks[i] \in Range(nb)
             /\ \A i \in (first + 1) .. Len(blks) : UnhashedIn(q, blks[i])
<1> DEFINE o       == reqBlocks[r]
           t       == TouchedPool(hits)
           new     == NumNewBlocks(r, n, hits)
           nb      == NewBlocks(t, new)
           blks    == o \o hits \o nb
           q       == GetNewBlocks(t, new)
           first   == NumAlreadyCached(r, hits)
           last    == NumFullBlocks(r, n, hits)
           m       == Len(Stream[r]) \div BlockSize
<1>1. /\ pool \in PoolType /\ FreeExact(pool) /\ MapExact(pool)
      /\ reqBlocks \in [Requests -> Seq(Blocks)]
      /\ numCachedBlock \in [Requests -> Nat \cup {Untracked}]
      /\ o \in Seq(Blocks) /\ IsInjective(o)
      /\ pool.ref \in [Blocks -> Nat] /\ pool.hash \in [Blocks -> Hashes \cup {NoHash}]
  BY DEF BlocksInv, FreeQueueExact, CacheMapExact, RefCountsOwners, PoolType
<1>3. /\ new \in 0 .. Len(t.free)
      /\ first \in Nat /\ last \in Nat
      /\ last <= Len(o) + Len(hits) + new /\ last <= m
  BY <1>1, AllocateNumbers
<1>4. /\ t \in PoolType /\ FreeExact(t) /\ MapExact(t) /\ t.hash = pool.hash
      /\ \A b \in Blocks : t.ref[b] = IF b \in Range(hits) THEN pool.ref[b] + 1 ELSE pool.ref[b]
  BY <1>1, TouchedPoolProperties
<1> HIDE DEF t, new, first, last
<1>5. /\ q \in PoolType /\ FreeExact(q) /\ MapExact(q)
      /\ nb \in Seq(Blocks) /\ IsInjective(nb) /\ Len(nb) = new
      /\ \A b \in Range(nb) : b \in Blocks /\ b # NullBlock /\ t.ref[b] = 0
      /\ \A b \in Blocks : q.ref[b] = IF b \in Range(nb) THEN 1 ELSE t.ref[b]
      /\ \A b \in Blocks : q.hash[b] = IF b \in Range(nb) THEN NoHash ELSE t.hash[b]
  BY <1>3, <1>4, GetNewBlocksProperties
<1>6. /\ m \in Nat
      /\ \A i \in 1 .. m : Hash(r, i) \in Hashes
      /\ \A i, j \in 1 .. m : Hash(r, i) = Hash(r, j) => i = j
  BY HashProperties
<1> HIDE DEF q, nb, m
<1>7. Range(o) \subseteq Blocks /\ Range(hits) \subseteq Blocks /\ Range(nb) \subseteq Blocks
  BY <1>1, <1>5, LenProperties, ElementOfSeq DEF Range
\* The new blocks are in nobody's list.
<1>8. \A b \in Range(nb) : /\ b \notin Range(hits) /\ pool.ref[b] = 0
                            /\ \A s \in Requests : b \notin Range(reqBlocks[s])
  <2> SUFFICES ASSUME NEW b \in Range(nb)
               PROVE  /\ b \notin Range(hits) /\ pool.ref[b] = 0
                      /\ \A s \in Requests : b \notin Range(reqBlocks[s])
    OBVIOUS
  <2>1. b \in Blocks /\ t.ref[b] = 0 /\ pool.ref[b] \in Nat
    BY <1>1, <1>5
  <2>2. b \notin Range(hits) /\ pool.ref[b] = 0
    BY <2>1, <1>4
  <2>3. Owners(b) = {}
    BY <2>1, <2>2, OwnersProperties
  <2> QED BY <2>2, <2>3 DEF Owners
\* The hits have a hash; the request held none of them.
<1>9. \A b \in Range(hits) : pool.hash[b] \in Hashes /\ b \notin Range(o) /\ b # NullBlock
  <2> SUFFICES ASSUME NEW i \in DOMAIN hits
               PROVE  pool.hash[hits[i]] \in Hashes /\ hits[i] \notin Range(o) /\ hits[i] # NullBlock
    BY DEF Range
  <2>1. i \in 1 .. Len(hits) /\ Len(hits) \in Nat
    BY LenProperties
  <2>2. hits # << >>
    BY <2>1
  <2>3. Range(o) = {}
    BY <2>2 DEF Range
  <2>4. i <= m
    <3>1. BlockSize \in Nat \ {0} /\ MaxModelLen \in Nat /\ Len(Stream[r]) \in 1 .. MaxModelLen
      BY ManagerAssumption, Zenon
    <3> DEFINE hb == Len(hits) * BlockSize
               len == Len(Stream[r])
    <3>2. hb \in Nat
      BY <3>1, <2>1
    <3>3. hb <= len /\ len \in Nat
      <4> HIDE DEF hb
      <4>1. numComputed[r] + hb + n <= numTokens[r]
        BY DEF hb
      <4>2. numTokens[r] <= len /\ len \in Nat
        BY <3>1
      <4> HIDE DEF len
      <4> QED BY <4>1, <4>2, <3>2
    <3>4. hb \div BlockSize <= len \div BlockSize
      <4> HIDE DEF hb, len
      <4> QED BY <3>1, <3>2, <3>3, DivMonotonic
    <3>5. hb \div BlockSize = Len(hits)
      <4> DEFINE l == Len(hits)
      <4> HIDE DEF l
      <4>1. l \in Nat
        BY <2>1 DEF l
      <4>2. (l * BlockSize) \div BlockSize = l
        BY <4>1, <3>1
      <4> QED BY <4>2 DEF l
    <3> HIDE DEF hb, len
    <3>6. Len(hits) <= m
      BY <3>4, <3>5 DEF m, len
    <3> QED BY <3>6, <2>1, <1>6
  <2>5. Hash(r, i) \in Hashes
    BY <2>1, <2>4, <1>6
  <2>6. pool.hash[hits[i]] = Hash(r, i)
    BY <2>1
  <2>7. pool.hash[NullBlock] \notin Hashes
    BY PoolAssumption DEF BlocksInv, NullUnused
  <2> QED BY <2>3, <2>5, <2>6, <2>7
<1>10. /\ blks \in Seq(Blocks) /\ IsInjective(blks)
       /\ Range(blks) = Range(o) \cup Range(hits) \cup Range(nb)
       /\ Len(blks) = Len(o) + Len(hits) + Len(nb)
       /\ DOMAIN blks = 1 .. Len(blks)
       /\ Len(o) \in Nat /\ Len(hits) \in Nat /\ Len(nb) \in Nat
       /\ \A i \in 1 .. Len(blks) :
            blks[i] = IF i <= Len(o) THEN o[i]
                      ELSE IF i <= Len(o) + Len(hits) THEN hits[i - Len(o)]
                      ELSE nb[i - (Len(o) + Len(hits))]
  <2> DEFINE oh == o \o hits
  <2>1. /\ oh \in Seq(Blocks) /\ Range(oh) = Range(o) \cup Range(hits) /\ IsInjective(oh)
    BY <1>1, <1>9, ConcatRange
  <2>2. /\ Len(oh) = Len(o) + Len(hits)
        /\ \A i \in 1 .. Len(oh) : oh[i] = IF i <= Len(o) THEN o[i] ELSE hits[i - Len(o)]
    BY <1>1, ConcatProperties
  <2>3. Range(oh) \cap Range(nb) = {}
    BY <2>1, <1>8
  <2> HIDE DEF oh, o
  <2>4. /\ oh \o nb \in Seq(Blocks) /\ IsInjective(oh \o nb)
        /\ Range(oh \o nb) = Range(oh) \cup Range(nb)
    BY <2>1, <2>3, <1>5, ConcatRange
  <2>5. /\ Len(oh \o nb) = Len(oh) + Len(nb)
        /\ \A i \in 1 .. Len(oh) + Len(nb) :
             (oh \o nb)[i] = IF i <= Len(oh) THEN oh[i] ELSE nb[i - Len(oh)]
    <3>1. oh \in Seq(Blocks) /\ nb \in Seq(Blocks)
      BY <2>1, <1>5
    <3> HIDE DEF oh
    <3>2. \A u, v \in Seq(Blocks) : /\ Len(u \o v) = Len(u) + Len(v)
                                    /\ \A i \in 1 .. Len(u) + Len(v) :
                                         (u \o v)[i] = IF i <= Len(u) THEN u[i] ELSE v[i - Len(u)]
      BY ConcatProperties
    <3> QED BY <3>1, <3>2, Zenon
  <2>6. blks = oh \o nb
    BY DEF oh
  <2> HIDE DEF blks
  <2>7. DOMAIN blks = 1 .. Len(blks)
    BY <2>4, <2>6, LenProperties
  <2>8. Len(o) \in Nat /\ Len(hits) \in Nat /\ Len(nb) \in Nat
    BY <1>1, <1>5, LenProperties
  <2>9. Len(blks) = Len(oh) + Len(nb)
    BY <2>5, <2>6
  <2>10. \A i \in 1 .. Len(blks) : blks[i] = IF i <= Len(oh) THEN oh[i] ELSE nb[i - Len(oh)]
    BY <2>5, <2>6, <2>9
  <2>11. \A i \in 1 .. Len(blks) :
            blks[i] = IF i <= Len(o) THEN o[i]
                      ELSE IF i <= Len(o) + Len(hits) THEN hits[i - Len(o)]
                      ELSE nb[i - (Len(o) + Len(hits))]
    <3> SUFFICES ASSUME NEW i \in 1 .. Len(blks)
                 PROVE  blks[i] = IF i <= Len(o) THEN o[i]
                                  ELSE IF i <= Len(o) + Len(hits) THEN hits[i - Len(o)]
                                  ELSE nb[i - (Len(o) + Len(hits))]
      OBVIOUS
    <3>1. CASE i <= Len(oh)
      BY <3>1, <2>2, <2>8, <2>9, <2>10
    <3>2. CASE ~(i <= Len(oh))
      BY <3>2, <2>2, <2>8, <2>9, <2>10
    <3> QED BY <3>1, <3>2
  <2>12. Range(blks) = Range(o) \cup Range(hits) \cup Range(nb)
    BY <2>1, <2>4, <2>6
  <2>13. blks \in Seq(Blocks) /\ IsInjective(blks)
    BY <2>4, <2>6
  <2>14. Len(blks) = Len(o) + Len(hits) + Len(nb)
    BY <2>2, <2>9
  <2> QED BY <2>7, <2>8, <2>11, <2>12, <2>13, <2>14
<1> HIDE DEF blks, o
<1>13. /\ first \in Nat /\ last \in Nat /\ m \in Nat /\ Len(blks) \in Nat
       /\ last <= Len(blks) /\ last <= m
  <2> DEFINE lb == Len(blks)
  <2>1. lb = Len(o) + Len(hits) + Len(nb) /\ Len(o) \in Nat /\ Len(hits) \in Nat /\ Len(nb) \in Nat
    BY <1>10
  <2> HIDE DEF lb
  <2>2. lb \in Nat /\ last <= lb
    BY <2>1, <1>3, <1>5
  <2> QED BY <2>2, <1>3, <1>6 DEF lb
<1>14. /\ Len(o) \in Nat /\ DOMAIN o = 1 .. Len(o) /\ Len(hits) \in Nat
       /\ Len(nb) \in Nat /\ DOMAIN nb = 1 .. Len(nb)
       /\ Len(blks) = Len(o) + Len(hits) + Len(nb)
  BY <1>1, <1>5, <1>10, LenProperties
<1>15. \A i \in 1 .. Len(blks) :
          /\ i <= Len(o) => blks[i] = o[i]
          /\ i > Len(o) /\ i <= Len(o) + Len(hits) => blks[i] = hits[i - Len(o)]
          /\ i > Len(o) + Len(hits) => blks[i] \in Range(nb)
  <2> SUFFICES ASSUME NEW i \in 1 .. Len(blks)
               PROVE  /\ i <= Len(o) => blks[i] = o[i]
                      /\ i > Len(o) /\ i <= Len(o) + Len(hits) => blks[i] = hits[i - Len(o)]
                      /\ i > Len(o) + Len(hits) => blks[i] \in Range(nb)
    OBVIOUS
  <2>1. blks[i] = IF i <= Len(o) THEN o[i]
                  ELSE IF i <= Len(o) + Len(hits) THEN hits[i - Len(o)]
                  ELSE nb[i - (Len(o) + Len(hits))]
    BY <1>10, Zenon
  <2>2. i > Len(o) + Len(hits) => i - (Len(o) + Len(hits)) \in DOMAIN nb
    BY <1>14
  <2>3. \A k \in DOMAIN nb : nb[k] \in Range(nb)
    BY DEF Range
  <2>4. ASSUME i > Len(o) + Len(hits) PROVE blks[i] \in Range(nb)
    <3>1. blks[i] = nb[i - (Len(o) + Len(hits))]
      BY <2>1, <2>4, <1>14
    <3> QED BY <3>1, <2>2, <2>3, <2>4
  <2> QED BY <2>1, <2>4, <1>14
\* What the pool has become.
<1>11. \A i \in (first + 1) .. Len(blks) : q.hash[blks[i]] = NoHash
  <2> SUFFICES ASSUME NEW i \in (first + 1) .. Len(blks) PROVE q.hash[blks[i]] = NoHash
    OBVIOUS
  <2>1. i \in 1 .. Len(blks) /\ i > first /\ i \in Nat
    BY <1>13
  <2>2. CASE i <= Len(o)
    <3>1. blks[i] = o[i] /\ i \in DOMAIN o
        <4>1. i \in 1 .. Len(o)
        BY <2>1, <2>2, <1>14
      <4> QED BY <4>1, <2>1, <2>2, <1>14, <1>15
    <3>2. hits = << >>
      <4>1. hits # << >> => Len(o) = 0
        BY DEF o
      <4> QED BY <4>1, <2>1, <2>2
    <3>3. first = NumCached(r)
      BY <3>2 DEF first, NumAlreadyCached, NumCached
    <3>4. pool.hash[o[i]] = NoHash
      BY <3>1, <3>3, <2>1 DEF BlocksInv, HashedInOrder, o
    <3>5. o[i] \in Blocks
      BY <3>1, <1>7 DEF Range
    <3> QED BY <3>1, <3>4, <3>5, <1>4, <1>5
  <2>3. CASE i > Len(o) /\ i <= Len(o) + Len(hits)
    <3>1. hits # << >>
      BY <2>3, <1>14
    <3>2. first = Len(hits) /\ Len(o) = 0
      BY <3>1 DEF first, NumAlreadyCached, o
    <3> QED BY <3>2, <2>1, <2>3, <1>14
  <2>4. CASE i > Len(o) + Len(hits)
    <3>3. blks[i] \in Range(nb)
      BY <2>1, <2>4, <1>15
    <3> QED BY <3>3, <1>5
  <2> QED BY <2>1, <2>2, <2>3, <2>4, <1>14
<1> QED
  BY <1>3, <1>4, <1>5, <1>7, <1>8, <1>9, <1>10, <1>13, <1>14, <1>15, <1>11
  DEF o, t, new, nb, blks, q, first, last, m, UnhashedIn

\* The list of r has been extended by the hits and by new blocks, and its full
\* blocks have got their hashes; new blocks have lost theirs, and nothing else has
\* changed.
Allocated(r, n, hits) ==
  LET o       == reqBlocks[r]
      blks    == reqBlocks'[r]
      new     == Range(NewBlocks(TouchedPool(hits), NumNewBlocks(r, n, hits)))
      first   == NumAlreadyCached(r, hits)
      last    == NumFullBlocks(r, n, hits)
      caching == EnableCaching /\ first < last
  IN  /\ blks \in Seq(Blocks) /\ IsInjective(blks) /\ DOMAIN blks = 1 .. Len(blks)
      /\ Len(o) \in Nat /\ Len(hits) \in Nat /\ Len(blks) \in Nat
      /\ Len(blks) = Len(o) + Len(hits) + NumNewBlocks(r, n, hits)
      /\ Len(o) + Len(hits) <= Len(blks)
      /\ \A i \in 1 .. Len(blks) :
           /\ i <= Len(o) => blks[i] = o[i]
           /\ i > Len(o) /\ i <= Len(o) + Len(hits) => blks[i] = hits[i - Len(o)]
           /\ i > Len(o) + Len(hits) => blks[i] \in new
      /\ \A s \in Requests : s # r => reqBlocks'[s] = reqBlocks[s] /\ NumCached(s)' = NumCached(s)
      /\ \A b \in new : /\ b \in Blocks /\ b \notin Range(hits) /\ pool.ref[b] = 0
                        /\ \A s \in Requests : b \notin Range(reqBlocks[s])
      /\ \A b \in Range(hits) : b \in Blocks /\ b \notin Range(o) /\ pool.hash[b] \in Hashes
      /\ \A b \in Blocks : pool'.ref[b] = IF b \in Range(hits) \cup new
                                            THEN pool.ref[b] + 1 ELSE pool.ref[b]
      /\ first \in Nat /\ last \in Nat /\ last <= Len(blks)
      /\ last <= Len(Stream[r]) \div BlockSize
      /\ NumCached(r)' = IF caching THEN last ELSE first
      /\ caching => \A i \in (first + 1) .. last :
                      /\ pool'.hash[blks[i]] = Hash(r, i)
                      /\ blks[i] \in new \/ pool.hash[blks[i]] = NoHash
      /\ \A b \in Blocks : ~(caching /\ b \in {blks[i] : i \in (first + 1) .. last}) =>
                             pool'.hash[b] = IF b \in new THEN NoHash ELSE pool.hash[b]

\* allocate_slots keeps the bookkeeping of the blocks correct, and adds hits and
\* new blocks to the list of the request, of whose blocks the full ones get hashes.
LEMMA AllocatePreserves ==
  ASSUME BlocksInv,
         NEW r \in Requests, NEW hits \in Seq(Blocks), NEW n \in Nat \ {0},
         IsInjective(hits),
         \A i \in 1 .. Len(hits) : pool.hash[hits[i]] = Hash(r, i),
         hits # << >> => reqBlocks[r] = << >> /\ numCachedBlock[r] = Untracked,
         numComputed[r] \in Nat, numTokens[r] \in Nat,
         numComputed[r] + Len(hits) * BlockSize + n <= numTokens[r],
         numTokens[r] <= Len(Stream[r]),
         AllocateSlots(r, n, hits)
  PROVE  BlocksInv' /\ Allocated(r, n, hits)
<1> DEFINE o       == reqBlocks[r]
           t       == TouchedPool(hits)
           new     == NumNewBlocks(r, n, hits)
           nb      == NewBlocks(t, new)
           blks    == o \o hits \o nb
           q       == GetNewBlocks(t, new)
           first   == NumAlreadyCached(r, hits)
           last    == NumFullBlocks(r, n, hits)
           caching == EnableCaching /\ first < last
           m       == Len(Stream[r]) \div BlockSize
<1>1. /\ pool \in PoolType /\ FreeExact(pool) /\ MapExact(pool)
      /\ reqBlocks \in [Requests -> Seq(Blocks)]
      /\ numCachedBlock \in [Requests -> Nat \cup {Untracked}]
      /\ o \in Seq(Blocks) /\ IsInjective(o)
      /\ pool.ref \in [Blocks -> Nat] /\ pool.hash \in [Blocks -> Hashes \cup {NoHash}]
  BY DEF BlocksInv, FreeQueueExact, CacheMapExact, RefCountsOwners, PoolType
<1>2. /\ CanAllocateSlots(r, n, hits)
      /\ reqBlocks' = [reqBlocks EXCEPT ![r] = blks]
      /\ pool' = IF caching THEN CacheBlocks(q, r, blks, first, last) ELSE q
      /\ numCachedBlock' =
           [numCachedBlock EXCEPT ![r] = IF caching THEN last
                                         ELSE IF hits # << >> THEN Len(hits) ELSE @]
  BY Zenon DEF AllocateSlots
<1>3. /\ new \in 0 .. Len(t.free)
      /\ first \in Nat /\ last \in Nat
  BY <1>2, AllocatedBlocks
<1>4. /\ t \in PoolType /\ FreeExact(t) /\ MapExact(t) /\ t.hash = pool.hash
      /\ \A b \in Blocks : t.ref[b] = IF b \in Range(hits) THEN pool.ref[b] + 1 ELSE pool.ref[b]
  BY <1>2, AllocatedBlocks
<1>5. /\ q \in PoolType /\ FreeExact(q) /\ MapExact(q)
      /\ nb \in Seq(Blocks) /\ IsInjective(nb) /\ Len(nb) = new
      /\ \A b \in Range(nb) : b \in Blocks /\ b # NullBlock /\ t.ref[b] = 0
      /\ \A b \in Blocks : q.ref[b] = IF b \in Range(nb) THEN 1 ELSE t.ref[b]
      /\ \A b \in Blocks : q.hash[b] = IF b \in Range(nb) THEN NoHash ELSE t.hash[b]
  BY <1>2, AllocatedBlocks
<1>7. /\ Range(o) \subseteq Blocks /\ Range(hits) \subseteq Blocks /\ Range(nb) \subseteq Blocks
  BY <1>2, AllocatedBlocks
<1>8. /\ \A b \in Range(nb) : /\ b \notin Range(hits) /\ pool.ref[b] = 0
                             /\ \A s \in Requests : b \notin Range(reqBlocks[s])
  BY <1>2, AllocatedBlocks
<1>9. /\ \A b \in Range(hits) : pool.hash[b] \in Hashes /\ b \notin Range(o) /\ b # NullBlock
  BY <1>2, AllocatedBlocks
<1>10. /\ blks \in Seq(Blocks) /\ IsInjective(blks)
       /\ Range(blks) = Range(o) \cup Range(hits) \cup Range(nb)
       /\ DOMAIN blks = 1 .. Len(blks)
  BY <1>2, AllocatedBlocks
<1>13. /\ first \in Nat /\ last \in Nat /\ m \in Nat /\ Len(blks) \in Nat
       /\ last <= Len(blks) /\ last <= m
  BY <1>2, AllocatedBlocks
<1>14. /\ Len(o) \in Nat /\ DOMAIN o = 1 .. Len(o) /\ Len(hits) \in Nat
       /\ Len(nb) \in Nat /\ DOMAIN nb = 1 .. Len(nb)
       /\ Len(blks) = Len(o) + Len(hits) + Len(nb)
  BY <1>2, AllocatedBlocks
<1>15. /\ \A i \in 1 .. Len(blks) :
            /\ i <= Len(o) => blks[i] = o[i]
            /\ i > Len(o) /\ i <= Len(o) + Len(hits) => blks[i] = hits[i - Len(o)]
            /\ i > Len(o) + Len(hits) => blks[i] \in Range(nb)
  BY <1>2, AllocatedBlocks, Zenon
<1>11. \A i \in (first + 1) .. Len(blks) : UnhashedIn(q, blks[i])
  BY <1>2, AllocatedBlocks
<1>6. /\ \A i \in 1 .. m : Hash(r, i) \in Hashes
      /\ \A i, j \in 1 .. m : Hash(r, i) = Hash(r, j) => i = j
  BY HashProperties
<1> HIDE DEF t, new, first, last, q, nb, m, blks, o
<1> DEFINE newly == {blks[i] : i \in (first + 1) .. last}
<1>12. /\ pool' \in PoolType /\ FreeExact(pool') /\ MapExact(pool')
       /\ pool'.ref = q.ref
       /\ caching => \A i \in (first + 1) .. last : /\ pool'.hash[blks[i]] = Hash(r, i)
                                                     /\ pool'.hash[blks[i]] \in Hashes
       /\ \A b \in Blocks : ~(caching /\ b \in newly) => pool'.hash[b] = q.hash[b]
  <2>1. CASE ~caching
    <3>1. pool' = q
      BY <2>1, <1>2
    <3> QED BY <3>1, <2>1, <1>5
  <2>2. CASE caching
    <3> DEFINE bs == SubSeq(blks, first + 1, last)
               hs == [i \in 1 .. (last - first) |-> Hash(r, first + i)]
    <3>0. first < last
      BY <2>2
    <3>1. first < last /\ pool' = CacheFullBlocks(q, bs, hs)
      BY <2>2, <1>2 DEF CacheBlocks
    <3>2. \A i \in 1 .. (last - first) : /\ first + i \in (first + 1) .. last
                                          /\ first + i \in 1 .. Len(blks)
                                          /\ first + i \in (first + 1) .. Len(blks)
                                          /\ first + i \in 1 .. m
      BY <3>0, <1>13, SMTT(30)
    <3>3. bs \in Seq(Blocks) /\ Len(bs) = last - first
          /\ \A i \in 1 .. (last - first) : bs[i] = blks[first + i]
      <4>1. /\ first + 1 \in Nat /\ first + 1 >= 1 /\ first + 1 <= last /\ last \in 1 .. Len(blks)
            /\ last - (first + 1) + 1 = last - first
            /\ \A i \in 1 .. last - first : (first + 1) + i - 1 = first + i
        <5>1. first \in Nat /\ last \in Nat /\ first < last /\ last <= Len(blks)
              /\ Len(blks) \in Nat
          BY <3>0, <1>13
        <5> HIDE DEF first, last, blks
        <5> QED BY <5>1, SMTT(30)
      <4> DEFINE f == first + 1
      <4> HIDE DEF f
      <4>2. \A k \in f .. last : blks[k] \in Blocks
        <5>1. blks \in Seq(Blocks)
          BY <1>10
        <5> SUFFICES ASSUME NEW k \in f .. last PROVE blks[k] \in Blocks
          OBVIOUS
        <5>2. k \in 1 .. Len(blks)
          BY <4>1, <1>13 DEF f
        <5> QED BY <5>1, <5>2, ElementOfSeq
      <4>3. f \in 1 .. Len(blks) + 1 /\ last \in (f - 1) .. Len(blks)
        BY <4>1, <1>13 DEF f
      <4>4. /\ SubSeq(blks, f, last) \in Seq(Blocks)
            /\ Len(SubSeq(blks, f, last)) = IF f <= last THEN last - f + 1 ELSE 0
            /\ \A i \in 1 .. last - f + 1 : SubSeq(blks, f, last)[i] = blks[f + i - 1]
        BY <4>3, <1>10, SubSeqProperties
      <4> QED BY <4>1, <4>4 DEF f
    <3>4. hs \in Seq(Hashes) /\ Len(hs) = last - first /\ DOMAIN hs = 1 .. (last - first)
      <4>1. \A i \in 1 .. (last - first) : Hash(r, first + i) \in Hashes
        BY <3>2, <1>6
      <4>2. last - first \in Nat
        BY <3>0, <1>13, SMTT(30)
      <4>3. hs \in Seq(Hashes)
        BY <4>1, <4>2, IsASeq
      <4> HIDE DEF hs
      <4>4. DOMAIN hs = 1 .. (last - first)
        BY DEF hs
      <4> QED BY <4>2, <4>3, <4>4, LenProperties
    <3>5. \A i \in 1 .. (last - first) : hs[i] = Hash(r, first + i)
      OBVIOUS
    <3> HIDE DEF bs, hs
    <3>6. IsInjective(hs)
      <4> SUFFICES ASSUME NEW i \in 1 .. (last - first), NEW j \in 1 .. (last - first),
                          hs[i] = hs[j]
                   PROVE  i = j
        BY <3>4 DEF IsInjective
      <4>1. first + i = first + j
        BY <3>2, <3>5, <1>6
      <4> QED BY <4>1, <1>3
    <3>7. DOMAIN bs = 1 .. (last - first)
      BY <3>3, LenProperties
    <3>8. IsInjective(bs)
      <4> SUFFICES ASSUME NEW i \in 1 .. (last - first), NEW j \in 1 .. (last - first),
                          bs[i] = bs[j]
                   PROVE  i = j
        BY <3>7 DEF IsInjective
      <4>1. first + i = first + j
        BY <3>2, <3>3, <1>10 DEF IsInjective
      <4> QED BY <4>1, <1>3
    <3>9. \A b \in Range(bs) : q.hash[b] = NoHash
      BY <3>2, <3>3, <3>7, <1>11 DEF Range, UnhashedIn
    <3>10. /\ pool' \in PoolType /\ FreeExact(pool') /\ MapExact(pool') /\ pool'.ref = q.ref
           /\ \A i \in 1 .. Len(bs) : pool'.hash[bs[i]] = hs[i]
           /\ \A b \in Blocks : b \notin Range(bs) => pool'.hash[b] = q.hash[b]
      <4>1. Len(hs) = Len(bs) /\ bs \in Seq(Blocks) /\ hs \in Seq(Hashes)
        BY <3>3, <3>4
      <4>2. q \in PoolType /\ FreeExact(q) /\ MapExact(q)
        BY <1>5
      <4> DEFINE c == CacheFullBlocks(q, bs, hs)
      <4>3. /\ c \in PoolType /\ FreeExact(c) /\ MapExact(c) /\ c.ref = q.ref
            /\ \A i \in 1 .. Len(bs) : c.hash[bs[i]] = hs[i]
            /\ \A b \in Blocks : b \notin Range(bs) => c.hash[b] = q.hash[b]
        BY <4>1, <4>2, <3>6, <3>8, <3>9, CacheFullBlocksProperties
      <4>4. pool' = c
        BY <3>1
      <4> HIDE DEF c
      <4> QED BY <4>3, <4>4
    <3>11. Range(bs) \subseteq newly
      BY <3>2, <3>3, <3>7 DEF Range
    <3>12. ASSUME NEW i \in (first + 1) .. last
           PROVE  pool'.hash[blks[i]] = Hash(r, i) /\ pool'.hash[blks[i]] \in Hashes
      <4>1. i - first \in 1 .. (last - first) /\ first + (i - first) = i /\ i \in 1 .. m
        BY <1>13
      <4>2. bs[i - first] = blks[i] /\ hs[i - first] = Hash(r, i)
        BY <4>1, <3>3, <3>5
      <4>3. pool'.hash[bs[i - first]] = hs[i - first]
        BY <4>1, <3>3, <3>10
      <4> QED BY <4>1, <4>2, <4>3, <1>6
    <3> HIDE DEF newly
    <3>13. \A b \in Blocks : ~(caching /\ b \in newly) => pool'.hash[b] = q.hash[b]
      <4> SUFFICES ASSUME NEW b \in Blocks, ~(caching /\ b \in newly)
                   PROVE  pool'.hash[b] = q.hash[b]
        OBVIOUS
      <4>1. b \notin Range(bs)
        BY <2>2, <3>11
      <4> QED BY <4>1, <3>10
    <3> HIDE DEF caching
    <3> QED BY <3>10, <3>12, <3>13
  <2> QED BY <2>1, <2>2
<1>16. newly \subseteq Range(blks)
  <2>1. \A i \in (first + 1) .. last : i \in 1 .. Len(blks)
    BY <1>13
  <2>2. DOMAIN blks = 1 .. Len(blks)
    BY <1>10
  <2> QED BY <2>1, <2>2 DEF Range
<1> HIDE DEF caching
<1>17. \A b \in Blocks : pool'.ref[b] = IF b \in Range(hits) \cup Range(nb)
                                          THEN pool.ref[b] + 1 ELSE pool.ref[b]
  <2> SUFFICES ASSUME NEW b \in Blocks
               PROVE  pool'.ref[b] = IF b \in Range(hits) \cup Range(nb)
                                       THEN pool.ref[b] + 1 ELSE pool.ref[b]
    OBVIOUS
  <2>1. pool'.ref[b] = IF b \in Range(nb) THEN 1 ELSE t.ref[b]
    BY <1>12, <1>5
  <2>2. t.ref[b] = IF b \in Range(hits) THEN pool.ref[b] + 1 ELSE pool.ref[b]
    BY <1>4
  <2>3. b \in Range(nb) => b \notin Range(hits) /\ pool.ref[b] = 0
    BY <1>8
  <2> QED BY <2>1, <2>2, <2>3
<1>18. \A b \in Blocks : b \notin Range(nb) /\ pool'.hash[b] = NoHash => pool.hash[b] = NoHash
  <2> SUFFICES ASSUME NEW b \in Blocks, b \notin Range(nb), pool'.hash[b] = NoHash
               PROVE  pool.hash[b] = NoHash
    OBVIOUS
  <2>1. ~(caching /\ b \in newly)
    BY <1>12, PoolAssumption
  <2> HIDE DEF newly
  <2> QED BY <2>1, <1>4, <1>5, <1>12
<1>19. \A b \in Blocks : b \notin Range(o) /\ b \notin Range(nb) /\ pool.hash[b] = NoHash
                          => pool'.hash[b] = NoHash
  <2> SUFFICES ASSUME NEW b \in Blocks, b \notin Range(o), b \notin Range(nb), pool.hash[b] = NoHash
               PROVE  pool'.hash[b] = NoHash
    OBVIOUS
  <2>1. b \notin Range(hits)
    BY <1>9, PoolAssumption
  <2>2. b \notin newly
    BY <2>1, <1>10, <1>16
  <2> HIDE DEF newly
  <2> QED BY <2>2, <1>4, <1>5, <1>12
<1>20. /\ reqBlocks' \in [Requests -> Seq(Blocks)]
       /\ reqBlocks'[r] = blks
       /\ \A s \in Requests : s # r => reqBlocks'[s] = reqBlocks[s]
  BY <1>1, <1>2, <1>10
<1>21. /\ numCachedBlock' \in [Requests -> Nat \cup {Untracked}]
       /\ numCachedBlock'[r] = IF caching THEN last
                               ELSE IF hits # << >> THEN Len(hits) ELSE numCachedBlock[r]
       /\ \A s \in Requests : s # r => numCachedBlock'[s] = numCachedBlock[s]
  BY <1>1, <1>2, <1>13, <1>14
<1>27. NumCached(r)' = IF caching THEN last ELSE first
  BY <1>13, <1>14, <1>21 DEF NumCached, Untracked, first, NumAlreadyCached
\* The six parts of the invariant in the new state.
<1>22. RefCountsOwners'
  <2>1. ASSUME NEW b \in Blocks PROVE pool'.ref[b] = Cardinality(Owners(b)')
    <3>1. /\ IsFiniteSet(Owners(b)) /\ Cardinality(Owners(b)) \in Nat
          /\ pool.ref[b] = Cardinality(Owners(b))
      BY OwnersProperties
    <3>2. CASE b \in Range(hits) \cup Range(nb)
      <4>1. r \notin Owners(b)
        BY <3>2, <1>8, <1>9 DEF Owners, o
      <4>2. Owners(b)' = Owners(b) \cup {r}
        BY <3>2, <1>10, <1>20 DEF Owners
      <4>3. Cardinality(Owners(b)') = Cardinality(Owners(b)) + 1
        BY <4>1, <4>2, <3>1, FS_AddElement, Zenon
      <4> QED BY <4>3, <3>1, <3>2, <1>17
    <3>3. CASE b \notin Range(hits) \cup Range(nb)
      <4>1. Owners(b)' = Owners(b)
        BY <3>3, <1>10, <1>20 DEF Owners, o
      <4> QED BY <4>1, <3>1, <3>3, <1>17
    <3> QED BY <3>2, <3>3
  <2>2. \A s \in Requests : IsInjective(reqBlocks'[s])
    BY <1>10, <1>20 DEF BlocksInv, RefCountsOwners
  <2> QED BY <2>1, <2>2 DEF RefCountsOwners
<1>23. NullUnused'
  <2>1. NullBlock \in Blocks
    BY PoolAssumption DEF NullBlock, Blocks
  <2>2. NullBlock \notin Range(o) /\ NullBlock \notin Range(hits) /\ NullBlock \notin Range(nb)
    BY <1>5, <1>9 DEF BlocksInv, NullUnused, o
  <2>3. pool'.hash[NullBlock] = NoHash
    BY <2>1, <2>2, <1>19 DEF BlocksInv, NullUnused
  <2>4. \A s \in Requests : NullBlock \notin Range(reqBlocks'[s])
    BY <2>2, <1>10, <1>20 DEF BlocksInv, NullUnused
  <2> QED BY <2>3, <2>4 DEF NullUnused
<1>24. HashedInOrder'
  <2> SUFFICES ASSUME NEW s \in Requests, NEW i \in DOMAIN reqBlocks'[s], i > NumCached(s)'
               PROVE  pool'.hash[reqBlocks'[s][i]] = NoHash
    BY DEF HashedInOrder
  <2>1. CASE s = r
    <3>1. i \in 1 .. Len(blks) /\ reqBlocks'[s][i] = blks[i] /\ blks[i] \in Blocks
      BY <2>1, <1>10, <1>20, ElementOfSeq
    <3>2. NumCached(s)' = IF caching THEN last ELSE first
      BY <2>1, <1>27
    <3>3. i \in (first + 1) .. Len(blks) /\ (caching => i > last)
      BY <3>1, <3>2, <1>13 DEF caching
    <3>4. ~(caching /\ blks[i] \in newly)
      <4> SUFFICES ASSUME caching, NEW j \in (first + 1) .. last, blks[i] = blks[j] PROVE FALSE
        OBVIOUS
      <4>1. j \in 1 .. Len(blks) /\ j <= last /\ i > last
        BY <1>13, <3>3
      <4>2. i = j
        BY <4>1, <3>1, <1>10 DEF IsInjective
      <4> QED BY <4>1, <4>2, <1>13
    <3> HIDE DEF newly
    <3> QED BY <3>1, <3>3, <3>4, <1>11, <1>12 DEF UnhashedIn
  <2>2. CASE s # r
    <3> DEFINE b == reqBlocks[s][i]
    <3>1. reqBlocks'[s] = reqBlocks[s] /\ NumCached(s)' = NumCached(s)
      BY <2>2, <1>20, <1>21 DEF NumCached
    <3>2. b \in Range(reqBlocks[s]) /\ pool.hash[b] = NoHash
      BY <3>1 DEF BlocksInv, HashedInOrder, Range
    <3> HIDE DEF b
    <3>3. b \notin Range(o)
      BY <3>2, <2>2 DEF BlocksInv, UnhashedUnshared, o
    <3>4. b \notin Range(nb)
      BY <3>2, <1>8
    <3>5. b \in Blocks
      BY <3>2, <1>1, LenProperties, ElementOfSeq DEF Range
    <3> QED BY <3>1, <3>2, <3>3, <3>4, <3>5, <1>19 DEF b
  <2> QED BY <2>1, <2>2
<1>25. UnhashedUnshared'
  <2>1. ASSUME NEW s \in Requests, NEW b \in Range(blks) \cap Range(reqBlocks[s]),
               pool'.hash[b] = NoHash
        PROVE  s = r
    <3>1. b \notin Range(nb)
      BY <1>8
    <3>2. b \in Blocks
      BY <1>7, <1>10
    <3>3. pool.hash[b] = NoHash
      BY <2>1, <3>1, <3>2, <1>18
    <3>4. b \notin Range(hits)
      BY <3>3, <1>9, PoolAssumption
    <3>5. b \in Range(o)
      BY <3>1, <3>4, <1>10
    <3> QED BY <3>3, <3>5 DEF BlocksInv, UnhashedUnshared, o
  <2>2. ASSUME NEW s \in Requests, NEW u \in Requests, s # r, u # r,
               NEW b \in Range(reqBlocks[s]) \cap Range(reqBlocks[u]),
               pool'.hash[b] = NoHash
        PROVE  s = u
    <3>1. b \notin Range(nb)
      BY <1>8
    <3>2. b \in Blocks
      BY <1>1, LenProperties, ElementOfSeq DEF Range
    <3> QED BY <2>2, <3>1, <3>2, <1>18 DEF BlocksInv, UnhashedUnshared
  <2> SUFFICES ASSUME NEW s \in Requests, NEW u \in Requests,
                      NEW b \in Range(reqBlocks'[s]) \cap Range(reqBlocks'[u]),
                      pool'.hash[b] = NoHash
               PROVE  s = u
    BY DEF UnhashedUnshared
  <2>3. CASE s = r /\ u # r
    BY <2>3, <2>1, <1>20
  <2>4. CASE s # r /\ u = r
    BY <2>4, <2>1, <1>20
  <2>5. CASE s # r /\ u # r
    BY <2>5, <2>2, <1>20
  <2> QED BY <2>3, <2>4, <2>5
<1>26. FreeQueueExact' /\ CacheMapExact'
  BY <1>12 DEF FreeQueueExact, CacheMapExact
<1>28. BlocksInv'
  BY <1>12, <1>20, <1>21, <1>22, <1>23, <1>24, <1>25, <1>26 DEF BlocksInv
\* What has become of the hashes.
<1>29. caching => \A i \in (first + 1) .. last :
                    /\ pool'.hash[blks[i]] = Hash(r, i)
                    /\ blks[i] \in Range(nb) \/ pool.hash[blks[i]] = NoHash
  <2> SUFFICES ASSUME caching, NEW i \in (first + 1) .. last
               PROVE  /\ pool'.hash[blks[i]] = Hash(r, i)
                      /\ blks[i] \in Range(nb) \/ pool.hash[blks[i]] = NoHash
    OBVIOUS
  <2>1. i \in (first + 1) .. Len(blks) /\ i \in 1 .. Len(blks)
    BY <1>13
  <2>2. q.hash[blks[i]] = NoHash /\ blks[i] \in Blocks
    BY <2>1, <1>10, <1>11, ElementOfSeq DEF UnhashedIn
  <2> QED BY <2>2, <1>4, <1>5, <1>12
<1>30. \A b \in Blocks : ~(caching /\ b \in newly) =>
                            pool'.hash[b] = IF b \in Range(nb) THEN NoHash ELSE pool.hash[b]
  <2> HIDE DEF newly
  <2> QED BY <1>4, <1>5, <1>12
<1>31. \A s \in Requests : s # r => NumCached(s)' = NumCached(s)
  BY <1>21 DEF NumCached
<1> DEFINE new2 == Range(nb)
           blks2 == reqBlocks'[r]
<1>32. blks2 = blks
  BY <1>20
<1>33. /\ blks2 \in Seq(Blocks) /\ IsInjective(blks2) /\ DOMAIN blks2 = 1 .. Len(blks2)
       /\ Len(o) \in Nat /\ Len(hits) \in Nat /\ Len(blks2) \in Nat
       /\ Len(blks2) = Len(o) + Len(hits) + new /\ Len(o) + Len(hits) <= Len(blks2)
       /\ last <= Len(blks2)
  BY <1>32, <1>3, <1>5, <1>10, <1>13, <1>14
<1>34. \A i \in 1 .. Len(blks2) :
         /\ i <= Len(o) => blks2[i] = o[i]
         /\ i > Len(o) /\ i <= Len(o) + Len(hits) => blks2[i] = hits[i - Len(o)]
         /\ i > Len(o) + Len(hits) => blks2[i] \in new2
  BY <1>32, <1>15, Zenon
<1>35. \A b \in new2 : /\ b \in Blocks /\ b \notin Range(hits) /\ pool.ref[b] = 0
                         /\ \A s \in Requests : b \notin Range(reqBlocks[s])
  BY <1>7, <1>8, Zenon
<1>36. \A b \in Range(hits) : b \in Blocks /\ b \notin Range(o) /\ pool.hash[b] \in Hashes
  BY <1>7, <1>9, Zenon
<1>37. caching => \A i \in (first + 1) .. last :
                    /\ pool'.hash[blks2[i]] = Hash(r, i)
                    /\ blks2[i] \in new2 \/ pool.hash[blks2[i]] = NoHash
  BY <1>29, <1>32, Zenon
<1>38. \A b \in Blocks : ~(caching /\ b \in {blks2[i] : i \in (first + 1) .. last}) =>
                            pool'.hash[b] = IF b \in new2 THEN NoHash ELSE pool.hash[b]
  BY <1>30, <1>32, Zenon
<1>39. \A s \in Requests : s # r => reqBlocks'[s] = reqBlocks[s] /\ NumCached(s)' = NumCached(s)
  BY <1>20, <1>31, Zenon
<1>40. Allocated(r, n, hits)
  BY <1>13, <1>17, <1>27, <1>33, <1>34, <1>35, <1>36, <1>37, <1>38, <1>39, Zenon
  DEF Allocated, caching, o, nb, first, last, t, new, m
<1> QED BY <1>28, <1>40

-----------------------------------------------------------------------------
(* Release                                                                 *)

\* free() keeps the bookkeeping of the blocks correct.
LEMMA FreePreserves ==
  ASSUME BlocksInv, NEW r \in Requests, Free(r)
  PROVE  BlocksInv'
<1> DEFINE o  == reqBlocks[r]
           bs == Reversed(o)
           q  == FreeBlocks(pool, bs)
<1>1. /\ pool \in PoolType /\ FreeExact(pool) /\ MapExact(pool)
      /\ reqBlocks \in [Requests -> Seq(Blocks)]
      /\ numCachedBlock \in [Requests -> Nat \cup {Untracked}]
      /\ o \in Seq(Blocks) /\ IsInjective(o)
      /\ pool.ref \in [Blocks -> Nat]
  BY DEF BlocksInv, FreeQueueExact, CacheMapExact, RefCountsOwners, PoolType
<1>2. bs \in Seq(Blocks) /\ Range(bs) = Range(o) /\ IsInjective(bs)
  BY <1>1, ReversedProperties
<1> HIDE DEF bs
<1>3. ASSUME NEW b \in Range(o) PROVE b \in Blocks /\ b # NullBlock /\ pool.ref[b] > 0
  <2>1. b \in Blocks /\ b # NullBlock
    BY <1>1, LenProperties, ElementOfSeq DEF Range, BlocksInv, NullUnused
  <2>2. r \in Owners(b)
    BY DEF Owners
  <2>3. pool.ref[b] # 0 /\ pool.ref[b] \in Nat
    BY <1>1, <2>1, <2>2, OwnersProperties
  <2> QED BY <2>1, <2>3
<1>4. /\ q \in PoolType /\ FreeExact(q) /\ MapExact(q) /\ q.hash = pool.hash
      /\ \A b \in Blocks : q.ref[b] = IF b \in Range(bs) THEN pool.ref[b] - 1 ELSE pool.ref[b]
  BY <1>1, <1>2, <1>3, FreeBlocksProperties
<1>5. pool' = q
  BY DEF Free, bs
<1> HIDE DEF q
<1>6. /\ pool' \in PoolType /\ FreeExact(pool') /\ MapExact(pool') /\ pool'.hash = pool.hash
      /\ \A b \in Blocks : pool'.ref[b] = IF b \in Range(o) THEN pool.ref[b] - 1 ELSE pool.ref[b]
  BY <1>2, <1>4, <1>5
<1>7. /\ reqBlocks' \in [Requests -> Seq(Blocks)]
      /\ reqBlocks'[r] = << >> /\ Range(reqBlocks'[r]) = {}
      /\ \A s \in Requests : s # r => reqBlocks'[s] = reqBlocks[s]
  <2>1. /\ reqBlocks' \in [Requests -> Seq(Blocks)] /\ reqBlocks'[r] = << >>
        /\ \A s \in Requests : s # r => reqBlocks'[s] = reqBlocks[s]
    BY <1>1, EmptySeq DEF Free
  <2> QED BY <2>1 DEF Range
<1>8. /\ numCachedBlock' \in [Requests -> Nat \cup {Untracked}]
      /\ \A s \in Requests : s # r => numCachedBlock'[s] = numCachedBlock[s]
  BY <1>1 DEF Free
<1>9. RefCountsOwners'
  <2>1. ASSUME NEW b \in Blocks PROVE pool'.ref[b] = Cardinality(Owners(b)')
    <3>1. /\ IsFiniteSet(Owners(b)) /\ Cardinality(Owners(b)) \in Nat
          /\ pool.ref[b] = Cardinality(Owners(b))
      BY OwnersProperties
    <3>2. Owners(b)' = Owners(b) \ {r}
      BY <1>7 DEF Owners
    <3>3. Cardinality(Owners(b)') = IF r \in Owners(b) THEN Cardinality(Owners(b)) - 1
                                                       ELSE Cardinality(Owners(b))
      BY <3>1, <3>2, FS_RemoveElement, Zenon
    <3>4. r \in Owners(b) <=> b \in Range(o)
      BY DEF Owners
    <3> QED BY <3>1, <3>3, <3>4, <1>6
  <2>2. \A s \in Requests : IsInjective(reqBlocks'[s])
    <3>1. IsInjective(<< >>)
      BY DEF IsInjective
    <3> QED BY <3>1, <1>7 DEF BlocksInv, RefCountsOwners
  <2> QED BY <2>1, <2>2 DEF RefCountsOwners
<1>10. NullUnused'
  BY <1>6, <1>7 DEF BlocksInv, NullUnused
<1>11. HashedInOrder'
  <2> SUFFICES ASSUME NEW s \in Requests, NEW i \in DOMAIN reqBlocks'[s], i > NumCached(s)'
               PROVE  pool'.hash[reqBlocks'[s][i]] = NoHash
    BY DEF HashedInOrder
  <2>1. s # r
    BY <1>7
  <2> QED BY <2>1, <1>6, <1>7, <1>8, SMTT(30) DEF BlocksInv, HashedInOrder, NumCached
<1>12. UnhashedUnshared'
  <2> SUFFICES ASSUME NEW s \in Requests, NEW u \in Requests,
                      NEW b \in Range(reqBlocks'[s]) \cap Range(reqBlocks'[u]),
                      pool'.hash[b] = NoHash
               PROVE  s = u
    BY DEF UnhashedUnshared
  <2>1. reqBlocks'[s] = reqBlocks[s] /\ reqBlocks'[u] = reqBlocks[u]
    <3>1. s # r /\ u # r
      BY <1>7 DEF Range
    <3> QED BY <3>1, <1>7
  <2>2. pool'.hash[b] = pool.hash[b]
    BY <1>6
  <2> QED BY <2>1, <2>2 DEF BlocksInv, UnhashedUnshared
<1>13. FreeQueueExact' /\ CacheMapExact'
  BY <1>6 DEF FreeQueueExact, CacheMapExact
<1> QED BY <1>6, <1>7, <1>8, <1>9, <1>10, <1>11, <1>12, <1>13 DEF BlocksInv

\* reset_prefix_cache, which only happens when no request holds a block.
LEMMA ResetPreserves ==
  ASSUME BlocksInv, Reset
  PROVE  BlocksInv'
<1>1. /\ pool \in PoolType /\ FreeExact(pool) /\ CanResetPrefixCache(pool)
      /\ pool' = ResetPrefixCache(pool)
      /\ reqBlocks' = reqBlocks /\ numCachedBlock' = numCachedBlock
  BY DEF BlocksInv, FreeQueueExact, Reset
<1>2. /\ \A b \in Blocks : b # NullBlock => pool.ref[b] = 0
      /\ pool' \in PoolType /\ FreeExact(pool') /\ MapExact(pool')
      /\ pool'.ref = pool.ref
      /\ \A b \in Blocks : pool'.hash[b] = NoHash
  BY <1>1, ResetProperties
<1>3. \A r \in Requests : Range(reqBlocks[r]) = {}
  <2> SUFFICES ASSUME NEW r \in Requests, NEW b \in Range(reqBlocks[r]) PROVE FALSE
    OBVIOUS
  <2>1. b \in Blocks /\ b # NullBlock
    <3>1. reqBlocks[r] \in Seq(Blocks)
      BY DEF BlocksInv
    <3> QED BY <3>1, LenProperties, ElementOfSeq DEF Range, BlocksInv, NullUnused
  <2>2. Owners(b) = {}
    BY <2>1, <1>2, OwnersProperties
  <2> QED BY <2>2 DEF Owners
<1>4. NullBlock \in Blocks
  BY PoolAssumption DEF Blocks, NullBlock
<1>5. RefCountsOwners' /\ NullUnused'
  BY <1>1, <1>2, <1>4 DEF BlocksInv, RefCountsOwners, NullUnused, Owners
<1>6. HashedInOrder'
  <2>1. \A r \in Requests : DOMAIN reqBlocks[r] = {}
    BY <1>3 DEF Range
  <2> QED BY <2>1, <1>1 DEF HashedInOrder
<1>7. UnhashedUnshared'
  BY <1>1, <1>3 DEF UnhashedUnshared
<1>8. FreeQueueExact' /\ CacheMapExact'
  BY <1>2 DEF FreeQueueExact, CacheMapExact
<1> QED BY <1>1, <1>2, <1>5, <1>6, <1>7, <1>8 DEF BlocksInv

-----------------------------------------------------------------------------
(* The invariant                                                           *)

\* What the assumption on the constants says of the lengths of one request.
LEMMA RequestConstants ==
  ASSUME NEW r \in Requests
  PROVE  /\ BlockSize \in Nat \ {0}
         /\ Len(Stream[r]) \in Nat /\ PromptLen[r] \in Nat
         /\ 1 <= PromptLen[r] /\ PromptLen[r] < Len(Stream[r])
<1>1. /\ BlockSize \in Nat \ {0} /\ MaxModelLen \in Nat
      /\ Len(Stream[r]) \in 1 .. MaxModelLen
      /\ PromptLen[r] \in 1 .. (Len(Stream[r]) - 1)
  BY ManagerAssumption, Zenon
<1> QED BY <1>1

\* The invariant holds initially.
LEMMA InitIInv == Init => IInv
<1> SUFFICES ASSUME Init PROVE IInv
  OBVIOUS
<1>1. /\ pool = InitPool /\ reqBlocks = [r \in Requests |-> << >>]
      /\ numCachedBlock = [r \in Requests |-> Untracked]
      /\ status = [r \in Requests |-> "waiting"] /\ numTokens = PromptLen
      /\ numComputed = [r \in Requests |-> 0] /\ numScheduled = [r \in Requests |-> 0]
  BY DEF Init
<1>2. pool \in PoolType /\ FreeExact(pool) /\ MapExact(pool)
  BY <1>1, InitPoolProperties
<1>3. \A b \in Blocks : pool.ref[b] = 0 /\ pool.hash[b] = NoHash
  BY <1>1 DEF InitPool
<1>4. \A r \in Requests : reqBlocks[r] = << >> /\ DOMAIN reqBlocks[r] = {} /\ Range(reqBlocks[r]) = {}
  <2>1. DOMAIN << >> = {}
    OBVIOUS
  <2> QED BY <2>1, <1>1 DEF Range
<1>5. reqBlocks \in [Requests -> Seq(Blocks)] /\ numCachedBlock \in [Requests -> Nat \cup {Untracked}]
  BY <1>1, EmptySeq
<1>6. RefCountsOwners
  <2>1. \A b \in Blocks : Owners(b) = {}
    BY <1>4 DEF Owners
  <2> QED BY <2>1, <1>3, <1>4, FS_EmptySet DEF RefCountsOwners, IsInjective
<1>7. NullUnused /\ HashedInOrder /\ UnhashedUnshared
  <2>1. NullBlock \in Blocks
    BY PoolAssumption DEF NullBlock, Blocks
  <2>2. NullUnused
    BY <2>1, <1>3, <1>4 DEF NullUnused
  <2>3. HashedInOrder /\ UnhashedUnshared
    BY <1>4, Zenon DEF HashedInOrder, UnhashedUnshared
  <2> QED BY <2>2, <2>3
<1>8. BlocksInv
  BY <1>2, <1>5, <1>6, <1>7 DEF BlocksInv, FreeQueueExact, CacheMapExact
<1>9. PromptLen \in [Requests -> Nat]
  BY ManagerAssumption
<1>10. TypeOK
  BY <1>1, <1>2, <1>5, <1>9, RequestConstants DEF TypeOK
<1>11. ClientInv
  BY <1>1, <1>4, RequestConstants DEF ClientInv
<1> QED BY <1>8, <1>10, <1>11 DEF IInv

\* Every step of the manager and its client preserves the invariant.
LEMMA NextIInv == IInv /\ [Next]_vars => IInv'
<1> SUFFICES ASSUME IInv, [Next]_vars PROVE IInv'
  OBVIOUS
<1>1. TypeOK /\ BlocksInv /\ ClientInv
  BY DEF IInv
<1>2. /\ status \in [Requests -> {"waiting", "running", "finished"}]
      /\ numTokens \in [Requests -> Nat]
      /\ numComputed \in [Requests -> Nat] /\ numScheduled \in [Requests -> Nat]
      /\ \A r \in Requests : /\ numTokens[r] \in PromptLen[r] .. Len(Stream[r])
                             /\ numComputed[r] + numScheduled[r] <= numTokens[r]
  BY <1>1 DEF TypeOK
<1>3. ASSUME NEW r \in Requests, ScheduleWaiting(r) PROVE IInv'
  <2> DEFINE hits == GetComputedBlocks(r)
             hb == Len(hits) * BlockSize
  <2>1. PICK n \in 1 .. (numTokens[r] - hb) :
          AllocateSlots(r, n, hits) /\ numScheduled' = [numScheduled EXCEPT ![r] = n]
    BY <1>3 DEF ScheduleWaiting
  <2>2. /\ status[r] = "waiting" /\ status' = [status EXCEPT ![r] = "running"]
        /\ numComputed' = [numComputed EXCEPT ![r] = hb] /\ numTokens' = numTokens
    BY <1>3 DEF ScheduleWaiting
  <2>3. /\ numTokens[r] \in 1 .. Len(Stream[r]) /\ numTokens[r] \in Nat
        /\ numComputed[r] = 0 /\ reqBlocks[r] = << >> /\ numCachedBlock[r] = Untracked
        /\ numTokens[r] < Len(Stream[r])
    BY <2>2, <1>1, <1>2, RequestConstants DEF ClientInv
  <2>4. /\ hits \in Seq(Blocks) /\ IsInjective(hits)
        /\ \A i \in 1 .. Len(hits) : pool.hash[hits[i]] = Hash(r, i)
    BY <1>1, <2>3, HitProperties DEF BlocksInv, CacheMapExact
  <2>5. hb \in Nat
    BY <2>4, LenProperties, RequestConstants
  <2> HIDE DEF hits, hb
  <2>6. n \in Nat \ {0} /\ hb + n <= numTokens[r]
    BY <2>1, <2>3, <2>5
  <2>7. BlocksInv'
    <3>1. numComputed[r] + hb + n <= numTokens[r] /\ numTokens[r] <= Len(Stream[r])
      BY <2>3, <2>5, <2>6, RequestConstants
    <3>2. numComputed[r] + Len(hits) * BlockSize + n <= numTokens[r]
      BY <3>1 DEF hb
    <3> QED BY <3>1, <3>2, <2>1, <2>3, <2>4, <2>6, <1>1, <1>2, AllocatePreserves
  <2>8. TypeOK'
    BY <1>2, <2>1, <2>2, <2>5, <2>6, <2>7 DEF TypeOK, BlocksInv
  <2>9. ClientInv'
    <3>1. \A s \in Requests : s # r => reqBlocks'[s] = reqBlocks[s] /\ numCachedBlock'[s] = numCachedBlock[s]
      BY <1>1, <2>1 DEF AllocateSlots, BlocksInv
    <3> QED BY <3>1, <1>1, <1>2, <2>1, <2>2, <2>3 DEF ClientInv
  <2> QED BY <2>7, <2>8, <2>9 DEF IInv
<1>4. ASSUME NEW r \in Requests, ScheduleRunning(r) PROVE IInv'
  <2>1. PICK n \in 1 .. (numTokens[r] - numComputed[r]) :
          AllocateSlots(r, n, << >>) /\ numScheduled' = [numScheduled EXCEPT ![r] = n]
    BY <1>4 DEF ScheduleRunning
  <2>2. /\ status[r] = "running" /\ numScheduled[r] = 0 /\ numTokens[r] # Len(Stream[r])
        /\ status' = status /\ numTokens' = numTokens /\ numComputed' = numComputed
    BY <1>4 DEF ScheduleRunning, Settled, Stopped
  <2>3. /\ n \in Nat \ {0} /\ numTokens[r] \in Nat /\ numComputed[r] \in Nat
        /\ numComputed[r] + n <= numTokens[r] /\ numTokens[r] < Len(Stream[r])
    BY <1>2, <2>1, <2>2, RequestConstants
  <2>4. BlocksInv'
    <3> DEFINE hits == << >>
    <3>1. hits \in Seq(Blocks) /\ Len(hits) = 0 /\ IsInjective(hits) /\ hits = << >>
      BY EmptySeq DEF IsInjective
    <3>2. AllocateSlots(r, n, hits)
      BY <2>1
    <3> HIDE DEF hits
    <3>3. Len(hits) * BlockSize = 0
      BY <3>1, RequestConstants
    <3>4. numComputed[r] + Len(hits) * BlockSize + n <= numTokens[r] /\ numTokens[r] <= Len(Stream[r])
      BY <3>3, <2>3, RequestConstants
    <3>5. \A i \in 1 .. Len(hits) : pool.hash[hits[i]] = Hash(r, i)
      BY <3>1
    <3> QED BY <3>1, <3>2, <3>4, <3>5, <2>3, <1>1, AllocatePreserves
  <2>5. TypeOK'
    BY <1>2, <2>1, <2>2, <2>3, <2>4 DEF TypeOK, BlocksInv
  <2>6. ClientInv'
    <3>1. \A s \in Requests : s # r => reqBlocks'[s] = reqBlocks[s] /\ numCachedBlock'[s] = numCachedBlock[s]
      BY <1>1, <2>1 DEF AllocateSlots, BlocksInv
    <3> QED BY <3>1, <1>1, <1>2, <2>1, <2>2, <2>3 DEF ClientInv
  <2> QED BY <2>4, <2>5, <2>6 DEF IInv
<1>5. ASSUME NEW r \in Requests, Preempt(r) PROVE IInv'
  <2>1. /\ Free(r) /\ status[r] = "running" /\ numScheduled[r] = 0 /\ numTokens[r] # Len(Stream[r])
        /\ status' = [status EXCEPT ![r] = "waiting"]
        /\ numComputed' = [numComputed EXCEPT ![r] = 0]
        /\ numTokens' = numTokens /\ numScheduled' = numScheduled
    BY <1>5 DEF Preempt, Settled, Stopped
  <2>2. BlocksInv'
    BY <1>1, <2>1, FreePreserves
  <2>3. TypeOK'
    <3>1. /\ numComputed' \in [Requests -> Nat]
          /\ status' \in [Requests -> {"waiting", "running", "finished"}]
      BY <1>2, <2>1
    <3>2. ASSUME NEW s \in Requests PROVE numComputed'[s] + numScheduled'[s] <= numTokens'[s]
      BY <1>2, <2>1
    <3> QED BY <3>1, <3>2, <1>2, <2>1, <2>2 DEF TypeOK, BlocksInv
  <2>4. ClientInv'
    <3>1. /\ reqBlocks'[r] = << >> /\ numCachedBlock'[r] = Untracked
          /\ \A s \in Requests : s # r => reqBlocks'[s] = reqBlocks[s] /\ numCachedBlock'[s] = numCachedBlock[s]
      BY <1>1, <2>1 DEF Free, BlocksInv
    <3>2. numTokens[r] < Len(Stream[r])
      BY <1>2, <2>1, RequestConstants
    <3> QED BY <3>1, <3>2, <1>1, <1>2, <2>1 DEF ClientInv
  <2> QED BY <2>2, <2>3, <2>4 DEF IInv
<1>6. ASSUME NEW r \in Requests, Finish(r) PROVE IInv'
  <2>1. /\ Free(r) /\ numScheduled[r] = 0
        /\ status' = [status EXCEPT ![r] = "finished"]
        /\ numComputed' = numComputed /\ numTokens' = numTokens /\ numScheduled' = numScheduled
    BY <1>6 DEF Finish
  <2>2. BlocksInv'
    BY <1>1, <2>1, FreePreserves
  <2>3. TypeOK'
    BY <1>2, <2>1, <2>2 DEF TypeOK, BlocksInv
  <2>4. ClientInv'
    <3>1. /\ reqBlocks'[r] = << >> /\ numCachedBlock'[r] = Untracked
          /\ \A s \in Requests : s # r => reqBlocks'[s] = reqBlocks[s] /\ numCachedBlock'[s] = numCachedBlock[s]
      BY <1>1, <2>1 DEF Free, BlocksInv
    <3> QED BY <3>1, <1>1, <1>2, <2>1 DEF ClientInv
  <2> QED BY <2>2, <2>3, <2>4 DEF IInv
<1>7. ASSUME Execute PROVE IInv'
  <2>1. /\ pool' = pool /\ reqBlocks' = reqBlocks /\ numCachedBlock' = numCachedBlock
        /\ status' = status /\ numScheduled' = [r \in Requests |-> 0]
        /\ numComputed' = [r \in Requests |-> numComputed[r] + numScheduled[r]]
        /\ numTokens' = [r \in Requests |->
                           IF numScheduled[r] > 0 /\ numComputed[r] + numScheduled[r] = numTokens[r]
                             THEN numTokens[r] + 1 ELSE numTokens[r]]
    BY <1>7 DEF Execute, managerVars
  <2>2. BlocksInv'
    BY <1>1, <2>1 DEF BlocksInv, FreeQueueExact, CacheMapExact, RefCountsOwners, Owners,
                      NullUnused, HashedInOrder, NumCached, UnhashedUnshared
  <2>3. ASSUME NEW r \in Requests
        PROVE  /\ numTokens'[r] \in Nat /\ numTokens'[r] \in PromptLen[r] .. Len(Stream[r])
               /\ numComputed'[r] \in Nat /\ numComputed'[r] + numScheduled'[r] <= numTokens'[r]
               /\ status[r] = "waiting" => numComputed'[r] = 0 /\ numTokens'[r] < Len(Stream[r])
    BY <1>1, <1>2, <2>1, RequestConstants DEF ClientInv
  <2>4. TypeOK'
    BY <1>2, <2>1, <2>2, <2>3 DEF TypeOK, BlocksInv
  <2>5. ClientInv'
    BY <1>1, <2>1, <2>3 DEF ClientInv
  <2> QED BY <2>2, <2>4, <2>5 DEF IInv
<1>8. ASSUME Reset PROVE IInv'
  <2>1. /\ reqBlocks' = reqBlocks /\ numCachedBlock' = numCachedBlock /\ status' = status
        /\ numScheduled' = numScheduled /\ numComputed' = numComputed /\ numTokens' = numTokens
    BY <1>8 DEF Reset, requestVars
  <2>2. BlocksInv'
    BY <1>1, <1>8, ResetPreserves
  <2> QED BY <1>1, <2>1, <2>2 DEF IInv, TypeOK, ClientInv, BlocksInv
<1>9. CASE UNCHANGED vars
  BY <1>1, <1>9 DEF vars, managerVars, requestVars, IInv, TypeOK, ClientInv, BlocksInv,
                    FreeQueueExact, CacheMapExact, RefCountsOwners, Owners, NullUnused,
                    HashedInOrder, NumCached, UnhashedUnshared
<1> QED BY <1>3, <1>4, <1>5, <1>6, <1>7, <1>8, <1>9 DEF Next

\* The inductive invariant holds in every reachable state.
THEOREM Invariance == Spec => []IInv
BY InitIInv, NextIInv, PTL DEF Spec

\* Types, and computed and scheduled counts that never exceed the tokens a
\* request has.
THEOREM TypeCorrect == Spec => []TypeOK
<1>1. IInv => TypeOK
  BY DEF IInv
<1> QED BY <1>1, Invariance, PTL

\* No block is leaked or handed out twice, whatever requests share, free or
\* evict: the free queue is exactly the set of unreferenced blocks.
THEOREM FreeQueueIsExact == Spec => []FreeQueueExact
<1>1. IInv => FreeQueueExact
  BY DEF IInv, BlocksInv
<1> QED BY <1>1, Invariance, PTL

\* ref_cnt of a block is the number of requests that hold it.
THEOREM RefCountsAreOwners == Spec => []RefCountsOwners
<1>1. IInv => RefCountsOwners
  BY DEF IInv, BlocksInv
<1> QED BY <1>1, Invariance, PTL

\* The prefix-cache map and the hashes on the blocks always agree.
THEOREM CacheMapIsExact == Spec => []CacheMapExact
<1>1. IInv => CacheMapExact
  BY DEF IInv, BlocksInv
<1> QED BY <1>1, Invariance, PTL

-----------------------------------------------------------------------------
(* What the bookkeeping is for: the computed positions of a request have   *)
(* its own KV (KVContentsCorrect).                                         *)
(*                                                                         *)
(* A block may be hit before it is written, when the request that computes *)
(* it is in the same step.  So the invariant says of every block with a    *)
(* hash that each slot has what the hash stands for or is about to get it  *)
(* (CachedContents); and a block in a list has the hash of its place in    *)
(* that list or none (HashMatches), so that whoever writes to a block with *)
(* a hash writes what the hash stands for.                                 *)
(*                                                                         *)
(* From the same invariant: nothing raises after the capacity check of     *)
(* allocate_slots, and no step evicts a block that a request holds.  That  *)
(* children are evicted before their parents (NoStrandedBlock) needs the   *)
(* order of the free queue: the parent of a cached block in the queue is   *)
(* held by somebody or comes behind it (Anchored).                         *)

\* The number of full blocks of the stream of r.
NumHashes(r) == Len(Stream[r]) \div BlockSize

\* The positions of a running request have slots.
Capacity ==
  \A r \in Requests : status[r] = "running" =>
    numComputed[r] + numScheduled[r] <= Len(reqBlocks[r]) * BlockSize

\* A block in a list has the hash of its place, or none yet.
HashMatches ==
  \A r \in Requests : \A i \in DOMAIN reqBlocks[r] :
    pool.hash[reqBlocks[r][i]] \in {NoHash, Hash(r, i)}

\* A cached block has the KV its hash stands for, or gets it in this step.
CachedContents ==
  \A b \in Blocks, r \in Requests : \A i \in 1 .. NumHashes(r) :
    pool.hash[b] = Hash(r, i) =>
      \A o \in Slots : LET kv == KVAt(r, (i - 1) * BlockSize + o) IN
        content[b][o] = kv \/ kv \in Writes(b, o)

ContentsInv == Capacity /\ HashMatches /\ CachedContents /\ KVContentsCorrect

-----------------------------------------------------------------------------
(* Positions, slots and hashes                                             *)

\* The block and the slot of a position.
LEMMA SlotIndex ==
  ASSUME NEW pos \in Nat
  PROVE  /\ BlockSize \in Nat \ {0}
         /\ pos \div BlockSize \in Nat /\ pos % BlockSize \in Slots
         /\ pos = (pos \div BlockSize) * BlockSize + (pos % BlockSize)
         /\ pos \div BlockSize + 1 \in Nat \ {0}
         /\ pos = ((pos \div BlockSize + 1) - 1) * BlockSize + (pos % BlockSize)
<1>1. BlockSize \in Nat \ {0}
  BY ManagerAssumption
<1>2. pos % BlockSize \in 0 .. (BlockSize - 1)
  BY <1>1
<1>3. pos \div BlockSize \in Nat
  BY <1>1, DivBounds
<1>4. pos = BlockSize * (pos \div BlockSize) + (pos % BlockSize)
  BY <1>1
<1> DEFINE d == pos \div BlockSize
<1> HIDE DEF d
<1>5. d \in Nat /\ d + 1 \in Nat \ {0} /\ (d + 1) - 1 = d /\ d * BlockSize = BlockSize * d
  BY <1>1, <1>3 DEF d
<1> QED BY <1>1, <1>2, <1>4, <1>5 DEF Slots, d

\* A multiple of the block size bounds the index of the block.
LEMMA BlockIndex ==
  ASSUME NEW pos \in Nat, NEW n \in Nat, pos < n * BlockSize
  PROVE  pos \div BlockSize + 1 \in 1 .. n
<1>1. /\ BlockSize \in Nat \ {0} /\ pos \div BlockSize \in Nat
      /\ pos % BlockSize \in 0 .. (BlockSize - 1)
      /\ pos = (pos \div BlockSize) * BlockSize + (pos % BlockSize)
  BY SlotIndex DEF Slots
<1> DEFINE d == pos \div BlockSize
           m == pos % BlockSize
<1> HIDE DEF d, m
<1>2. d \in Nat /\ m \in Nat /\ pos = d * BlockSize + m /\ BlockSize \in Nat
  BY <1>1 DEF d, m
<1>3. ASSUME n <= d PROVE FALSE
  <2>1. n * BlockSize <= d * BlockSize
    BY <1>2, <1>3
  <2> QED BY <2>1, <1>2
<1>4. d + 1 <= n
  BY <1>2, <1>3
<1> QED BY <1>2, <1>4 DEF d

\* Slot x of block k holds one position.
LEMMA PositionInBlock ==
  ASSUME NEW k \in Nat \ {0}, NEW x \in Nat, x < BlockSize, BlockSize \in Nat \ {0}
  PROVE  LET pos == (k - 1) * BlockSize + x
         IN  /\ pos \in Nat /\ pos \div BlockSize + 1 = k /\ pos % BlockSize = x
             /\ pos < k * BlockSize /\ (k - 1) * BlockSize <= pos
<1> DEFINE c == (k - 1) * BlockSize
<1>1. c \in Nat /\ k * BlockSize = c + BlockSize
  OBVIOUS
<1>2. (c + x) \div BlockSize = k - 1
  OBVIOUS
<1>3. (c + x) % BlockSize = x
  OBVIOUS
<1> HIDE DEF c
<1>4. c + x \in Nat /\ c + x < k * BlockSize /\ c <= c + x
  BY <1>1
<1> QED BY <1>2, <1>3, <1>4 DEF c

\* Multiplication by the block size is monotonic.
LEMMA TimesBlockSize ==
  ASSUME NEW i \in Nat, NEW k \in Nat, i <= k, BlockSize \in Nat
  PROVE  i * BlockSize <= k * BlockSize /\ i * BlockSize \in Nat /\ k * BlockSize \in Nat
OBVIOUS

\* The prefix of a sequence, element by element.
LEMMA Prefix ==
  ASSUME NEW T, NEW s, NEW n \in Nat, \A k \in 1 .. n : s[k] \in T
  PROVE  /\ SubSeq(s, 1, n) \in Seq(T) /\ Len(SubSeq(s, 1, n)) = n
         /\ \A k \in 1 .. n : SubSeq(s, 1, n)[k] = s[k]
<1>1. /\ SubSeq(s, 1, n) \in Seq(T)
      /\ Len(SubSeq(s, 1, n)) = IF 1 <= n THEN n - 1 + 1 ELSE 0
      /\ \A k \in 1 .. n - 1 + 1 : SubSeq(s, 1, n)[k] = s[1 + k - 1]
  BY SubSeqProperties
<1>2. \A k \in 1 .. n : 1 + k - 1 = k /\ k \in 1 .. n - 1 + 1
  OBVIOUS
<1> QED BY <1>1, <1>2

\* Equal prefixes are equally long, and have equal prefixes.
LEMMA EqualPrefixes ==
  ASSUME NEW s, NEW t, NEW n \in Nat, NEW m \in Nat, SubSeq(s, 1, n) = SubSeq(t, 1, m)
  PROVE  n = m /\ \A k \in 0 .. n : SubSeq(s, 1, k) = SubSeq(t, 1, k)
<1> DEFINE T == {s[k] : k \in 1 .. n} \cup {t[k] : k \in 1 .. m}
<1>1. (\A k \in 1 .. n : s[k] \in T) /\ (\A k \in 1 .. m : t[k] \in T)
  OBVIOUS
<1> HIDE DEF T
<1>2. Len(SubSeq(s, 1, n)) = n /\ \A k \in 1 .. n : SubSeq(s, 1, n)[k] = s[k]
  BY <1>1, Prefix
<1>3. Len(SubSeq(t, 1, m)) = m /\ \A k \in 1 .. m : SubSeq(t, 1, m)[k] = t[k]
  BY <1>1, Prefix
<1>4. n = m /\ \A k \in 1 .. n : s[k] = t[k]
  BY <1>2, <1>3
<1>5. ASSUME NEW k \in 0 .. n PROVE SubSeq(s, 1, k) = SubSeq(t, 1, k)
  <2>1. k \in Nat /\ \A j \in 1 .. k : j \in 1 .. n
    OBVIOUS
  <2>2. (\A j \in 1 .. k : s[j] \in T) /\ (\A j \in 1 .. k : t[j] \in T)
    BY <2>1, <1>1, <1>4
  <2>3. /\ SubSeq(s, 1, k) \in Seq(T) /\ Len(SubSeq(s, 1, k)) = k
        /\ \A j \in 1 .. k : SubSeq(s, 1, k)[j] = s[j]
    BY <2>1, <2>2, Prefix
  <2>4. /\ SubSeq(t, 1, k) \in Seq(T) /\ Len(SubSeq(t, 1, k)) = k
        /\ \A j \in 1 .. k : SubSeq(t, 1, k)[j] = t[j]
    BY <2>1, <2>2, Prefix
  <2> QED BY <2>1, <2>3, <2>4, <1>4, SeqEqual
<1> QED BY <1>4, <1>5

\* A hash is good for one place in the list, and for the KV of all positions up
\* to the end of the block, whichever request it is computed from.
LEMMA SameHash ==
  ASSUME NEW r, NEW s, NEW i \in Nat \ {0}, NEW j \in Nat \ {0}, Hash(r, i) = Hash(s, j)
  PROVE  /\ i = j
         /\ \A o \in Slots : KVAt(r, (i - 1) * BlockSize + o) = KVAt(s, (j - 1) * BlockSize + o)
<1>1. BlockSize \in Nat \ {0}
  BY ManagerAssumption
<1>2. i * BlockSize \in Nat /\ j * BlockSize \in Nat
  BY <1>1
<1>3. /\ i * BlockSize = j * BlockSize
      /\ \A k \in 0 .. (i * BlockSize) : SubSeq(Stream[r], 1, k) = SubSeq(Stream[s], 1, k)
  BY <1>2, EqualPrefixes DEF Hash
<1>4. i = j
  BY <1>1, <1>3
<1>5. ASSUME NEW o \in Slots PROVE (i - 1) * BlockSize + o + 1 \in 0 .. (i * BlockSize)
  <2>1. o \in Nat /\ o + 1 <= BlockSize
    BY <1>1 DEF Slots
  <2>2. (i - 1) * BlockSize + BlockSize = i * BlockSize /\ (i - 1) * BlockSize \in Nat
    BY <1>1
  <2> QED BY <2>1, <2>2, <1>1, <1>2
<1> QED BY <1>3, <1>4, <1>5 DEF KVAt

\* As many blocks as fit into the tokens have hashes.
LEMMA FullBlocks ==
  ASSUME NEW r \in Requests
  PROVE  /\ NumHashes(r) \in Nat
         /\ \A i \in 1 .. NumHashes(r) : Hash(r, i) \in Hashes /\ Hash(r, i) # NoHash
         /\ \A i \in Nat : i * BlockSize <= Len(Stream[r]) => i <= NumHashes(r)
<1>1. BlockSize \in Nat \ {0} /\ Len(Stream[r]) \in Nat
  BY RequestConstants
<1>2. NumHashes(r) \in Nat /\ \A i \in 1 .. NumHashes(r) : Hash(r, i) \in Hashes
  BY HashProperties DEF NumHashes
<1>3. ASSUME NEW i \in Nat, i * BlockSize <= Len(Stream[r]) PROVE i <= NumHashes(r)
  <2> DEFINE l == Len(Stream[r])
             d == l \div BlockSize
  <2>1. d \in Nat /\ l < BlockSize * d + BlockSize
    BY <1>1, DivBounds
  <2> HIDE DEF l, d
  <2>2. i * BlockSize < BlockSize * d + BlockSize /\ l \in Nat
    BY <2>1, <1>1, <1>3 DEF l
  <2>3. ASSUME d + 1 <= i PROVE FALSE
    <3>1. (d + 1) * BlockSize <= i * BlockSize
      BY <2>1, <2>3, <1>1
    <3>2. (d + 1) * BlockSize = BlockSize * d + BlockSize
      BY <2>1, <1>1
    <3> QED BY <3>1, <3>2, <2>1, <2>2, <1>1
  <2>4. i <= d
    BY <2>1, <2>3
  <2> QED BY <2>4 DEF d, l, NumHashes
<1> QED BY <1>2, <1>3, PoolAssumption

-----------------------------------------------------------------------------
(* What a step writes                                                      *)

\* Writes, with the variables it depends on as parameters.
WrittenBy(lists, done, sched, b, o) ==
  UNION {{KVAt(r, pos) : pos \in {q \in done[r] .. (done[r] + sched[r] - 1) :
                                    <<lists[r][q \div BlockSize + 1], q % BlockSize>> = <<b, o>>}} :
           r \in Requests}

\* A write is the KV of a position that some request computes in the slot.
LEMMA WritesFact ==
  ASSUME NEW b, NEW o, NEW x
  PROVE  x \in Writes(b, o) <=> \E s \in Requests : \E q \in Positions(s) :
                                   SlotOf(s, q) = <<b, o>> /\ x = KVAt(s, q)
BY DEF Writes

\* The positions of a step are within the lists, and those of a request without
\* scheduled tokens are none.
LEMMA PositionsFact ==
  ASSUME TypeOK, ClientInv, Capacity, NEW r \in Requests
  PROVE  /\ \A q \in Positions(r) : /\ q \in Nat /\ q >= numComputed[r]
                                    /\ q < numComputed[r] + numScheduled[r]
         /\ numScheduled[r] = 0 => Positions(r) = {}
         /\ Positions(r) # {} => status[r] = "running"
         /\ Len(reqBlocks[r]) \in Nat /\ DOMAIN reqBlocks[r] = 1 .. Len(reqBlocks[r])
         /\ \A q \in Nat : status[r] = "running" /\ q < numComputed[r] + numScheduled[r] =>
              /\ q \div BlockSize + 1 \in DOMAIN reqBlocks[r]
              /\ SlotOf(r, q)[1] \in Blocks /\ SlotOf(r, q)[2] \in Slots
<1>1. /\ numComputed[r] \in Nat /\ numScheduled[r] \in Nat /\ reqBlocks[r] \in Seq(Blocks)
  BY DEF TypeOK
<1>2. \A q \in Positions(r) : /\ q \in Nat /\ q >= numComputed[r]
                              /\ q < numComputed[r] + numScheduled[r]
  BY <1>1 DEF Positions
<1>3. numScheduled[r] = 0 => Positions(r) = {}
  BY <1>1 DEF Positions
<1>4. Len(reqBlocks[r]) \in Nat /\ DOMAIN reqBlocks[r] = 1 .. Len(reqBlocks[r])
  BY <1>1, LenProperties
<1>5. ASSUME NEW q \in Nat, status[r] = "running", q < numComputed[r] + numScheduled[r]
      PROVE  /\ q \div BlockSize + 1 \in DOMAIN reqBlocks[r]
             /\ SlotOf(r, q)[1] \in Blocks /\ SlotOf(r, q)[2] \in Slots
  <2> DEFINE l == Len(reqBlocks[r])
  <2>1. numComputed[r] + numScheduled[r] <= l * BlockSize
    BY <1>5 DEF Capacity
  <2> HIDE DEF l
  <2>2. l \in Nat /\ l * BlockSize \in Nat
    <3>1. BlockSize \in Nat
      BY ManagerAssumption
    <3> QED BY <1>4, <3>1 DEF l
  <2>3. q < l * BlockSize
    BY <1>1, <1>5, <2>1, <2>2
  <2>4. q \div BlockSize + 1 \in 1 .. l
    BY <2>2, <2>3, BlockIndex
  <2>5. reqBlocks[r][q \div BlockSize + 1] \in Blocks
    BY <2>4, <1>1, ElementOfSeq DEF l
  <2> QED BY <2>4, <2>5, <1>4, SlotIndex DEF SlotOf, l
<1>6. Positions(r) # {} => status[r] = "running"
  BY <1>3 DEF ClientInv
<1> QED BY <1>2, <1>3, <1>4, <1>5, <1>6

\* Who writes to a block with a hash writes what the hash stands for.
LEMMA HashedWrites ==
  ASSUME TypeOK, ClientInv, Capacity, HashMatches,
         NEW b \in Blocks, NEW o \in Slots, NEW x \in Writes(b, o),
         NEW r, NEW i \in Nat \ {0}, pool.hash[b] = Hash(r, i), pool.hash[b] # NoHash
  PROVE  x = KVAt(r, (i - 1) * BlockSize + o)
<1>0. PICK s \in Requests : \E q \in Positions(s) : SlotOf(s, q) = <<b, o>> /\ x = KVAt(s, q)
  BY WritesFact
<1>1. PICK q \in Positions(s) : SlotOf(s, q) = <<b, o>> /\ x = KVAt(s, q)
  BY <1>0
<1> DEFINE j == q \div BlockSize + 1
<1>2. q \in Nat /\ j \in DOMAIN reqBlocks[s] /\ j \in Nat \ {0}
  <2>1. q \in Nat /\ status[s] = "running" /\ q < numComputed[s] + numScheduled[s]
    BY PositionsFact
  <2>2. j \in DOMAIN reqBlocks[s]
    BY <2>1, PositionsFact
  <2> QED BY <2>1, <2>2, SlotIndex
<1>3. reqBlocks[s][j] = b /\ q % BlockSize = o
  BY <1>1 DEF SlotOf
<1>4. Hash(s, j) = Hash(r, i)
  BY <1>2, <1>3 DEF HashMatches
<1> HIDE DEF j
<1>5. KVAt(s, (j - 1) * BlockSize + o) = KVAt(r, (i - 1) * BlockSize + o)
  BY <1>2, <1>4, SameHash
<1>6. (j - 1) * BlockSize + o = q
  BY <1>2, <1>3, SlotIndex DEF j
<1> QED BY <1>1, <1>5, <1>6

\* Two writes to a slot are the same: a block without hash has one owner, which
\* has it once, and for a block with one both write what the hash stands for.
LEMMA OneWrite ==
  ASSUME IInv, Capacity, HashMatches, NEW b \in Blocks, NEW o \in Slots,
         NEW s \in Requests, status[s] = "running",
         NEW q \in Nat, q < numComputed[s] + numScheduled[s], SlotOf(s, q) = <<b, o>>,
         NEW x \in Writes(b, o)
  PROVE  x = KVAt(s, q)
<1>0. TypeOK /\ ClientInv /\ BlocksInv
  BY DEF IInv
<1> DEFINE j == q \div BlockSize + 1
<1>1. /\ j \in DOMAIN reqBlocks[s] /\ j \in Nat \ {0} /\ reqBlocks[s][j] = b
      /\ q % BlockSize = o /\ (j - 1) * BlockSize + o = q
  <2>1. j \in DOMAIN reqBlocks[s]
    BY <1>0, PositionsFact
  <2>2. reqBlocks[s][j] = b /\ q % BlockSize = o
    BY DEF SlotOf
  <2> QED BY <2>1, <2>2, SlotIndex
<1>2. CASE pool.hash[b] # NoHash
  <2>1. pool.hash[b] = Hash(s, j)
    BY <1>1, <1>2 DEF HashMatches
  <2> HIDE DEF j
  <2> QED BY <2>1, <1>0, <1>1, <1>2, HashedWrites
<1>3. CASE pool.hash[b] = NoHash
  <2>0. PICK u \in Requests : \E p \in Positions(u) : SlotOf(u, p) = <<b, o>> /\ x = KVAt(u, p)
    BY WritesFact
  <2>1. PICK p \in Positions(u) : SlotOf(u, p) = <<b, o>> /\ x = KVAt(u, p)
    BY <2>0
  <2> DEFINE k == p \div BlockSize + 1
  <2>2. /\ k \in DOMAIN reqBlocks[u] /\ reqBlocks[u][k] = b /\ k \in Nat \ {0}
        /\ (k - 1) * BlockSize + o = p
    <3>1. p \in Nat /\ status[u] = "running" /\ p < numComputed[u] + numScheduled[u]
      BY <1>0, PositionsFact
    <3>2. k \in DOMAIN reqBlocks[u]
      BY <1>0, <3>1, PositionsFact
    <3>3. reqBlocks[u][k] = b /\ p % BlockSize = o
      BY <2>1 DEF SlotOf
    <3> QED BY <3>1, <3>2, <3>3, SlotIndex
  <2> HIDE DEF j, k
  <2>3. b \in Range(reqBlocks[s]) \cap Range(reqBlocks[u])
    BY <2>2, <1>1 DEF Range
  <2>4. s = u
    BY <2>3, <1>0, <1>3 DEF BlocksInv, UnhashedUnshared
  <2>5. j = k
    BY <2>2, <2>4, <1>0, <1>1 DEF BlocksInv, RefCountsOwners, IsInjective
  <2>6. p = q
    BY <2>2, <2>5, <1>1
  <2> QED BY <2>1, <2>4, <2>6
<1> QED BY <1>2, <1>3

\* What the model runner leaves in a slot.
LEMMA ExecuteContent ==
  ASSUME Execute, NEW b \in Blocks, NEW o \in Slots, NEW kv,
         content[b][o] = kv \/ kv \in Writes(b, o),
         \A x \in Writes(b, o) : x = kv
  PROVE  content'[b][o] = kv
<1>1. content'[b][o] = IF Writes(b, o) = {} THEN content[b][o]
                                            ELSE CHOOSE x \in Writes(b, o) : TRUE
  BY DEF Execute
<1>2. CASE Writes(b, o) = {}
  BY <1>1, <1>2
<1>3. CASE Writes(b, o) # {}
  <2>1. (CHOOSE x \in Writes(b, o) : TRUE) \in Writes(b, o)
    BY <1>3
  <2> QED BY <2>1, <1>1, <1>3
<1> QED BY <1>2, <1>3

-----------------------------------------------------------------------------
(* The model runs the step                                                 *)

\* After the step every slot with a hash, and every computed position, has its KV.
LEMMA ExecuteContents ==
  ASSUME IInv, ContentsInv, Execute
  PROVE  ContentsInv'
<1>0. TypeOK /\ ClientInv /\ Capacity /\ HashMatches /\ CachedContents /\ KVContentsCorrect
  BY DEF IInv, ContentsInv
<1>1. /\ pool' = pool /\ reqBlocks' = reqBlocks /\ status' = status
      /\ numScheduled' = [r \in Requests |-> 0]
      /\ numComputed' = [r \in Requests |-> numComputed[r] + numScheduled[r]]
  BY DEF Execute, managerVars
<1>2. \A r \in Requests : numComputed[r] \in Nat /\ numScheduled[r] \in Nat
  BY <1>0 DEF TypeOK
<1>3. Capacity' /\ HashMatches'
  BY <1>0, <1>1, <1>2 DEF Capacity, HashMatches
<1>4. CachedContents'
  <2> SUFFICES ASSUME NEW b \in Blocks, NEW r \in Requests, NEW i \in 1 .. NumHashes(r),
                      pool.hash[b] = Hash(r, i), NEW o \in Slots
               PROVE  content'[b][o] = KVAt(r, (i - 1) * BlockSize + o)
    BY <1>1 DEF CachedContents, KVAt, Hash, NumHashes
  <2>1. i \in Nat \ {0} /\ pool.hash[b] # NoHash
    BY FullBlocks
  <2> DEFINE kv == KVAt(r, (i - 1) * BlockSize + o)
  <2>2. content[b][o] = kv \/ kv \in Writes(b, o)
    BY <1>0 DEF CachedContents
  <2>3. \A x \in Writes(b, o) : x = kv
    BY <1>0, <2>1, HashedWrites
  <2> HIDE DEF kv
  <2>4. content'[b][o] = kv
    BY <2>2, <2>3, ExecuteContent
  <2> QED BY <2>4 DEF kv
<1>5. KVContentsCorrect'
  <2> SUFFICES ASSUME NEW r \in Requests, status[r] = "running",
                      NEW pos \in Nat, pos < numComputed[r] + numScheduled[r]
               PROVE  content'[SlotOf(r, pos)[1]][SlotOf(r, pos)[2]] = KVAt(r, pos)
    BY <1>1, <1>2 DEF KVContentsCorrect, SlotOf, KVAt
  <2> DEFINE b == SlotOf(r, pos)[1]
             o == SlotOf(r, pos)[2]
             kv == KVAt(r, pos)
  <2>1. SlotOf(r, pos) = <<b, o>>
    BY DEF SlotOf
  <2>2. b \in Blocks /\ o \in Slots
    BY <1>0, PositionsFact
  <2>3. content[b][o] = kv \/ kv \in Writes(b, o)
    <3>1. CASE pos < numComputed[r]
      <4>1. pos \in 0 .. (numComputed[r] - 1)
        BY <3>1, <1>2
      <4> QED BY <4>1, <1>0 DEF KVContentsCorrect
    <3>2. CASE ~(pos < numComputed[r])
      <4>1. pos \in Positions(r)
        BY <3>2, <1>2 DEF Positions
      <4> HIDE DEF b, o
      <4> QED BY <4>1, <2>1, WritesFact
    <3> QED BY <3>1, <3>2
  <2> HIDE DEF b, o
  <2>4. \A x \in Writes(b, o) : x = kv
    BY <1>0, <2>1, <2>2, OneWrite
  <2> HIDE DEF kv
  <2>5. content'[b][o] = kv
    BY <2>2, <2>3, <2>4, ExecuteContent
  <2> QED BY <2>5 DEF b, o, kv
<1> QED BY <1>3, <1>4, <1>5 DEF ContentsInv

-----------------------------------------------------------------------------
(* A request is scheduled                                                  *)

\* What the waiting and the running loop have in common.
Schedules(r, n, hits) ==
  /\ hits \in Seq(Blocks) /\ n \in Nat \ {0} /\ IsInjective(hits)
  /\ \A i \in 1 .. Len(hits) : pool.hash[hits[i]] = Hash(r, i)
  /\ hits # << >> => /\ reqBlocks[r] = << >> /\ numCachedBlock[r] = Untracked
                     /\ numComputed[r] = 0
  /\ numComputed[r] + Len(hits) * BlockSize + n <= numTokens[r]
  /\ AllocateSlots(r, n, hits)
  /\ numComputed[r] = 0 \/ status[r] = "running"
  /\ numScheduled[r] = 0
  /\ numScheduled' = [numScheduled EXCEPT ![r] = n]
  /\ numComputed' = [numComputed EXCEPT ![r] = numComputed[r] + Len(hits) * BlockSize]
  /\ status' = [status EXCEPT ![r] = "running"]
  /\ content' = content

\* Both loops of schedule().
LEMMA ScheduleStep ==
  ASSUME IInv, NEW r \in Requests, ScheduleWaiting(r) \/ ScheduleRunning(r)
  PROVE  \E n, hits : Schedules(r, n, hits)
<1>0. TypeOK /\ BlocksInv /\ ClientInv
  BY DEF IInv
<1>1. /\ numTokens[r] \in Nat /\ numTokens[r] \in 1 .. Len(Stream[r])
      /\ numComputed \in [Requests -> Nat] /\ numComputed[r] \in Nat
      /\ status \in [Requests -> {"waiting", "running", "finished"}]
      /\ BlockSize \in Nat \ {0}
  <2>1. /\ numTokens[r] \in Nat /\ numTokens[r] \in PromptLen[r] .. Len(Stream[r])
        /\ numComputed \in [Requests -> Nat]
        /\ status \in [Requests -> {"waiting", "running", "finished"}]
    BY <1>0 DEF TypeOK
  <2> QED BY <2>1, RequestConstants
<1>2. CASE ScheduleWaiting(r)
  <2> DEFINE hits == GetComputedBlocks(r)
             hb == Len(hits) * BlockSize
  <2>1. PICK n \in 1 .. (numTokens[r] - hb) :
          AllocateSlots(r, n, hits) /\ numScheduled' = [numScheduled EXCEPT ![r] = n]
    BY <1>2 DEF ScheduleWaiting
  <2>2. /\ status[r] = "waiting" /\ status' = [status EXCEPT ![r] = "running"]
        /\ numComputed' = [numComputed EXCEPT ![r] = hb] /\ content' = content
    BY <1>2 DEF ScheduleWaiting
  <2>3. /\ numComputed[r] = 0 /\ reqBlocks[r] = << >> /\ numCachedBlock[r] = Untracked
        /\ numScheduled[r] = 0
    BY <1>0, <2>2 DEF ClientInv
  <2>4. /\ hits \in Seq(Blocks) /\ IsInjective(hits)
        /\ \A i \in 1 .. Len(hits) : pool.hash[hits[i]] = Hash(r, i)
    BY <1>0, <1>1, HitProperties DEF BlocksInv, CacheMapExact
  <2> HIDE DEF hits
  <2>5. Len(hits) \in Nat
    BY <2>4, LenProperties
  <2>6. hb \in Nat
    BY <1>1, <2>5
  <2> HIDE DEF hb
  <2>7. n \in Nat \ {0} /\ numComputed[r] + hb + n <= numTokens[r] /\ numComputed[r] + hb = hb
    BY <1>1, <2>1, <2>3, <2>6
  <2> QED BY <2>1, <2>2, <2>3, <2>4, <2>7 DEF Schedules, hb
<1>3. CASE ScheduleRunning(r)
  <2> DEFINE hits == << >>
  <2>1. PICK n \in 1 .. (numTokens[r] - numComputed[r]) :
          AllocateSlots(r, n, hits) /\ numScheduled' = [numScheduled EXCEPT ![r] = n]
    BY <1>3 DEF ScheduleRunning
  <2>2. /\ status[r] = "running" /\ numScheduled[r] = 0
        /\ status' = status /\ numComputed' = numComputed /\ content' = content
    BY <1>3 DEF ScheduleRunning
  <2>3. status' = [status EXCEPT ![r] = "running"] /\ numComputed' = [numComputed EXCEPT ![r] = @]
    BY <1>1, <2>2
  <2>4. hits \in Seq(Blocks) /\ Len(hits) = 0 /\ IsInjective(hits) /\ hits = << >>
    BY EmptySeq DEF IsInjective
  <2> HIDE DEF hits
  <2>5. Len(hits) * BlockSize = 0 /\ \A i \in 1 .. Len(hits) : FALSE
    BY <1>1, <2>4
  <2>6. /\ n \in Nat \ {0} /\ numComputed[r] + Len(hits) * BlockSize + n <= numTokens[r]
        /\ numComputed[r] + Len(hits) * BlockSize = numComputed[r]
    BY <1>1, <2>1, <2>5
  <2> QED BY <2>1, <2>2, <2>3, <2>4, <2>5, <2>6 DEF Schedules
<1> QED BY <1>2, <1>3

\* The blocks suffice for the tokens of the step, and the ones that are cached
\* are full after it.
LEMMA EnoughBlocks ==
  ASSUME NEW r \in Requests, NEW hits \in Seq(Blocks), NEW n \in Nat \ {0},
         reqBlocks[r] \in Seq(Blocks), numComputed[r] \in Nat, numTokens[r] \in Nat,
         numComputed[r] + Len(hits) * BlockSize + n <= numTokens[r],
         numTokens[r] <= Len(Stream[r])
  PROVE  LET end == numComputed[r] + Len(hits) * BlockSize + n
             new == NumNewBlocks(r, n, hits)
         IN  /\ new \in Nat
             /\ end \in Nat
             /\ end <= (Len(reqBlocks[r]) + Len(hits) + new) * BlockSize
             /\ NumFullBlocks(r, n, hits) \in Nat
             /\ NumFullBlocks(r, n, hits) * BlockSize <= end
<1> DEFINE l == Len(reqBlocks[r]) + Len(hits)
           c == numComputed[r] + Len(hits) * BlockSize
           e == c + n
           w == cdiv(e, BlockSize)
           f == e \div BlockSize
<1>1. /\ BlockSize \in Nat \ {0} /\ MaxModelLen \in Nat /\ Len(Stream[r]) \in 1 .. MaxModelLen
  BY ManagerAssumption, Zenon
<1>2. Len(reqBlocks[r]) \in Nat /\ Len(hits) \in Nat /\ Len(reqBlocks[r] \o hits) = l
  BY LenProperties, ConcatProperties
<1>3. l \in Nat /\ c \in Nat /\ e \in Nat
  <2> DEFINE h == Len(hits) * BlockSize
  <2>1. h \in Nat
    BY <1>1, <1>2
  <2> HIDE DEF h
  <2>2. numComputed[r] + h \in Nat /\ numComputed[r] + h + n \in Nat
    BY <2>1
  <2> QED BY <1>2, <2>2 DEF h
<1>4. e <= numTokens[r] /\ e <= MaxModelLen /\ c <= MaxModelLen
  <2>1. e <= numTokens[r]
    OBVIOUS
  <2>2. e = c + n /\ Len(Stream[r]) \in Nat /\ Len(Stream[r]) <= MaxModelLen
    BY <1>1
  <2> HIDE DEF c, e
  <2> QED BY <2>1, <2>2, <1>1, <1>3
<1> HIDE DEF l, c
<1>5. MinOf(c, MaxModelLen) = c /\ MinOf(e, MaxModelLen) = e /\ MinOf(e, numTokens[r]) = e
  BY <1>1, <1>3, <1>4 DEF MinOf
<1>6. NumRequiredBlocks(r, n, hits) = w /\ NumFullBlocks(r, n, hits) = f
  BY <1>5 DEF NumRequiredBlocks, NumFullBlocks, c
<1> HIDE DEF e
<1>7. w \in Nat /\ e <= w * BlockSize
  <2> DEFINE d == (e + BlockSize - 1) \div BlockSize
  <2>1. e + BlockSize - 1 \in Nat
    BY <1>1, <1>3
  <2>2. d \in Nat /\ e + BlockSize - 1 < BlockSize * d + BlockSize
    BY <1>1, <2>1, DivBounds
  <2>3. w = d
    BY DEF cdiv
  <2> HIDE DEF d, w
  <2>4. d * BlockSize = BlockSize * d /\ BlockSize * d \in Nat
    BY <1>1, <2>2
  <2> QED BY <2>2, <2>3, <2>4, <1>1, <1>3
<1>8. f \in Nat /\ f * BlockSize <= e
  <2>1. f \in Nat /\ BlockSize * f <= e
    BY <1>1, <1>3, DivBounds
  <2> HIDE DEF f
  <2> QED BY <2>1, <1>1
<1>9. NumNewBlocks(r, n, hits) = MaxOf(w - l, 0)
  BY <1>2, <1>6 DEF NumNewBlocks
<1> HIDE DEF w, f
<1> DEFINE new == MaxOf(w - l, 0)
<1>10. new \in Nat /\ w <= l + new
  BY <1>3, <1>7 DEF MaxOf
<1> HIDE DEF new
<1>11. w * BlockSize <= (l + new) * BlockSize /\ (l + new) * BlockSize \in Nat
       /\ w * BlockSize \in Nat
  BY <1>1, <1>3, <1>7, <1>10
<1>12. e <= (l + new) * BlockSize
  BY <1>3, <1>7, <1>11
<1> QED BY <1>3, <1>6, <1>8, <1>9, <1>10, <1>12 DEF new, l, e, c

\* allocate_slots, as the proofs below use it.
LEMMA ScheduleEffect ==
  ASSUME IInv, NEW r \in Requests, NEW n, NEW hits, Schedules(r, n, hits)
  PROVE  LET end == numComputed[r] + Len(hits) * BlockSize + n
         IN  /\ BlocksInv' /\ Allocated(r, n, hits)
             /\ end \in Nat /\ end <= Len(Stream[r]) /\ end <= Len(reqBlocks'[r]) * BlockSize
             /\ NumFullBlocks(r, n, hits) * BlockSize <= end
<1>0. TypeOK /\ BlocksInv
  BY DEF IInv
<1>1. /\ hits \in Seq(Blocks) /\ n \in Nat \ {0} /\ IsInjective(hits)
      /\ \A i \in 1 .. Len(hits) : pool.hash[hits[i]] = Hash(r, i)
      /\ hits # << >> => reqBlocks[r] = << >> /\ numCachedBlock[r] = Untracked
      /\ numComputed[r] \in Nat /\ numTokens[r] \in Nat
      /\ numComputed[r] + Len(hits) * BlockSize + n <= numTokens[r]
      /\ AllocateSlots(r, n, hits) /\ CanAllocateSlots(r, n, hits)
      /\ reqBlocks[r] \in Seq(Blocks)
  BY <1>0 DEF Schedules, TypeOK, AllocateSlots
<1>2. numTokens[r] <= Len(Stream[r])
  <2>1. numTokens[r] \in PromptLen[r] .. Len(Stream[r])
    BY <1>0 DEF TypeOK
  <2> QED BY <2>1, RequestConstants
<1>3. BlocksInv' /\ Allocated(r, n, hits)
  BY <1>0, <1>1, <1>2, AllocatePreserves
<1> DEFINE end == numComputed[r] + Len(hits) * BlockSize + n
<1>4. /\ end \in Nat
      /\ end <= (Len(reqBlocks[r]) + Len(hits) + NumNewBlocks(r, n, hits)) * BlockSize
      /\ NumFullBlocks(r, n, hits) * BlockSize <= end
  BY <1>1, <1>2, EnoughBlocks
<1>5. Len(reqBlocks'[r]) = Len(reqBlocks[r]) + Len(hits) + NumNewBlocks(r, n, hits)
  BY <1>3 DEF Allocated
<1>6. end <= numTokens[r] /\ Len(Stream[r]) \in Nat
  BY <1>1, RequestConstants
<1> HIDE DEF end
<1>7. end <= Len(Stream[r])
  BY <1>1, <1>2, <1>4, <1>6
<1> QED BY <1>3, <1>4, <1>5, <1>7 DEF end

\* Scheduling takes back no write.
LEMMA WritesGrow ==
  ASSUME IInv, NEW r \in Requests, NEW n, NEW hits, Schedules(r, n, hits),
         Allocated(r, n, hits), NEW b, NEW o
  PROVE  Writes(b, o) \subseteq WrittenBy(reqBlocks', numComputed', numScheduled', b, o)
<1> SUFFICES ASSUME NEW x \in Writes(b, o)
             PROVE  x \in WrittenBy(reqBlocks', numComputed', numScheduled', b, o)
  OBVIOUS
<1>0. PICK s \in Requests : \E q \in Positions(s) : SlotOf(s, q) = <<b, o>> /\ x = KVAt(s, q)
  BY WritesFact
<1>1. PICK q \in Positions(s) : SlotOf(s, q) = <<b, o>> /\ x = KVAt(s, q)
  BY <1>0
<1>2. numComputed \in [Requests -> Nat] /\ numScheduled \in [Requests -> Nat]
  BY DEF IInv, TypeOK
<1>3. s # r
  BY <1>2 DEF Schedules, Positions
<1>4. /\ numComputed'[s] = numComputed[s] /\ numScheduled'[s] = numScheduled[s]
      /\ reqBlocks'[s] = reqBlocks[s]
  BY <1>2, <1>3 DEF Schedules, Allocated
<1>5. /\ q \in numComputed'[s] .. (numComputed'[s] + numScheduled'[s] - 1)
      /\ <<reqBlocks'[s][q \div BlockSize + 1], q % BlockSize>> = <<b, o>>
  BY <1>1, <1>4 DEF Positions, SlotOf
<1> QED BY <1>1, <1>5 DEF WrittenBy

\* The hashes of the blocks of r after it is scheduled.
LEMMA ScheduledHash ==
  ASSUME IInv, HashMatches, NEW r \in Requests, NEW n, NEW hits,
         Schedules(r, n, hits), Allocated(r, n, hits)
  PROVE  HashMatches'
<1> DEFINE o       == reqBlocks[r]
           blks    == reqBlocks'[r]
           new     == Range(NewBlocks(TouchedPool(hits), NumNewBlocks(r, n, hits)))
           first   == NumAlreadyCached(r, hits)
           last    == NumFullBlocks(r, n, hits)
           caching == EnableCaching /\ first < last
           newly   == {blks[i] : i \in (first + 1) .. last}
<1>1. /\ blks \in Seq(Blocks) /\ IsInjective(blks) /\ DOMAIN blks = 1 .. Len(blks)
      /\ Len(o) \in Nat /\ Len(hits) \in Nat /\ Len(blks) \in Nat
      /\ Len(o) + Len(hits) <= Len(blks)
      /\ first \in Nat /\ last \in Nat /\ last <= Len(blks)
  BY DEF Allocated
<1>2. \A i \in 1 .. Len(blks) :
         /\ i <= Len(o) => blks[i] = o[i]
         /\ i > Len(o) /\ i <= Len(o) + Len(hits) => blks[i] = hits[i - Len(o)]
         /\ i > Len(o) + Len(hits) => blks[i] \in new
  BY Zenon DEF Allocated
<1>3. /\ \A s \in Requests : s # r => reqBlocks'[s] = reqBlocks[s]
      /\ \A b \in new : b \in Blocks /\ \A s \in Requests : b \notin Range(reqBlocks[s])
      /\ \A b \in Range(hits) : b \in Blocks /\ b \notin Range(o) /\ pool.hash[b] \in Hashes
  BY Zenon DEF Allocated
<1>4. caching => \A i \in (first + 1) .. last :
                    /\ pool'.hash[blks[i]] = Hash(r, i)
                    /\ blks[i] \in new \/ pool.hash[blks[i]] = NoHash
  BY Zenon DEF Allocated
<1>5. \A b \in Blocks : ~(caching /\ b \in newly) =>
                           pool'.hash[b] = IF b \in new THEN NoHash ELSE pool.hash[b]
  BY Zenon DEF Allocated
<1>6. reqBlocks \in [Requests -> Seq(Blocks)] /\ UnhashedUnshared /\ DOMAIN o = 1 .. Len(o)
  BY LenProperties DEF IInv, BlocksInv
<1>7. /\ \A i \in 1 .. Len(hits) : pool.hash[hits[i]] = Hash(r, i)
      /\ Len(hits) # 0 => Len(o) = 0
  BY DEF Schedules
<1> HIDE DEF new, first, last, caching, blks
<1>8. ASSUME NEW i \in DOMAIN blks PROVE pool'.hash[blks[i]] \in {NoHash, Hash(r, i)}
  <2>1. i \in 1 .. Len(blks) /\ i \in Nat /\ blks[i] \in Blocks
    BY <1>1, ElementOfSeq
  <2>2. CASE caching /\ i \in (first + 1) .. last
    BY <2>2, <1>4
  <2>3. CASE ~(caching /\ i \in (first + 1) .. last)
    <3>1. ~(caching /\ blks[i] \in newly)
      <4> SUFFICES ASSUME caching, NEW k \in (first + 1) .. last, blks[i] = blks[k] PROVE FALSE
        OBVIOUS
      <4>1. k \in DOMAIN blks
        BY <1>1
      <4>2. i = k
        BY <4>1, <1>1 DEF IsInjective
      <4> QED BY <4>2, <2>3
    <3>2. pool'.hash[blks[i]] = IF blks[i] \in new THEN NoHash ELSE pool.hash[blks[i]]
      BY <3>1, <2>1, <1>5
    <3>3. CASE i <= Len(o)
      <4>1. blks[i] = o[i] /\ i \in DOMAIN o
        BY <3>3, <2>1, <1>1, <1>2, <1>6
      <4>2. pool.hash[o[i]] \in {NoHash, Hash(r, i)}
        BY <4>1 DEF HashMatches
      <4> QED BY <4>1, <4>2, <3>2
    <3>4. CASE i > Len(o) /\ i <= Len(o) + Len(hits)
      <4>1. Len(o) = 0 /\ i - Len(o) = i /\ i \in 1 .. Len(hits)
        BY <3>4, <2>1, <1>1, <1>7
      <4>2. blks[i] = hits[i]
        BY <4>1, <3>4, <2>1, <1>2
      <4> QED BY <4>1, <4>2, <3>2, <1>7
    <3>5. CASE i > Len(o) + Len(hits)
      BY <3>2, <3>5, <2>1, <1>2
    <3> QED BY <3>3, <3>4, <3>5, <2>1, <1>1
  <2> QED BY <2>2, <2>3
<1>9. ASSUME NEW s \in Requests, s # r, NEW i \in DOMAIN reqBlocks[s]
      PROVE  pool'.hash[reqBlocks[s][i]] \in {NoHash, Hash(s, i)}
  <2> DEFINE b == reqBlocks[s][i]
  <2>1. b \in Range(reqBlocks[s]) /\ b \in Blocks
    BY <1>6, LenProperties, ElementOfSeq DEF Range
  <2>2. b \notin new
    BY <2>1, <1>3
  <2>3. ~(caching /\ b \in newly)
    <3> SUFFICES ASSUME caching, NEW k \in (first + 1) .. last, b = blks[k] PROVE FALSE
      OBVIOUS
    <3>1. pool.hash[b] = NoHash /\ k \in 1 .. Len(blks) /\ k \in Nat
      BY <2>2, <1>1, <1>4
    <3>2. k <= Len(o)
      <4>1. CASE k > Len(o) /\ k <= Len(o) + Len(hits)
        <5>1. k - Len(o) \in DOMAIN hits
          BY <4>1, <3>1, <1>1, LenProperties DEF Schedules
        <5>2. b \in Range(hits)
          BY <5>1, <4>1, <3>1, <1>2 DEF Range
        <5> QED BY <5>2, <3>1, <1>3, PoolAssumption
      <4>2. CASE k > Len(o) + Len(hits)
        BY <4>2, <3>1, <2>2, <1>2
      <4> QED BY <4>1, <4>2, <3>1, <1>1
    <3>3. b \in Range(o)
      <4>1. k \in DOMAIN o /\ b = o[k]
        BY <3>1, <3>2, <1>2, <1>6
      <4> QED BY <4>1 DEF Range
    <3> QED BY <3>1, <3>3, <2>1, <1>6, <1>9 DEF UnhashedUnshared
  <2>4. pool.hash[b] \in {NoHash, Hash(s, i)}
    BY DEF HashMatches
  <2> HIDE DEF b, newly
  <2>5. pool'.hash[b] = pool.hash[b]
    BY <2>1, <2>2, <2>3, <1>5
  <2> QED BY <2>4, <2>5 DEF b
<1> QED BY <1>3, <1>8, <1>9 DEF HashMatches, Hash, blks

\* Scheduling keeps the contents correct: what r finds computed, in its own
\* blocks or in its hits, is there or is being written, and the blocks it
\* announces as cached are full when the step has run.
LEMMA ScheduleContents ==
  ASSUME IInv, ContentsInv, NEW r \in Requests, NEW n, NEW hits, Schedules(r, n, hits)
  PROVE  ContentsInv'
<1> DEFINE o       == reqBlocks[r]
           blks    == reqBlocks'[r]
           new     == Range(NewBlocks(TouchedPool(hits), NumNewBlocks(r, n, hits)))
           first   == NumAlreadyCached(r, hits)
           last    == NumFullBlocks(r, n, hits)
           caching == EnableCaching /\ first < last
           newly   == {blks[i] : i \in (first + 1) .. last}
           done    == numComputed[r] + Len(hits) * BlockSize
           end     == done + n
           W(b, x) == WrittenBy(reqBlocks', numComputed', numScheduled', b, x)
<1>0. /\ TypeOK /\ BlocksInv /\ ClientInv
      /\ Capacity /\ HashMatches /\ CachedContents /\ KVContentsCorrect
  BY DEF IInv, ContentsInv
<1>1. /\ Allocated(r, n, hits)
      /\ end \in Nat /\ end <= Len(Stream[r]) /\ end <= Len(blks) * BlockSize
      /\ last * BlockSize <= end
  BY ScheduleEffect
<1>2. /\ numComputed \in [Requests -> Nat] /\ numScheduled \in [Requests -> Nat]
      /\ status \in [Requests -> {"waiting", "running", "finished"}]
      /\ o \in Seq(Blocks) /\ BlockSize \in Nat \ {0} /\ n \in Nat \ {0}
  BY <1>0, RequestConstants DEF TypeOK, Schedules
<1>3. /\ Len(o) \in Nat /\ Len(hits) \in Nat /\ Len(blks) \in Nat
      /\ Len(o) + Len(hits) <= Len(blks) /\ DOMAIN blks = 1 .. Len(blks)
      /\ first \in Nat /\ last \in Nat /\ last <= Len(blks)
      /\ blks \in Seq(Blocks)
      /\ last <= NumHashes(r)
  BY <1>1 DEF Allocated, NumHashes
<1>4. \A i \in 1 .. Len(blks) :
         /\ i <= Len(o) => blks[i] = o[i]
         /\ i > Len(o) /\ i <= Len(o) + Len(hits) => blks[i] = hits[i - Len(o)]
  BY <1>1, Zenon DEF Allocated
<1>5. /\ caching => \A i \in (first + 1) .. last : pool'.hash[blks[i]] = Hash(r, i)
      /\ \A b \in Blocks : ~(caching /\ b \in newly) =>
                             pool'.hash[b] = IF b \in new THEN NoHash ELSE pool.hash[b]
      /\ \A s \in Requests : s # r => reqBlocks'[s] = reqBlocks[s]
  BY <1>1, Zenon DEF Allocated
<1>6. /\ \A i \in 1 .. Len(hits) : pool.hash[hits[i]] = Hash(r, i)
      /\ hits # << >> => Len(o) = 0 /\ numComputed[r] = 0
      /\ numComputed[r] = 0 \/ status[r] = "running"
      /\ numScheduled[r] = 0 /\ content' = content
      /\ numScheduled' = [numScheduled EXCEPT ![r] = n]
      /\ numComputed' = [numComputed EXCEPT ![r] = done]
      /\ status' = [status EXCEPT ![r] = "running"]
  BY DEF Schedules
<1>7. hits # << >> => first = Len(hits)
  BY DEF NumAlreadyCached
<1>8. done \in Nat /\ numComputed[r] \in Nat /\ (hits = << >> => done = numComputed[r])
      /\ (hits # << >> => done = Len(hits) * BlockSize)
  <2> DEFINE h == Len(hits) * BlockSize
  <2>1. h \in Nat /\ (hits = << >> => h = 0)
    BY <1>2, <1>3
  <2> HIDE DEF h
  <2>2. numComputed[r] + h \in Nat /\ (h = 0 => numComputed[r] + h = numComputed[r])
        /\ (numComputed[r] = 0 => numComputed[r] + h = h) /\ numComputed[r] \in Nat
    BY <2>1, <1>2
  <2> QED BY <2>1, <2>2, <1>6 DEF h
<1>9. HashMatches'
  BY <1>0, <1>1, ScheduledHash
<1>10. \A b, x : Writes(b, x) \subseteq W(b, x)
  BY <1>1, WritesGrow
<1> HIDE DEF new, first, last, caching, blks, done, W
<1>11. Capacity'
  <2>1. ASSUME NEW s \in Requests, s # r, status'[s] = "running"
        PROVE  numComputed'[s] + numScheduled'[s] <= Len(reqBlocks'[s]) * BlockSize
    BY <2>1, <1>0, <1>2, <1>5, <1>6 DEF Capacity
  <2>2. numComputed'[r] + numScheduled'[r] <= Len(reqBlocks'[r]) * BlockSize
    BY <1>1, <1>2, <1>6 DEF blks
  <2> QED BY <2>1, <2>2 DEF Capacity
\* The positions of r that are computed in this step.
<1>12. ASSUME NEW pos \in Nat, done <= pos, pos < end
       PROVE  KVAt(r, pos) \in W(blks[pos \div BlockSize + 1], pos % BlockSize)
  <2>1. pos \in numComputed'[r] .. (numComputed'[r] + numScheduled'[r] - 1)
    BY <1>2, <1>6, <1>8, <1>12
  <2> QED BY <2>1 DEF WrittenBy, W, blks
\* The positions of r that it had computed before.
<1>13. ASSUME NEW pos \in Nat, pos < numComputed[r]
       PROVE  /\ content[blks[pos \div BlockSize + 1]][pos % BlockSize] = KVAt(r, pos)
              /\ pos \div BlockSize + 1 <= Len(o)
  <2>1. status[r] = "running" /\ pos \in 0 .. (numComputed[r] - 1)
    BY <1>6, <1>8, <1>13
  <2>2. content[SlotOf(r, pos)[1]][SlotOf(r, pos)[2]] = KVAt(r, pos)
    BY <2>1, <1>0, <1>6 DEF KVContentsCorrect
  <2>3. pos \div BlockSize + 1 \in 1 .. Len(o)
    <3>1. pos < numComputed[r] + numScheduled[r]
      BY <1>6, <1>8, <1>13
    <3>2. pos \div BlockSize + 1 \in DOMAIN o /\ DOMAIN o = 1 .. Len(o)
      BY <3>1, <2>1, <1>0, PositionsFact
    <3> QED BY <3>2
  <2>4. blks[pos \div BlockSize + 1] = o[pos \div BlockSize + 1]
    BY <2>3, <1>3, <1>4
  <2> QED BY <2>2, <2>3, <2>4, <1>3 DEF SlotOf
<1>14. CachedContents'
  <2>1. ASSUME NEW b \in Blocks, NEW s \in Requests, NEW i \in 1 .. NumHashes(s),
               pool'.hash[b] = Hash(s, i), NEW x \in Slots
        PROVE  LET kv == KVAt(s, (i - 1) * BlockSize + x)
               IN  content[b][x] = kv \/ kv \in W(b, x)
    <3> DEFINE kv == KVAt(s, (i - 1) * BlockSize + x)
    <3>0. i \in Nat \ {0} /\ Hash(s, i) # NoHash
      BY FullBlocks
    <3>1. CASE caching /\ b \in newly
      <4>1. PICK k \in (first + 1) .. last : b = blks[k]
        BY <3>1
      <4>2. k \in Nat \ {0} /\ k > first /\ k <= last
        BY <1>3
      <4>3. Hash(r, k) = Hash(s, i)
        BY <2>1, <3>1, <4>1, <1>5
      <4> DEFINE pos == (k - 1) * BlockSize + x
      <4>4. kv = KVAt(r, pos)
        BY <3>0, <4>2, <4>3, SameHash
      <4>5. /\ pos \in Nat /\ pos \div BlockSize + 1 = k /\ pos % BlockSize = x
            /\ pos < k * BlockSize /\ (k - 1) * BlockSize <= pos
        <5>1. x \in Nat /\ x < BlockSize
          BY <1>2 DEF Slots
        <5> QED BY <5>1, <4>2, <1>2, PositionInBlock
      <4>6. pos < end
        <5>1. k * BlockSize <= last * BlockSize /\ k * BlockSize \in Nat /\ last * BlockSize \in Nat
          BY <4>2, <1>2, <1>3
        <5> HIDE DEF pos
        <5> QED BY <5>1, <4>5, <1>1
      <4> HIDE DEF pos
      <4>7. CASE done <= pos
        <5>1. KVAt(r, pos) \in W(blks[pos \div BlockSize + 1], pos % BlockSize)
          BY <4>5, <4>6, <4>7, <1>12
        <5>2. KVAt(r, pos) \in W(b, x)
          BY <5>1, <4>1, <4>5
        <5> QED BY <5>2, <4>4
      <4>8. CASE ~(done <= pos)
        <5>1. hits = << >>
          <6> SUFFICES ASSUME hits # << >> PROVE FALSE
            OBVIOUS
          <6>1. Len(hits) <= k - 1 /\ done = Len(hits) * BlockSize
            BY <4>2, <1>3, <1>7, <1>8
          <6>2. Len(hits) * BlockSize <= (k - 1) * BlockSize /\ (k - 1) * BlockSize \in Nat
            <7>1. k - 1 \in Nat
              BY <4>2
            <7> QED BY <6>1, <7>1, <1>2, <1>3, TimesBlockSize
          <6> QED BY <6>1, <6>2, <4>5, <4>8, <1>8
        <5>2. pos < numComputed[r]
          BY <5>1, <4>5, <4>8, <1>8
        <5>3. content[blks[pos \div BlockSize + 1]][pos % BlockSize] = KVAt(r, pos)
          BY <5>2, <4>5, <1>13
        <5>4. content[b][x] = KVAt(r, pos)
          BY <5>3, <4>1, <4>5
        <5> QED BY <5>4, <4>4
      <4> QED BY <4>7, <4>8
    <3>2. CASE ~(caching /\ b \in newly)
      <4>1. pool.hash[b] = Hash(s, i)
        <5> HIDE DEF newly
        <5> QED BY <3>0, <3>2, <2>1, <1>5
      <4>2. content[b][x] = kv \/ kv \in Writes(b, x)
        BY <4>1, <1>0 DEF CachedContents
      <4> QED BY <4>2, <1>10
    <3> QED BY <3>1, <3>2
  <2>2. content' = content
    BY <1>6
  <2> HIDE DEF newly
  <2> QED BY <2>1, <2>2 DEF CachedContents, KVAt, Hash, NumHashes, W, WrittenBy, Writes, Positions, SlotOf
<1>15. KVContentsCorrect'
  <2>1. ASSUME NEW s \in Requests, s # r, status'[s] = "running", NEW pos \in 0 .. (numComputed'[s] - 1)
        PROVE  \/ content[reqBlocks'[s][pos \div BlockSize + 1]][pos % BlockSize] = KVAt(s, pos)
               \/ /\ numScheduled'[s] > 0
                  /\ KVAt(s, pos) \in W(reqBlocks'[s][pos \div BlockSize + 1], pos % BlockSize)
    <3>1. /\ status[s] = "running" /\ pos \in 0 .. (numComputed[s] - 1)
          /\ numScheduled'[s] = numScheduled[s]
      BY <2>1, <1>2, <1>6
    <3>2. reqBlocks'[s] = reqBlocks[s]
      BY <2>1, <1>5
    <3>3. \/ content[reqBlocks[s][pos \div BlockSize + 1]][pos % BlockSize] = KVAt(s, pos)
          \/ /\ numScheduled[s] > 0
             /\ KVAt(s, pos) \in Writes(reqBlocks[s][pos \div BlockSize + 1], pos % BlockSize)
      BY <3>1, <1>0 DEF KVContentsCorrect, SlotOf
    <3> QED BY <3>1, <3>2, <3>3, <1>10
  <2>2. ASSUME NEW pos \in 0 .. (done - 1)
        PROVE  LET b == blks[pos \div BlockSize + 1]
                   x == pos % BlockSize
               IN  content[b][x] = KVAt(r, pos) \/ KVAt(r, pos) \in W(b, x)
    <3>1. pos \in Nat /\ pos < done
      BY <1>8
    <3>2. CASE hits = << >>
      BY <3>1, <3>2, <1>8, <1>13
    <3>3. CASE hits # << >>
      <4> DEFINE i == pos \div BlockSize + 1
                 x == pos % BlockSize
      <4>1. pos < Len(hits) * BlockSize
        BY <3>1, <3>3, <1>8
      <4>2. i \in 1 .. Len(hits) /\ x \in Slots /\ pos = (i - 1) * BlockSize + x
        BY <3>1, <4>1, <1>3, BlockIndex, SlotIndex
      <4> HIDE DEF i, x
      <4>3. blks[i] = hits[i] /\ i \in 1 .. Len(blks)
        <5>1. Len(o) = 0 /\ i \in 1 .. Len(blks) /\ i > Len(o) /\ i <= Len(o) + Len(hits)
              /\ i - Len(o) = i
          BY <3>3, <4>2, <1>3, <1>6
        <5> QED BY <5>1, <1>4
      <4>4. pool.hash[blks[i]] = Hash(r, i) /\ blks[i] \in Blocks
        BY <4>2, <4>3, <1>3, <1>6, ElementOfSeq
      <4>5. i \in 1 .. NumHashes(r)
        <5>1. i * BlockSize <= Len(hits) * BlockSize /\ i * BlockSize \in Nat
              /\ Len(hits) * BlockSize \in Nat /\ i \in Nat
          <6>1. i \in Nat /\ i <= Len(hits)
            BY <4>2, <1>3
          <6> QED BY <6>1, <1>2, <1>3, TimesBlockSize
        <5>2. Len(hits) * BlockSize <= Len(Stream[r])
          <6>1. end <= Len(Stream[r]) /\ done = Len(hits) * BlockSize /\ Len(Stream[r]) \in Nat
            BY <3>3, <1>1, <1>8, RequestConstants
          <6> QED BY <6>1, <1>2, <1>8
        <5>3. i * BlockSize <= Len(Stream[r])
          BY <5>1, <5>2, RequestConstants
        <5>4. i <= NumHashes(r) /\ NumHashes(r) \in Nat
          BY <5>1, <5>3, FullBlocks
        <5> QED BY <5>4, <4>2, <1>3
      <4>6. content[blks[i]][x] = KVAt(r, pos) \/ KVAt(r, pos) \in Writes(blks[i], x)
        BY <4>2, <4>4, <4>5, <1>0 DEF CachedContents
      <4> QED BY <4>6, <1>10 DEF i, x
    <3> QED BY <3>2, <3>3
  <2>3. ASSUME NEW pos \in 0 .. (numComputed'[r] - 1)
        PROVE  \/ content[reqBlocks'[r][pos \div BlockSize + 1]][pos % BlockSize] = KVAt(r, pos)
               \/ /\ numScheduled'[r] > 0
                  /\ KVAt(r, pos) \in W(reqBlocks'[r][pos \div BlockSize + 1], pos % BlockSize)
    <3>1. numComputed'[r] = done /\ numScheduled'[r] > 0
      BY <1>2, <1>6
    <3> QED BY <3>1, <2>2 DEF blks
  <2>4. ASSUME NEW s \in Requests, status'[s] = "running", NEW pos \in 0 .. (numComputed'[s] - 1)
        PROVE  \/ content[reqBlocks'[s][pos \div BlockSize + 1]][pos % BlockSize] = KVAt(s, pos)
               \/ /\ numScheduled'[s] > 0
                  /\ KVAt(s, pos) \in W(reqBlocks'[s][pos \div BlockSize + 1], pos % BlockSize)
    BY <2>1, <2>3, <2>4
  <2>5. content' = content
    BY <1>6
  <2> QED BY <2>4, <2>5 DEF KVContentsCorrect, KVAt, W, WrittenBy, Writes, Positions, SlotOf
<1> QED BY <1>9, <1>11, <1>14, <1>15 DEF ContentsInv

-----------------------------------------------------------------------------
(* Requests are released, the cache is reset                               *)

\* A request that writes nothing in the step can be preempted or finished: the
\* blocks it gives back keep hash and contents, and the others keep theirs.
LEMMA ReleaseContents ==
  ASSUME IInv, ContentsInv, NEW r \in Requests, Preempt(r) \/ Finish(r)
  PROVE  ContentsInv'
<1> DEFINE W(b, x) == WrittenBy(reqBlocks', numComputed', numScheduled', b, x)
<1>1. /\ numComputed \in [Requests -> Nat] /\ numScheduled \in [Requests -> Nat]
      /\ status \in [Requests -> {"waiting", "running", "finished"}]
      /\ reqBlocks \in [Requests -> Seq(Blocks)]
      /\ Capacity /\ HashMatches /\ CachedContents /\ KVContentsCorrect
  BY DEF IInv, TypeOK, ContentsInv
<1>2. /\ numScheduled[r] = 0 /\ numScheduled' = numScheduled /\ content' = content
      /\ reqBlocks' = [reqBlocks EXCEPT ![r] = << >>] /\ pool'.hash = pool.hash
      /\ status' = [status EXCEPT ![r] = "waiting"] \/ status' = [status EXCEPT ![r] = "finished"]
      /\ numComputed' = [numComputed EXCEPT ![r] = 0] \/ numComputed' = numComputed
  <2>1. CASE Preempt(r)
    BY <2>1 DEF Preempt, Free, FreeBlocks
  <2>2. CASE Finish(r)
    BY <2>2 DEF Finish, Free, FreeBlocks
  <2> QED BY <2>1, <2>2
<1>3. \A s \in Requests : s # r => /\ status'[s] = status[s] /\ numComputed'[s] = numComputed[s]
                                   /\ numScheduled'[s] = numScheduled[s]
                                   /\ reqBlocks'[s] = reqBlocks[s]
  BY <1>1, <1>2
<1>4. status'[r] # "running" /\ DOMAIN reqBlocks'[r] = {}
  BY <1>1, <1>2
<1>5. ASSUME NEW b, NEW x PROVE Writes(b, x) \subseteq W(b, x)
  <2> SUFFICES ASSUME NEW kv \in Writes(b, x) PROVE kv \in W(b, x)
    OBVIOUS
  <2>1. PICK s \in Requests : \E q \in Positions(s) : SlotOf(s, q) = <<b, x>> /\ kv = KVAt(s, q)
    BY WritesFact
  <2>2. PICK q \in Positions(s) : SlotOf(s, q) = <<b, x>> /\ kv = KVAt(s, q)
    BY <2>1
  <2>3. s # r
    BY <1>1, <1>2 DEF Positions
  <2>4. /\ q \in numComputed'[s] .. (numComputed'[s] + numScheduled'[s] - 1)
        /\ <<reqBlocks'[s][q \div BlockSize + 1], q % BlockSize>> = <<b, x>>
    BY <2>2, <2>3, <1>3 DEF Positions, SlotOf
  <2> QED BY <2>2, <2>4 DEF WrittenBy
<1> HIDE DEF W
<1>6. Capacity'
  BY <1>1, <1>3, <1>4 DEF Capacity
<1>7. HashMatches'
  <2>1. ASSUME NEW s \in Requests, NEW i \in DOMAIN reqBlocks'[s]
        PROVE  pool'.hash[reqBlocks'[s][i]] \in {NoHash, Hash(s, i)}
    <3>1. s # r
      BY <1>4
    <3>2. reqBlocks'[s] = reqBlocks[s] /\ i \in DOMAIN reqBlocks[s]
      BY <3>1, <1>3
    <3> QED BY <3>2, <1>1, <1>2 DEF HashMatches
  <2> QED BY <2>1 DEF HashMatches, Hash
<1>8. CachedContents'
  <2>1. ASSUME NEW b \in Blocks, NEW s \in Requests, NEW i \in 1 .. NumHashes(s),
               pool'.hash[b] = Hash(s, i), NEW x \in Slots
        PROVE  LET kv == KVAt(s, (i - 1) * BlockSize + x)
               IN  content[b][x] = kv \/ kv \in W(b, x)
    <3>1. pool.hash[b] = Hash(s, i)
      BY <2>1, <1>2
    <3>2. LET kv == KVAt(s, (i - 1) * BlockSize + x)
          IN  content[b][x] = kv \/ kv \in Writes(b, x)
      BY <3>1, <1>1 DEF CachedContents
    <3> QED BY <3>2, <1>5
  <2>2. \A b, x : Writes(b, x)' = W(b, x)
    BY DEF W, WrittenBy, Writes, Positions, SlotOf, KVAt
  <2> QED BY <2>1, <2>2, <1>2 DEF CachedContents, KVAt, Hash, NumHashes
<1>9. KVContentsCorrect'
  <2>1. ASSUME NEW s \in Requests, status'[s] = "running", NEW pos \in 0 .. (numComputed'[s] - 1)
        PROVE  \/ content[reqBlocks'[s][pos \div BlockSize + 1]][pos % BlockSize] = KVAt(s, pos)
               \/ /\ numScheduled'[s] > 0
                  /\ KVAt(s, pos) \in W(reqBlocks'[s][pos \div BlockSize + 1], pos % BlockSize)
    <3>1. s # r
      BY <2>1, <1>4
    <3>2. /\ status[s] = "running" /\ pos \in 0 .. (numComputed[s] - 1)
          /\ reqBlocks'[s] = reqBlocks[s] /\ numScheduled'[s] = numScheduled[s]
      BY <2>1, <3>1, <1>3
    <3>3. \/ content[reqBlocks[s][pos \div BlockSize + 1]][pos % BlockSize] = KVAt(s, pos)
          \/ /\ numScheduled[s] > 0
             /\ KVAt(s, pos) \in Writes(reqBlocks[s][pos \div BlockSize + 1], pos % BlockSize)
      BY <3>2, <1>1 DEF KVContentsCorrect, SlotOf
    <3> QED BY <3>2, <3>3, <1>5
  <2> QED BY <2>1, <1>2 DEF KVContentsCorrect, KVAt, W, WrittenBy, Writes, Positions, SlotOf
<1> QED BY <1>6, <1>7, <1>8, <1>9 DEF ContentsInv

\* A step that leaves the lists, the counts and the memory alone keeps the
\* contents of the running requests.
LEMMA SameContents ==
  ASSUME KVContentsCorrect, reqBlocks' = reqBlocks, status' = status, content' = content,
         numComputed' = numComputed, numScheduled' = numScheduled
  PROVE  /\ KVContentsCorrect'
         /\ pool' = pool /\ CachedContents => CachedContents'
<1> DEFINE W(b, x) == WrittenBy(reqBlocks', numComputed', numScheduled', b, x)
<1>1. \A b, x : Writes(b, x) = W(b, x)
  BY DEF WrittenBy, Writes, Positions, SlotOf
<1> HIDE DEF W
<1>2. KVContentsCorrect'
  <2>1. ASSUME NEW s \in Requests, status'[s] = "running", NEW pos \in 0 .. (numComputed'[s] - 1)
        PROVE  \/ content[reqBlocks'[s][pos \div BlockSize + 1]][pos % BlockSize] = KVAt(s, pos)
               \/ /\ numScheduled'[s] > 0
                  /\ KVAt(s, pos) \in W(reqBlocks'[s][pos \div BlockSize + 1], pos % BlockSize)
    <3>1. \/ content[reqBlocks[s][pos \div BlockSize + 1]][pos % BlockSize] = KVAt(s, pos)
          \/ /\ numScheduled[s] > 0
             /\ KVAt(s, pos) \in Writes(reqBlocks[s][pos \div BlockSize + 1], pos % BlockSize)
      BY <2>1 DEF KVContentsCorrect, SlotOf
    <3> QED BY <3>1, <1>1
  <2>2. \A b, x : Writes(b, x)' = W(b, x)
    BY DEF W, WrittenBy, Writes, Positions, SlotOf, KVAt
  <2> QED BY <2>1, <2>2 DEF KVContentsCorrect, KVAt, SlotOf
<1>3. ASSUME pool' = pool, CachedContents PROVE CachedContents'
  <2>1. ASSUME NEW b \in Blocks, NEW s \in Requests, NEW i \in 1 .. NumHashes(s),
               pool'.hash[b] = Hash(s, i), NEW x \in Slots
        PROVE  LET kv == KVAt(s, (i - 1) * BlockSize + x)
               IN  content[b][x] = kv \/ kv \in W(b, x)
    <3>1. LET kv == KVAt(s, (i - 1) * BlockSize + x)
          IN  content[b][x] = kv \/ kv \in Writes(b, x)
      BY <2>1, <1>3 DEF CachedContents
    <3> QED BY <3>1, <1>1
  <2> QED BY <2>1 DEF CachedContents, KVAt, Hash, NumHashes, W, WrittenBy, Writes, Positions, SlotOf
<1> QED BY <1>2, <1>3

\* After a reset no block has a hash, and the lists are as they were.
LEMMA ResetContents ==
  ASSUME IInv, ContentsInv, Reset
  PROVE  ContentsInv'
<1>1. /\ Capacity /\ HashMatches /\ KVContentsCorrect
      /\ reqBlocks \in [Requests -> Seq(Blocks)]
  BY DEF IInv, TypeOK, ContentsInv
<1>2. /\ reqBlocks' = reqBlocks /\ status' = status /\ numComputed' = numComputed
      /\ numScheduled' = numScheduled /\ content' = content
      /\ \A b \in Blocks : pool'.hash[b] = NoHash
  BY DEF Reset, requestVars, ResetPrefixCache
<1>3. Capacity' /\ KVContentsCorrect'
  <2>1. Capacity'
    BY <1>1, <1>2 DEF Capacity
  <2>2. KVContentsCorrect'
    BY <1>1, <1>2, SameContents
  <2> QED BY <2>1, <2>2
<1>4. HashMatches'
  <2>1. \A s \in Requests : \A i \in DOMAIN reqBlocks[s] : reqBlocks[s][i] \in Blocks
    BY <1>1, LenProperties, ElementOfSeq
  <2> QED BY <2>1, <1>2 DEF HashMatches
<1>5. CachedContents'
  <2>1. \A b \in Blocks, s \in Requests : \A i \in 1 .. NumHashes(s) : pool'.hash[b] # Hash(s, i)
    BY <1>2, FullBlocks
  <2> QED BY <2>1 DEF CachedContents, NumHashes, Hash
<1> QED BY <1>3, <1>4, <1>5 DEF ContentsInv

-----------------------------------------------------------------------------
(* The theorems                                                            *)

\* The contents are correct before the first request is scheduled.
LEMMA InitContents == Init => ContentsInv
<1> SUFFICES ASSUME Init PROVE ContentsInv
  OBVIOUS
<1>1. /\ \A b \in Blocks : pool.hash[b] = NoHash
      /\ \A r \in Requests : status[r] = "waiting" /\ DOMAIN reqBlocks[r] = {}
  BY DEF Init, InitPool
<1>2. \A b \in Blocks, s \in Requests : \A i \in 1 .. NumHashes(s) : pool.hash[b] # Hash(s, i)
  BY <1>1, FullBlocks
<1> QED BY <1>1, <1>2 DEF ContentsInv, Capacity, HashMatches, CachedContents, KVContentsCorrect

\* Every step keeps the contents correct.
LEMMA NextContents == IInv /\ ContentsInv /\ [Next]_vars => ContentsInv'
<1> SUFFICES ASSUME IInv, ContentsInv, [Next]_vars PROVE ContentsInv'
  OBVIOUS
<1>1. ASSUME NEW r \in Requests, ScheduleWaiting(r) \/ ScheduleRunning(r) PROVE ContentsInv'
  <2>1. PICK n, hits : Schedules(r, n, hits)
    BY <1>1, ScheduleStep
  <2> QED BY <2>1, ScheduleContents
<1>2. ASSUME NEW r \in Requests, Preempt(r) \/ Finish(r) PROVE ContentsInv'
  BY <1>2, ReleaseContents
<1>3. CASE Execute
  BY <1>3, ExecuteContents
<1>4. CASE Reset
  BY <1>4, ResetContents
<1>5. CASE UNCHANGED vars
  <2>1. /\ pool' = pool /\ reqBlocks' = reqBlocks /\ status' = status /\ content' = content
        /\ numComputed' = numComputed /\ numScheduled' = numScheduled
    BY <1>5 DEF vars, managerVars, requestVars
  <2>2. Capacity' /\ HashMatches'
    BY <2>1 DEF ContentsInv, Capacity, HashMatches, Hash
  <2>3. CachedContents' /\ KVContentsCorrect'
    BY <2>1, SameContents DEF ContentsInv
  <2> QED BY <2>2, <2>3 DEF ContentsInv
<1> QED BY <1>1, <1>2, <1>3, <1>4, <1>5 DEF Next

\* The bookkeeping and the contents together are an invariant of the manager.
THEOREM ContentsInvariance == Spec => [](IInv /\ ContentsInv)
<1>1. Init => IInv /\ ContentsInv
  BY InitIInv, InitContents
<1>2. IInv /\ ContentsInv /\ [Next]_vars => IInv' /\ ContentsInv'
  BY NextIInv, NextContents
<1> QED BY <1>1, <1>2, PTL DEF Spec

\* Prefix caching is correct: for any requests, streams, block size and pool
\* size, whatever is shared, evicted, preempted and reallocated, every computed
\* position of a running request has that request's own KV in its slot.
THEOREM ContentsAreCorrect == Spec => []KVContentsCorrect
<1>1. IInv /\ ContentsInv => KVContentsCorrect
  BY DEF ContentsInv
<1> QED BY <1>1, ContentsInvariance, PTL

\* Two requests scheduled in one step, which may share blocks, never write
\* different KV to one slot.
THEOREM WritesAgree == Spec => []NoConflictingWrites
<1>1. ASSUME IInv, ContentsInv, NEW b \in Blocks, NEW o \in Slots
      PROVE  Cardinality(Writes(b, o)) <= 1
  <2>1. CASE Writes(b, o) = {}
    <3>1. Cardinality({}) = 0
      BY FS_EmptySet
    <3> QED BY <2>1, <3>1
  <2>2. ASSUME NEW x \in Writes(b, o) PROVE Cardinality(Writes(b, o)) <= 1
    <3>0. TypeOK /\ ClientInv /\ Capacity /\ HashMatches
      BY <1>1 DEF IInv, ContentsInv
    <3>1. PICK s \in Requests : \E q \in Positions(s) : SlotOf(s, q) = <<b, o>> /\ x = KVAt(s, q)
      BY <2>2, WritesFact
    <3>2. PICK q \in Positions(s) : SlotOf(s, q) = <<b, o>> /\ x = KVAt(s, q)
      BY <3>1
    <3>3. status[s] = "running" /\ q \in Nat /\ q < numComputed[s] + numScheduled[s]
      BY <3>0, <3>2, PositionsFact
    <3>4. \A y \in Writes(b, o) : y = KVAt(s, q)
      BY <1>1, <3>0, <3>2, <3>3, OneWrite
    <3>5. Writes(b, o) = {x}
      BY <2>2, <3>2, <3>4
    <3>6. Cardinality({x}) = 1
      BY FS_Singleton
    <3> QED BY <3>5, <3>6
  <2> QED BY <2>1, <2>2
<1>2. IInv /\ ContentsInv => NoConflictingWrites
  BY <1>1 DEF NoConflictingWrites
<1> QED BY <1>2, ContentsInvariance, PTL

\* Once the capacity check of allocate_slots has passed, nothing after it raises:
\* the pool has the blocks even after the hits have left the free queue, they
\* are referenced by nobody, and no block to be hashed has a hash already.
THEOREM AllocationIsSafe == Spec => []AllocationNeverRaises
<1>1. ASSUME IInv, NEW r \in Requests, status[r] # "finished", numScheduled[r] = 0
      PROVE  LET hits == IF status[r] = "waiting" THEN GetComputedBlocks(r) ELSE << >>
                 done == numComputed[r] + Len(hits) * BlockSize
             IN  \A n \in 1 .. (numTokens[r] - done) :
                   CanAllocateSlots(r, n, hits) =>
                     LET touched == TouchedPool(hits)
                         new     == NumNewBlocks(r, n, hits)
                         taken   == GetNewBlocks(touched, new)
                         blks    == reqBlocks[r] \o hits \o NewBlocks(touched, new)
                     IN  /\ CanGetNewBlocks(touched, new)
                         /\ \A b \in Range(NewBlocks(touched, new)) : touched.ref[b] = 0
                         /\ NumFullBlocks(r, n, hits) <= Len(blks)
                         /\ \A i \in (NumAlreadyCached(r, hits) + 1) .. NumFullBlocks(r, n, hits) :
                              taken.hash[blks[i]] = NoHash
  <2> DEFINE hits == IF status[r] = "waiting" THEN GetComputedBlocks(r) ELSE << >>
             done == numComputed[r] + Len(hits) * BlockSize
  <2>1. /\ TypeOK /\ BlocksInv /\ ClientInv
        /\ numComputed[r] \in Nat /\ numTokens[r] \in 1 .. Len(Stream[r])
        /\ pool \in PoolType /\ MapExact(pool) /\ Len(Stream[r]) \in Nat
        /\ BlockSize \in Nat \ {0}
    <3>1. TypeOK /\ BlocksInv /\ ClientInv
      BY <1>1 DEF IInv
    <3>2. numComputed[r] \in Nat /\ numTokens[r] \in PromptLen[r] .. Len(Stream[r])
      BY <3>1 DEF TypeOK
    <3>3. pool \in PoolType /\ MapExact(pool)
      BY <3>1 DEF BlocksInv, CacheMapExact
    <3> QED BY <3>1, <3>2, <3>3, RequestConstants
  <2>2. /\ hits \in Seq(Blocks) /\ IsInjective(hits)
        /\ \A i \in 1 .. Len(hits) : pool.hash[hits[i]] = Hash(r, i)
        /\ hits # << >> => reqBlocks[r] = << >> /\ numCachedBlock[r] = Untracked
    <3>1. CASE status[r] = "waiting"
      BY <3>1, <2>1, HitProperties DEF ClientInv
    <3>2. CASE status[r] # "waiting"
      BY <3>2 DEF IsInjective
    <3> QED BY <3>1, <3>2
  <2>3. Len(hits) \in Nat
    BY <2>2, LenProperties
  <2> HIDE DEF hits
  <2>4. SUFFICES ASSUME NEW n \in 1 .. (numTokens[r] - done), CanAllocateSlots(r, n, hits)
                 PROVE  LET touched == TouchedPool(hits)
                            new     == NumNewBlocks(r, n, hits)
                            taken   == GetNewBlocks(touched, new)
                            blks    == reqBlocks[r] \o hits \o NewBlocks(touched, new)
                        IN  /\ CanGetNewBlocks(touched, new)
                            /\ \A b \in Range(NewBlocks(touched, new)) : touched.ref[b] = 0
                            /\ NumFullBlocks(r, n, hits) <= Len(blks)
                            /\ \A i \in (NumAlreadyCached(r, hits) + 1) .. NumFullBlocks(r, n, hits) :
                                 taken.hash[blks[i]] = NoHash
    BY DEF hits
  <2>5. n \in Nat \ {0} /\ numComputed[r] + Len(hits) * BlockSize + n <= numTokens[r]
        /\ numTokens[r] \in Nat /\ numTokens[r] <= Len(Stream[r])
    <3> DEFINE h == Len(hits) * BlockSize
    <3>1. h \in Nat
      BY <2>1, <2>3
    <3> HIDE DEF h
    <3>2. n \in 1 .. (numTokens[r] - (numComputed[r] + h))
      BY DEF h
    <3>3. n \in Nat \ {0} /\ numComputed[r] + h + n <= numTokens[r]
      <4>1. numComputed[r] \in Nat /\ numTokens[r] \in Nat
        BY <2>1
      <4> QED BY <4>1, <3>1, <3>2
    <3> QED BY <2>1, <3>3 DEF h
  <2> DEFINE t     == TouchedPool(hits)
             new   == NumNewBlocks(r, n, hits)
             blks  == reqBlocks[r] \o hits \o NewBlocks(t, new)
             q     == GetNewBlocks(t, new)
             first == NumAlreadyCached(r, hits)
             last  == NumFullBlocks(r, n, hits)
  <2>6. /\ new \in 0 .. Len(t.free) /\ first \in Nat /\ last \in Nat
        /\ \A b \in Range(NewBlocks(t, new)) : t.ref[b] = 0
        /\ last <= Len(blks) /\ Len(blks) \in Nat
        /\ \A i \in (first + 1) .. Len(blks) : UnhashedIn(q, blks[i])
        /\ t \in PoolType
    BY <2>1, <2>2, <2>4, <2>5, AllocatedBlocks, ZenonT(30)
  <2>7. CanGetNewBlocks(t, new)
    <3>1. Len(t.free) \in Nat
      BY <2>6, LenProperties DEF PoolType
    <3> QED BY <3>1, <2>6 DEF CanGetNewBlocks, GetNumFreeBlocks
  <2> HIDE DEF t, new, blks, q, first, last
  <2>8. \A i \in (first + 1) .. last : q.hash[blks[i]] = NoHash
    BY <2>6 DEF UnhashedIn
  <2> QED BY <2>6, <2>7, <2>8 DEF t, new, blks, q, first, last
<1>2. IInv => AllocationNeverRaises
  BY <1>1 DEF AllocationNeverRaises
<1> QED BY <1>2, Invariance, PTL

\* The guarantee of one step to the block b and its holders.
Kept(b) ==
  /\ pool.hash[b] \in Hashes => pool'.hash[b] = pool.hash[b]
  /\ \A r \in Owners(b) : reqBlocks'[r] # << >> => b \in Range(reqBlocks'[r])

\* A block somebody holds keeps its hash, and its holders keep it until their
\* own free(): no eviction, allocation or release of another request touches it.
THEOREM HeldBlocksStay == Spec => InUseNotEvicted
<1>1. ASSUME IInv, [Next]_vars, NEW b \in Blocks, pool.ref[b] > 0 PROVE Kept(b)
  <2>1. /\ TypeOK /\ BlocksInv /\ ClientInv
        /\ reqBlocks \in [Requests -> Seq(Blocks)]
        /\ \A s \in Owners(b) : s \in Requests /\ b \in Range(reqBlocks[s])
    BY <1>1 DEF IInv, BlocksInv, Owners
  <2>2. ASSUME NEW r \in Requests, ScheduleWaiting(r) \/ ScheduleRunning(r) PROVE Kept(b)
    <3>1. PICK n, hits : Schedules(r, n, hits)
      BY <1>1, <2>2, ScheduleStep
    <3>2. Allocated(r, n, hits)
      BY <1>1, <3>1, ScheduleEffect
    <3> DEFINE o       == reqBlocks[r]
               blks    == reqBlocks'[r]
               new     == Range(NewBlocks(TouchedPool(hits), NumNewBlocks(r, n, hits)))
               first   == NumAlreadyCached(r, hits)
               last    == NumFullBlocks(r, n, hits)
               caching == EnableCaching /\ first < last
               newly   == {blks[i] : i \in (first + 1) .. last}
    <3>3. /\ \A s \in Requests : s # r => reqBlocks'[s] = reqBlocks[s]
          /\ \A c \in new : pool.ref[c] = 0
          /\ caching => \A i \in (first + 1) .. last :
                          blks[i] \in new \/ pool.hash[blks[i]] = NoHash
          /\ \A c \in Blocks : ~(caching /\ c \in newly) =>
                                 pool'.hash[c] = IF c \in new THEN NoHash ELSE pool.hash[c]
      BY <3>2, Zenon DEF Allocated
    <3>4. /\ Len(o) \in Nat /\ Len(hits) \in Nat /\ Len(blks) \in Nat
          /\ Len(o) + Len(hits) <= Len(blks) /\ DOMAIN blks = 1 .. Len(blks)
          /\ \A i \in 1 .. Len(blks) : i <= Len(o) => blks[i] = o[i]
      BY <3>2 DEF Allocated
    <3> HIDE DEF blks, new, first, last, caching
    <3>5. b \notin new
      BY <1>1, <3>3
    <3>6. ASSUME pool.hash[b] \in Hashes PROVE pool'.hash[b] = pool.hash[b]
      <4>1. ~(caching /\ b \in newly)
        BY <3>3, <3>5, <3>6, PoolAssumption
      <4> HIDE DEF newly
      <4> QED BY <4>1, <3>3, <3>5
    <3>7. ASSUME NEW s \in Owners(b) PROVE b \in Range(reqBlocks'[s])
      <4>1. s \in Requests /\ b \in Range(reqBlocks[s])
        BY <2>1
      <4>2. CASE s # r
        BY <4>1, <4>2, <3>3
      <4>3. CASE s = r
        <5>1. PICK i \in DOMAIN o : o[i] = b
          BY <4>1, <4>3 DEF Range
        <5>2. i \in 1 .. Len(o)
          BY <2>1, LenProperties
        <5>3. i \in 1 .. Len(blks) /\ i <= Len(o)
          BY <5>2, <3>4
        <5>4. blks[i] = b /\ i \in DOMAIN blks
          BY <5>1, <5>3, <3>4
        <5> QED BY <5>4, <4>3 DEF Range, blks
      <4> QED BY <4>2, <4>3
    <3> QED BY <3>6, <3>7 DEF Kept
  <2>3. ASSUME NEW r \in Requests, Preempt(r) \/ Finish(r) PROVE Kept(b)
    <3>1. reqBlocks' = [reqBlocks EXCEPT ![r] = << >>] /\ pool'.hash = pool.hash
      <4>1. CASE Preempt(r)
        BY <4>1 DEF Preempt, Free, FreeBlocks
      <4>2. CASE Finish(r)
        BY <4>2 DEF Finish, Free, FreeBlocks
      <4> QED BY <2>3, <4>1, <4>2
    <3> QED BY <3>1, <2>1 DEF Kept
  <2>4. CASE Execute
    BY <2>1, <2>4 DEF Execute, managerVars, Kept
  <2>5. CASE Reset
    <3>1. /\ pool \in PoolType /\ FreeExact(pool) /\ CanResetPrefixCache(pool)
          /\ NullUnused
      BY <2>1, <2>5 DEF BlocksInv, FreeQueueExact, Reset
    <3>2. \A c \in Blocks : c # NullBlock => pool.ref[c] = 0
      BY <3>1, ResetProperties
    <3>3. b = NullBlock
      BY <3>2, <1>1
    <3> QED BY <3>1, <3>3, <2>1, PoolAssumption DEF NullUnused, Kept
  <2>6. CASE UNCHANGED vars
    BY <2>1, <2>6 DEF vars, managerVars, Kept
  <2> QED BY <1>1, <2>2, <2>3, <2>4, <2>5, <2>6 DEF Next
<1>2. IInv /\ [Next]_vars => [\A b \in Blocks : pool.ref[b] > 0 => Kept(b)]_vars
  BY <1>1
<1>3. IInv /\ [Next]_vars =>
        [\A b \in Blocks : pool.ref[b] > 0 =>
           /\ pool.hash[b] \in Hashes => pool'.hash[b] = pool.hash[b]
           /\ \A r \in Owners(b) : reqBlocks'[r] # << >> => b \in Range(reqBlocks'[r])]_vars
  BY <1>2 DEF Kept
<1> QED BY <1>3, Invariance, PTL DEF Spec, InUseNotEvicted

-----------------------------------------------------------------------------
(* The order of eviction                                                   *)

\* The blocks a request counts as cached have the hashes of their places.
CachedPrefix ==
  \A r \in Requests :
    /\ NumCached(r) <= NumHashes(r)
    /\ \A i \in 1 .. NumCached(r) : /\ i \in DOMAIN reqBlocks[r]
                                    /\ pool.hash[reqBlocks[r][i]] = Hash(r, i)

\* The parent of a cached block in the free queue is held by somebody or comes
\* behind it in the queue, so that the block is evicted before its parent.
Anchored ==
  \A b \in Range(pool.free), r \in Requests : \A i \in 2 .. NumHashes(r) :
    pool.hash[b] = Hash(r, i) =>
      \E c \in Blocks : /\ pool.hash[c] = Hash(r, i - 1)
                        /\ pool.ref[c] > 0 \/ Before(pool.free, b, c)

EvictionInv == CachedPrefix /\ Anchored

\* Blocks with the same hash have ancestors with the same hashes.
LEMMA AncestorHash ==
  ASSUME NEW r, NEW s, NEW i \in Nat \ {0}, NEW j \in Nat \ {0}, Hash(r, i) = Hash(s, j)
  PROVE  i = j /\ \A k \in 0 .. i : Hash(r, k) = Hash(s, k)
<1>1. BlockSize \in Nat \ {0}
  BY ManagerAssumption
<1>2. i * BlockSize \in Nat /\ j * BlockSize \in Nat
  BY <1>1
<1>3. /\ i * BlockSize = j * BlockSize
      /\ \A k \in 0 .. (i * BlockSize) : SubSeq(Stream[r], 1, k) = SubSeq(Stream[s], 1, k)
  BY <1>2, EqualPrefixes DEF Hash
<1>4. i = j
  BY <1>1, <1>3
<1>5. ASSUME NEW k \in 0 .. i PROVE k * BlockSize \in 0 .. (i * BlockSize)
  <2>1. k \in Nat /\ i \in Nat /\ k <= i /\ BlockSize \in Nat
    BY <1>1
  <2>2. k * BlockSize <= i * BlockSize /\ k * BlockSize \in Nat
    BY <2>1, TimesBlockSize
  <2> QED BY <2>2, <1>2
<1> QED BY <1>3, <1>4, <1>5 DEF Hash

\* In the list of a request the block before a cached block is its parent.
LEMMA ParentInList ==
  ASSUME IInv, HashMatches, CachedPrefix, NEW s \in Requests, NEW k \in DOMAIN reqBlocks[s],
         NEW r \in Requests, NEW i \in 2 .. NumHashes(r),
         pool.hash[reqBlocks[s][k]] = Hash(r, i)
  PROVE  /\ k = i /\ i - 1 \in DOMAIN reqBlocks[s]
         /\ pool.hash[reqBlocks[s][i - 1]] = Hash(r, i - 1)
<1>1. /\ reqBlocks[s] \in Seq(Blocks) /\ numCachedBlock[s] \in Nat \cup {Untracked}
      /\ HashedInOrder
  BY DEF IInv, BlocksInv
<1>2. k \in Nat \ {0} /\ i \in Nat \ {0} /\ NumCached(s) \in Nat
  BY <1>1, LenProperties, FullBlocks DEF NumCached, Untracked
<1>3. Hash(r, i) # NoHash
  BY FullBlocks
<1>4. Hash(r, i) = Hash(s, k)
  BY <1>3 DEF HashMatches
<1>5. i = k /\ Hash(r, i - 1) = Hash(s, i - 1)
  <2>1. i = k /\ \A j \in 0 .. i : Hash(r, j) = Hash(s, j)
    BY <1>2, <1>4, AncestorHash
  <2>2. i - 1 \in 0 .. i
    BY <1>2
  <2> QED BY <2>1, <2>2
<1>6. k <= NumCached(s)
  BY <1>1, <1>2, <1>3 DEF HashedInOrder
<1>7. i - 1 \in 1 .. NumCached(s)
  BY <1>2, <1>5, <1>6
<1> QED BY <1>5, <1>7 DEF CachedPrefix

\* The parent of a cached block is cached.
LEMMA NotStranded ==
  ASSUME IInv, HashMatches, CachedPrefix, Anchored
  PROVE  NoStrandedBlock
<1> SUFFICES ASSUME NEW r \in Requests, NEW i \in 2 .. NumHashes(r), IsCached(pool, Hash(r, i))
             PROVE  IsCached(pool, Hash(r, i - 1))
  BY DEF NoStrandedBlock, NumHashes
<1>1. /\ pool \in PoolType /\ MapExact(pool) /\ FreeExact(pool) /\ NullUnused
      /\ RefCountsOwners /\ reqBlocks \in [Requests -> Seq(Blocks)]
  BY DEF IInv, BlocksInv, CacheMapExact, FreeQueueExact
<1>2. i \in 1 .. NumHashes(r) /\ i - 1 \in 1 .. NumHashes(r)
  BY FullBlocks
<1>3. Hash(r, i) \in Hashes /\ Hash(r, i - 1) \in Hashes /\ Hash(r, i) # NoHash
  BY <1>2, FullBlocks
<1>4. \A h \in Hashes : /\ pool.cached[h] \in Seq(Blocks)
                        /\ Range(pool.cached[h]) = {b \in Blocks : pool.hash[b] = h}
  BY <1>1 DEF PoolType, MapExact
<1>5. PICK b \in Blocks : pool.hash[b] = Hash(r, i)
  <2>1. 1 \in DOMAIN pool.cached[Hash(r, i)]
    BY <1>3, <1>4, EmptySeq, LenProperties DEF IsCached
  <2>2. pool.cached[Hash(r, i)][1] \in Range(pool.cached[Hash(r, i)])
    BY <2>1 DEF Range
  <2> QED BY <2>2, <1>3, <1>4
<1>6. PICK c \in Blocks : pool.hash[c] = Hash(r, i - 1)
  <2>1. CASE pool.ref[b] = 0
    <3>1. b # NullBlock
      BY <1>1, <1>3, <1>5 DEF NullUnused
    <3>2. b \in Range(pool.free)
      BY <2>1, <3>1, <1>1 DEF FreeExact
    <3> QED BY <3>2, <1>5 DEF Anchored
  <2>2. CASE pool.ref[b] # 0
    <3>1. PICK s \in Requests : b \in Range(reqBlocks[s])
      <4>1. Cardinality(Owners(b)) # 0
        BY <2>2, <1>1 DEF RefCountsOwners
      <4>2. Owners(b) # {}
        BY <4>1, FS_EmptySet
      <4> QED BY <4>2 DEF Owners
    <3>2. PICK k \in DOMAIN reqBlocks[s] : reqBlocks[s][k] = b
      BY <3>1 DEF Range
    <3>3. i - 1 \in DOMAIN reqBlocks[s] /\ pool.hash[reqBlocks[s][i - 1]] = Hash(r, i - 1)
      BY <3>2, <1>5, ParentInList
    <3>4. reqBlocks[s][i - 1] \in Blocks
      BY <3>3, <1>1, LenProperties, ElementOfSeq
    <3> QED BY <3>3, <3>4
  <2> QED BY <2>1, <2>2
<1>7. Range(pool.cached[Hash(r, i - 1)]) # {}
  BY <1>3, <1>4, <1>6
<1> QED BY <1>7 DEF IsCached, Range

\* What allocate_slots leaves in the free queue: blocks that are neither hits
\* nor new, in their order, and with a block all those behind it.
LEMMA ScheduleQueue ==
  ASSUME IInv, NEW r \in Requests, NEW n, NEW hits, Schedules(r, n, hits),
         Allocated(r, n, hits),
         NEW x \in Blocks, NEW y \in Blocks, Before(pool.free, x, y),
         x \notin Range(hits), y \notin Range(hits),
         x \notin Range(NewBlocks(TouchedPool(hits), NumNewBlocks(r, n, hits)))
  PROVE  /\ y \notin Range(NewBlocks(TouchedPool(hits), NumNewBlocks(r, n, hits)))
         /\ Before(pool'.free, x, y)
<1> DEFINE t   == TouchedPool(hits)
           new == NumNewBlocks(r, n, hits)
<1>1. /\ TypeOK /\ BlocksInv /\ pool \in PoolType /\ numComputed[r] \in Nat
      /\ numTokens[r] \in Nat /\ numTokens[r] <= Len(Stream[r])
  <2>1. TypeOK /\ BlocksInv
    BY DEF IInv
  <2>2. numTokens[r] \in PromptLen[r] .. Len(Stream[r]) /\ numComputed[r] \in Nat
    BY <2>1 DEF TypeOK
  <2> QED BY <2>1, <2>2, RequestConstants DEF TypeOK
<1>2. /\ hits \in Seq(Blocks) /\ n \in Nat \ {0} /\ IsInjective(hits)
      /\ \A i \in 1 .. Len(hits) : pool.hash[hits[i]] = Hash(r, i)
      /\ hits # << >> => reqBlocks[r] = << >> /\ numCachedBlock[r] = Untracked
      /\ numComputed[r] + Len(hits) * BlockSize + n <= numTokens[r]
      /\ AllocateSlots(r, n, hits) /\ CanAllocateSlots(r, n, hits)
  BY DEF Schedules, AllocateSlots
<1>3. new \in 0 .. Len(t.free) /\ t \in PoolType /\ FreeExact(t)
  BY <1>1, <1>2, AllocatedBlocks
<1>4. t.free \in Seq(Blocks) /\ IsInjective(t.free) /\ pool.free \in Seq(Blocks)
  BY <1>1, <1>3 DEF PoolType, FreeExact
<1>5. Before(t.free, x, y)
  <2>1. CASE hits = << >>
    BY <2>1 DEF TouchedPool
  <2>2. CASE hits # << >>
    <3> DEFINE S == Blocks \ {b \in Range(hits) : pool.ref[b] = 0 /\ b # NullBlock}
    <3>1. t.free = Keep(pool.free, S)
      BY <2>2 DEF TouchedPool, Touch
    <3>2. x \in S /\ y \in S
      OBVIOUS
    <3> HIDE DEF S
    <3> QED BY <3>1, <3>2, <1>4, KeepProperties
  <2> QED BY <2>1, <2>2
<1>6. pool'.free = SubSeq(t.free, new + 1, Len(t.free))
  BY <1>2 DEF AllocateSlots, CacheBlocks, CacheFullBlocks, GetNewBlocks
<1> HIDE DEF t, new
<1>7. x \notin Range(SubSeq(t.free, 1, new))
  BY DEF NewBlocks, t, new
<1>8. /\ y \notin Range(SubSeq(t.free, 1, new))
      /\ Before(SubSeq(t.free, new + 1, Len(t.free)), x, y)
  BY <1>3, <1>4, <1>5, <1>7, TailOrder
<1> QED BY <1>6, <1>8 DEF NewBlocks, t, new

\* Scheduling evicts no block whose children stay in the cache.
LEMMA ScheduleEviction ==
  ASSUME IInv, HashMatches, EvictionInv, IInv',
         NEW r \in Requests, NEW n, NEW hits, Schedules(r, n, hits)
  PROVE  EvictionInv'
<1> DEFINE o       == reqBlocks[r]
           blks    == reqBlocks'[r]
           new     == Range(NewBlocks(TouchedPool(hits), NumNewBlocks(r, n, hits)))
           first   == NumAlreadyCached(r, hits)
           last    == NumFullBlocks(r, n, hits)
           caching == EnableCaching /\ first < last
           newly   == {blks[i] : i \in (first + 1) .. last}
<1>0. /\ TypeOK /\ BlocksInv /\ ClientInv /\ CachedPrefix /\ Anchored /\ pool \in PoolType
      /\ FreeExact(pool) /\ FreeExact(pool') /\ o \in Seq(Blocks) /\ DOMAIN o = 1 .. Len(o)
      /\ numCachedBlock[r] \in Nat \cup {Untracked} /\ NumCached(r) \in Nat
      /\ reqBlocks \in [Requests -> Seq(Blocks)]
  <2>1. TypeOK /\ BlocksInv /\ ClientInv /\ CachedPrefix /\ Anchored
    BY DEF IInv, EvictionInv
  <2>2. BlocksInv'
    BY DEF IInv
  <2>3. /\ o \in Seq(Blocks) /\ DOMAIN o = 1 .. Len(o) /\ reqBlocks \in [Requests -> Seq(Blocks)]
        /\ numCachedBlock[r] \in Nat \cup {Untracked} /\ NumCached(r) \in Nat
    BY <2>1, LenProperties DEF BlocksInv, NumCached, Untracked
  <2> QED BY <2>1, <2>2, <2>3 DEF BlocksInv, FreeQueueExact
<1>1. Allocated(r, n, hits)
  BY ScheduleEffect
<1>2. /\ Len(o) \in Nat /\ Len(hits) \in Nat /\ Len(blks) \in Nat
      /\ Len(o) + Len(hits) <= Len(blks) /\ DOMAIN blks = 1 .. Len(blks)
      /\ first \in Nat /\ last \in Nat /\ last <= Len(blks) /\ last <= NumHashes(r)
      /\ blks \in Seq(Blocks) /\ IsInjective(blks)
  BY <1>1 DEF Allocated, NumHashes
<1>3. \A i \in 1 .. Len(blks) :
         /\ i <= Len(o) => blks[i] = o[i]
         /\ i > Len(o) /\ i <= Len(o) + Len(hits) => blks[i] = hits[i - Len(o)]
         /\ i > Len(o) + Len(hits) => blks[i] \in new
  BY <1>1, Zenon DEF Allocated
<1>4. /\ \A s \in Requests : s # r => reqBlocks'[s] = reqBlocks[s] /\ NumCached(s)' = NumCached(s)
      /\ NumCached(r)' = IF caching THEN last ELSE first
  BY <1>1, Zenon DEF Allocated
<1>5. /\ \A b \in new : /\ b \in Blocks /\ b \notin Range(hits) /\ pool.ref[b] = 0
                        /\ \A s \in Requests : b \notin Range(reqBlocks[s])
      /\ \A b \in Range(hits) : b \in Blocks /\ b \notin Range(o) /\ pool.hash[b] \in Hashes
      /\ \A b \in Blocks : pool'.ref[b] = IF b \in Range(hits) \cup new
                                            THEN pool.ref[b] + 1 ELSE pool.ref[b]
  BY <1>1, Zenon DEF Allocated
<1>6. /\ caching => \A i \in (first + 1) .. last :
                      /\ pool'.hash[blks[i]] = Hash(r, i)
                      /\ blks[i] \in new \/ pool.hash[blks[i]] = NoHash
      /\ \A b \in Blocks : ~(caching /\ b \in newly) =>
                             pool'.hash[b] = IF b \in new THEN NoHash ELSE pool.hash[b]
  BY <1>1, Zenon DEF Allocated
<1>7. /\ hits \in Seq(Blocks) /\ DOMAIN hits = 1 .. Len(hits)
      /\ \A i \in 1 .. Len(hits) : pool.hash[hits[i]] = Hash(r, i)
      /\ hits # << >> => Len(o) = 0 /\ first = Len(hits)
      /\ hits = << >> => first = NumCached(r) /\ Len(hits) = 0
  BY LenProperties DEF Schedules, NumAlreadyCached, NumCached
<1> HIDE DEF new, first, last, caching, blks
\* A block with a hash that is not taken anew keeps its hash.
<1>8. ASSUME NEW b \in Blocks, b \notin new, pool.hash[b] # NoHash
      PROVE  pool'.hash[b] = pool.hash[b]
  <2>1. ~(caching /\ b \in newly)
    BY <1>6, <1>8
  <2> HIDE DEF newly
  <2> QED BY <2>1, <1>6, <1>8
<1>9. CachedPrefix'
  <2>1. ASSUME NEW s \in Requests, s # r
        PROVE  /\ NumCached(s)' <= NumHashes(s)
               /\ \A i \in 1 .. NumCached(s)' : /\ i \in DOMAIN reqBlocks'[s]
                                                /\ pool'.hash[reqBlocks'[s][i]] = Hash(s, i)
    <3>1. /\ NumCached(s)' = NumCached(s) /\ reqBlocks'[s] = reqBlocks[s]
          /\ NumCached(s) <= NumHashes(s) /\ NumCached(s) \in Nat
      BY <2>1, <1>0, <1>4 DEF CachedPrefix, BlocksInv, NumCached, Untracked
    <3>2. ASSUME NEW i \in 1 .. NumCached(s)
          PROVE  i \in DOMAIN reqBlocks[s] /\ pool'.hash[reqBlocks[s][i]] = Hash(s, i)
      <4>1. i \in DOMAIN reqBlocks[s] /\ pool.hash[reqBlocks[s][i]] = Hash(s, i)
        BY <1>0 DEF CachedPrefix
      <4>2. reqBlocks[s][i] \in Blocks /\ reqBlocks[s][i] \in Range(reqBlocks[s])
        BY <4>1, <1>0, LenProperties, ElementOfSeq DEF Range
      <4>3. i \in 1 .. NumHashes(s)
        BY <3>1, FullBlocks
      <4>4. Hash(s, i) # NoHash
        BY <4>3, FullBlocks
      <4> QED BY <4>1, <4>2, <4>4, <1>5, <1>8
    <3> QED BY <3>1, <3>2
  <2>2. first <= NumHashes(r) /\ \A i \in 1 .. first :
          i \in DOMAIN blks /\ blks[i] \notin new /\ pool.hash[blks[i]] = Hash(r, i)
    <3>1. CASE hits = << >>
      <4>1. first = NumCached(r) /\ first <= NumHashes(r)
        BY <3>1, <1>0, <1>7 DEF CachedPrefix
      <4>2. ASSUME NEW i \in 1 .. first
            PROVE  i \in DOMAIN blks /\ blks[i] \notin new /\ pool.hash[blks[i]] = Hash(r, i)
        <5>1. i \in DOMAIN o /\ pool.hash[o[i]] = Hash(r, i)
          BY <4>1, <1>0 DEF CachedPrefix
        <5>2. i \in 1 .. Len(blks) /\ i <= Len(o)
          BY <5>1, <1>0, <1>2
        <5>3. blks[i] = o[i]
          BY <5>2, <1>3
        <5>4. o[i] \in Range(o)
          BY <5>1 DEF Range
        <5> QED BY <5>1, <5>2, <5>3, <5>4, <1>2, <1>5
      <4> QED BY <4>1, <4>2
    <3>2. CASE hits # << >>
      <4>1. ASSUME NEW i \in 1 .. first
            PROVE  i \in DOMAIN blks /\ blks[i] \notin new /\ pool.hash[blks[i]] = Hash(r, i)
        <5>1. Len(o) = 0 /\ i \in 1 .. Len(hits) /\ i \in 1 .. Len(blks)
              /\ i > Len(o) /\ i <= Len(o) + Len(hits) /\ i - Len(o) = i
          BY <3>2, <1>2, <1>7, SMTT(30)
        <5>2. blks[i] = hits[i]
          BY <5>1, <1>3
        <5>3. hits[i] \in Range(hits)
          BY <5>1, <1>7 DEF Range
        <5>4. hits[i] \notin new
          BY <5>3, <1>5
        <5>5. pool.hash[hits[i]] = Hash(r, i)
          BY <5>1, <1>7
        <5>6. i \in DOMAIN blks
          BY <5>1, <1>2
        <5> QED BY <5>2, <5>4, <5>5, <5>6
      <4>2. first <= NumHashes(r)
        <5> DEFINE h == Len(hits) * BlockSize
        <5>1. h \in Nat /\ numComputed[r] + h + n <= numTokens[r] /\ n \in Nat
              /\ numComputed[r] \in Nat /\ numTokens[r] <= Len(Stream[r])
              /\ numTokens[r] \in Nat /\ Len(Stream[r]) \in Nat
          <6>1. numTokens[r] \in PromptLen[r] .. Len(Stream[r]) /\ numComputed[r] \in Nat
            BY <1>0 DEF TypeOK
          <6>2. h \in Nat
            BY <1>2, RequestConstants
          <6> QED BY <6>1, <6>2, RequestConstants DEF Schedules
        <5> HIDE DEF h
        <5>2. h <= Len(Stream[r])
          BY <5>1
        <5>3. Len(hits) <= NumHashes(r)
          BY <5>2, <1>2, FullBlocks DEF h
        <5> QED BY <5>3, <3>2, <1>7
      <4> QED BY <4>1, <4>2
    <3> QED BY <3>1, <3>2
  <2>3. ASSUME NEW i \in 1 .. first PROVE i \in DOMAIN blks /\ pool'.hash[blks[i]] = Hash(r, i)
    <3>1. i \in DOMAIN blks /\ blks[i] \notin new /\ pool.hash[blks[i]] = Hash(r, i)
      BY <2>2
    <3>2. i \in 1 .. NumHashes(r)
      BY <2>2, <1>2, FullBlocks
    <3>3. blks[i] \in Blocks /\ Hash(r, i) # NoHash
      BY <3>1, <3>2, <1>2, FullBlocks, ElementOfSeq
    <3> QED BY <3>1, <3>3, <1>8
  <2>4. /\ NumCached(r)' <= NumHashes(r)
        /\ \A i \in 1 .. NumCached(r)' : i \in DOMAIN blks /\ pool'.hash[blks[i]] = Hash(r, i)
    <3>1. CASE ~caching
      BY <3>1, <2>2, <2>3, <1>4
    <3>2. CASE caching
      <4>1. NumCached(r)' = last
        BY <3>2, <1>4
      <4>2. ASSUME NEW i \in 1 .. last PROVE i \in DOMAIN blks /\ pool'.hash[blks[i]] = Hash(r, i)
        <5>1. CASE i <= first
          BY <5>1, <2>3, <1>2
        <5>2. CASE i > first
          BY <5>2, <3>2, <1>2, <1>6
        <5> QED BY <5>1, <5>2, <1>2
      <4> QED BY <4>1, <4>2, <1>2
    <3> QED BY <3>1, <3>2
  <2> QED BY <2>1, <2>4 DEF CachedPrefix, NumHashes, Hash, blks
<1>10. Anchored'
  <2>1. ASSUME NEW b \in Range(pool'.free), NEW s \in Requests, NEW i \in 2 .. NumHashes(s),
               pool'.hash[b] = Hash(s, i)
        PROVE  \E c \in Blocks : /\ pool'.hash[c] = Hash(s, i - 1)
                                 /\ pool'.ref[c] > 0 \/ Before(pool'.free, b, c)
    <3>1. b \in Blocks /\ b # NullBlock /\ pool'.ref[b] = 0
      BY <1>0 DEF FreeExact
    <3>2. pool.ref \in [Blocks -> Nat] /\ pool.ref[b] \in Nat
      BY <3>1, <1>0 DEF PoolType
    <3>3. b \notin new /\ b \notin Range(hits) /\ pool.ref[b] = 0
      BY <3>1, <3>2, <1>5
    <3>4. b \in Range(pool.free)
      BY <3>1, <3>3, <1>0 DEF FreeExact
    <3>5. i \in 1 .. NumHashes(s) /\ i - 1 \in 1 .. NumHashes(s)
      BY FullBlocks
    <3>6. Hash(s, i) # NoHash /\ Hash(s, i - 1) # NoHash
      BY <3>5, FullBlocks
    <3>7. ~(caching /\ b \in newly)
      <4> SUFFICES ASSUME caching, NEW k \in (first + 1) .. last, b = blks[k] PROVE FALSE
        OBVIOUS
      <4>1. k \in 1 .. Len(blks) /\ k \in Nat
        BY <1>2
      <4>2. k <= Len(o)
        <5>1. CASE k > Len(o) /\ k <= Len(o) + Len(hits)
          <6>1. k - Len(o) \in 1 .. Len(hits)
            BY <5>1, <4>1, <1>2
          <6>2. b \in Range(hits)
            BY <6>1, <5>1, <4>1, <1>3, <1>7 DEF Range
          <6> QED BY <6>2, <3>3
        <5>2. CASE k > Len(o) + Len(hits)
          BY <5>2, <4>1, <3>3, <1>3
        <5> QED BY <5>1, <5>2, <4>1, <1>2
      <4>3. b \in Range(o)
        <5>1. k \in DOMAIN o /\ b = o[k]
          BY <4>1, <4>2, <1>0, <1>3
        <5> QED BY <5>1 DEF Range
      <4>4. Owners(b) = {}
        BY <3>1, <3>3, <1>0, OwnersProperties
      <4> QED BY <4>3, <4>4 DEF Owners
    <3>8. pool.hash[b] = Hash(s, i)
      <4> HIDE DEF newly
      <4> QED BY <2>1, <3>1, <3>3, <3>7, <1>6
    <3>9. PICK c \in Blocks : /\ pool.hash[c] = Hash(s, i - 1)
                              /\ pool.ref[c] > 0 \/ Before(pool.free, b, c)
      BY <3>4, <3>8, <1>0 DEF Anchored
    <3>10. pool.ref[c] \in Nat
      BY <3>2
    <3>11. CASE pool.ref[c] > 0
      <4>1. c \notin new
        BY <3>10, <3>11, <1>5
      <4>2. pool'.hash[c] = Hash(s, i - 1)
        BY <4>1, <3>6, <3>9, <1>8
      <4>3. pool'.ref[c] > 0
        BY <3>10, <3>11, <1>5
      <4> QED BY <4>2, <4>3
    <3>12. CASE c \in Range(hits)
      <4>1. c \notin new
        BY <3>12, <1>5
      <4>2. pool'.hash[c] = Hash(s, i - 1)
        BY <4>1, <3>6, <3>9, <1>8
      <4>3. pool'.ref[c] > 0
        BY <3>10, <3>12, <1>5
      <4> QED BY <4>2, <4>3
    <3>13. CASE ~(pool.ref[c] > 0) /\ c \notin Range(hits)
      <4>1. c \notin new /\ Before(pool'.free, b, c)
        BY <3>1, <3>3, <3>9, <3>13, <1>1, ScheduleQueue DEF new
      <4>2. pool'.hash[c] = Hash(s, i - 1)
        BY <4>1, <3>6, <3>9, <1>8
      <4> QED BY <4>1, <4>2
    <3> QED BY <3>11, <3>12, <3>13
  <2> QED BY <2>1 DEF Anchored, NumHashes, Hash
<1> QED BY <1>9, <1>10 DEF EvictionInv

\* free() puts the blocks of a request behind all those in the queue, children
\* before parents, so that every block stays before its parent.
LEMMA ReleaseEviction ==
  ASSUME IInv, HashMatches, EvictionInv, IInv', NEW r \in Requests, Free(r)
  PROVE  EvictionInv'
<1> DEFINE o   == reqBlocks[r]
           bs  == Reversed(o)
           ref == [b \in Blocks |-> IF b \in Range(bs) THEN pool.ref[b] - 1 ELSE pool.ref[b]]
           S   == {b \in Blocks : ref[b] = 0 /\ b # NullBlock}
           tl  == Keep(bs, S)
<1>1. /\ CachedPrefix /\ Anchored /\ pool \in PoolType /\ FreeExact(pool) /\ FreeExact(pool')
      /\ reqBlocks \in [Requests -> Seq(Blocks)] /\ pool.free \in Seq(Blocks)
      /\ numCachedBlock \in [Requests -> Nat \cup {Untracked}] /\ NullUnused
      /\ pool' \in PoolType
  BY DEF IInv, EvictionInv, BlocksInv, FreeQueueExact, PoolType
<1>2. /\ o \in Seq(Blocks) /\ Len(o) \in Nat /\ DOMAIN o = 1 .. Len(o)
      /\ bs \in Seq(Blocks) /\ Range(bs) = Range(o)
  BY <1>1, ReversedProperties, LenProperties
<1>3. /\ pool'.hash = pool.hash /\ pool'.ref = ref /\ pool'.free = pool.free \o tl
      /\ reqBlocks' = [reqBlocks EXCEPT ![r] = << >>]
      /\ numCachedBlock' = [numCachedBlock EXCEPT ![r] = Untracked]
  BY DEF Free, FreeBlocks
<1>4. tl \in Seq(Blocks) /\ Range(tl) = Range(o) \cap S
  <2> HIDE DEF bs, S
  <2> QED BY <1>2, KeepProperties
<1>5. \A b \in Blocks : pool'.ref[b] \in Nat /\ pool.ref[b] \in Nat
                        /\ pool'.ref[b] = IF b \in Range(o) THEN pool.ref[b] - 1 ELSE pool.ref[b]
  <2>1. pool'.ref \in [Blocks -> Nat] /\ pool.ref \in [Blocks -> Nat]
    BY <1>1 DEF PoolType
  <2> QED BY <2>1, <1>2, <1>3
<1>6. \A b \in Range(o) : b \in Blocks /\ b # NullBlock
  BY <1>1, <1>2, ElementOfSeq DEF Range, NullUnused
<1>7. \A b \in Blocks : b \in S <=> pool'.ref[b] = 0 /\ b # NullBlock
  BY <1>3
<1> HIDE DEF ref, S, tl, bs
<1>8. CachedPrefix'
  <2>1. ASSUME NEW s \in Requests
        PROVE  /\ NumCached(s)' <= NumHashes(s)
               /\ \A i \in 1 .. NumCached(s)' : /\ i \in DOMAIN reqBlocks'[s]
                                                /\ pool'.hash[reqBlocks'[s][i]] = Hash(s, i)
    <3>1. CASE s = r
      <4>1. NumCached(s)' = 0
        BY <3>1, <1>1, <1>3 DEF NumCached
      <4> QED BY <4>1, FullBlocks
    <3>2. CASE s # r
      <4>1. NumCached(s)' = NumCached(s) /\ reqBlocks'[s] = reqBlocks[s]
        BY <3>2, <1>1, <1>3 DEF NumCached
      <4> QED BY <4>1, <1>1, <1>3 DEF CachedPrefix
    <3> QED BY <3>1, <3>2
  <2> QED BY <2>1 DEF CachedPrefix, NumHashes, Hash
<1>9. Anchored'
  <2>1. ASSUME NEW b \in Range(pool'.free), NEW s \in Requests, NEW i \in 2 .. NumHashes(s),
               pool'.hash[b] = Hash(s, i)
        PROVE  \E c \in Blocks : /\ pool'.hash[c] = Hash(s, i - 1)
                                 /\ pool'.ref[c] > 0 \/ Before(pool'.free, b, c)
    <3>1. b \in Range(pool.free) \cup Range(tl)
      BY <1>1, <1>3, <1>4, ConcatRange
    <3>2. pool.hash[b] = Hash(s, i)
      BY <2>1, <1>3
    <3>3. CASE b \in Range(pool.free)
      <4>1. PICK c \in Blocks : /\ pool.hash[c] = Hash(s, i - 1)
                                /\ pool.ref[c] > 0 \/ Before(pool.free, b, c)
        BY <3>2, <3>3, <1>1 DEF Anchored
      <4>2. CASE Before(pool.free, b, c)
        <5>1. Before(pool'.free, b, c)
          BY <4>2, <1>1, <1>3, <1>4, ConcatOrder
        <5> QED BY <5>1, <4>1, <1>3
      <4>3. CASE pool.ref[c] > 0 /\ pool'.ref[c] = 0
        <5>1. c \in Range(o)
          BY <4>3, <1>5
        <5>2. c \in Range(tl)
          BY <4>3, <5>1, <1>4, <1>6, <1>7
        <5>3. Before(pool'.free, b, c)
          BY <3>3, <5>2, <1>1, <1>3, <1>4, ConcatOrder
        <5> QED BY <5>3, <4>1, <1>3
      <4>4. CASE pool'.ref[c] > 0
        BY <4>4, <4>1, <1>3
      <4> QED BY <4>1, <4>2, <4>3, <4>4, <1>5
    <3>4. CASE b \in Range(tl)
      <4>1. b \in Range(o) /\ b \in S
        BY <3>4, <1>4
      <4>2. PICK k \in DOMAIN o : o[k] = b
        BY <4>1 DEF Range
      <4> DEFINE c == o[i - 1]
      <4>3. k = i /\ i - 1 \in DOMAIN o /\ pool.hash[c] = Hash(s, i - 1)
        BY <4>2, <3>2, <1>1, ParentInList
      <4>4. c \in Range(o) /\ c \in Blocks /\ c # NullBlock
        BY <4>3, <1>6 DEF Range
      <4>5. CASE pool'.ref[c] > 0
        BY <4>3, <4>4, <4>5, <1>3
      <4>6. CASE pool'.ref[c] = 0
        <5>1. c \in S
          BY <4>4, <4>6, <1>7
        <5>2. i \in 1 .. Len(o) /\ i - 1 \in 1 .. Len(o) /\ i - 1 < i
          BY <4>3, <1>2
        <5>3. Before(bs, o[i], o[i - 1])
          BY <5>2, <1>2, ReversedOrder DEF bs
        <5>4. Before(bs, b, c)
          BY <5>3, <4>2, <4>3
        <5> HIDE DEF c
        <5>5. Before(tl, b, c)
          BY <5>1, <5>4, <4>1, <1>2, KeepProperties DEF tl
        <5>6. Before(pool'.free, b, c)
          BY <5>5, <1>1, <1>3, <1>4, ConcatOrder
        <5> QED BY <5>6, <4>3, <4>4, <1>3
      <4> QED BY <4>4, <4>5, <4>6, <1>5
    <3> QED BY <3>1, <3>3, <3>4
  <2> QED BY <2>1 DEF Anchored, NumHashes, Hash
<1> QED BY <1>8, <1>9 DEF EvictionInv

\* A reset forgets all cached blocks, when no request holds any.
LEMMA ResetEviction ==
  ASSUME IInv, EvictionInv, IInv', Reset
  PROVE  EvictionInv'
<1>1. /\ pool \in PoolType /\ FreeExact(pool) /\ FreeExact(pool') /\ CanResetPrefixCache(pool)
      /\ reqBlocks \in [Requests -> Seq(Blocks)] /\ NullUnused /\ BlocksInv /\ CachedPrefix
  BY DEF IInv, EvictionInv, BlocksInv, FreeQueueExact, Reset
<1>2. /\ reqBlocks' = reqBlocks /\ numCachedBlock' = numCachedBlock
      /\ \A b \in Blocks : pool'.hash[b] = NoHash
  BY DEF Reset, ResetPrefixCache
<1>3. ASSUME NEW s \in Requests, NEW i \in DOMAIN reqBlocks[s] PROVE FALSE
  <2>1. reqBlocks[s][i] \in Blocks /\ reqBlocks[s][i] \in Range(reqBlocks[s])
    BY <1>1, LenProperties, ElementOfSeq DEF Range
  <2>2. reqBlocks[s][i] # NullBlock
    BY <2>1, <1>1 DEF NullUnused
  <2>3. pool.ref[reqBlocks[s][i]] = 0
    BY <2>1, <2>2, <1>1, ResetProperties
  <2>4. Owners(reqBlocks[s][i]) = {}
    BY <2>1, <2>3, <1>1, OwnersProperties
  <2> QED BY <2>1, <2>4 DEF Owners
<1>4. CachedPrefix'
  <2>1. \A s \in Requests : NumCached(s)' = NumCached(s) /\ 1 .. NumCached(s) = {}
    BY <1>1, <1>2, <1>3 DEF CachedPrefix, NumCached
  <2> QED BY <2>1, <1>1 DEF CachedPrefix, NumHashes
<1>5. Anchored'
  <2>1. \A b \in Range(pool'.free) : b \in Blocks
    BY <1>1 DEF FreeExact
  <2>2. \A s \in Requests : \A i \in 2 .. NumHashes(s) : Hash(s, i) # NoHash
    <3> TAKE s \in Requests
    <3> TAKE i \in 2 .. NumHashes(s)
    <3>1. i \in 1 .. NumHashes(s)
      BY FullBlocks
    <3> QED BY <3>1, FullBlocks
  <2> QED BY <2>1, <2>2, <1>2 DEF Anchored, NumHashes, Hash
<1> QED BY <1>4, <1>5 DEF EvictionInv

\* The order of the queue and of the lists is kept by every step.
LEMMA NextEviction == IInv /\ HashMatches /\ EvictionInv /\ [Next]_vars => EvictionInv'
<1> SUFFICES ASSUME IInv, HashMatches, EvictionInv, [Next]_vars PROVE EvictionInv'
  OBVIOUS
<1>0. IInv'
  BY NextIInv
<1>1. ASSUME NEW r \in Requests, ScheduleWaiting(r) \/ ScheduleRunning(r) PROVE EvictionInv'
  <2>1. PICK n, hits : Schedules(r, n, hits)
    BY <1>1, ScheduleStep
  <2> QED BY <2>1, <1>0, ScheduleEviction
<1>2. ASSUME NEW r \in Requests, Preempt(r) \/ Finish(r) PROVE EvictionInv'
  <2>1. Free(r)
    BY <1>2 DEF Preempt, Finish
  <2> QED BY <2>1, <1>0, ReleaseEviction
<1>3. CASE Reset
  BY <1>3, <1>0, ResetEviction
<1>4. CASE Execute \/ UNCHANGED vars
  <2>1. pool' = pool /\ reqBlocks' = reqBlocks /\ numCachedBlock' = numCachedBlock
    BY <1>4 DEF Execute, vars, managerVars
  <2>2. CachedPrefix'
    BY <2>1 DEF EvictionInv, CachedPrefix, NumCached, NumHashes, Hash
  <2>3. Anchored'
    BY <2>1 DEF EvictionInv, Anchored, NumHashes, Hash
  <2> QED BY <2>2, <2>3 DEF EvictionInv
<1> QED BY <1>1, <1>2, <1>3, <1>4 DEF Next

\* "If a block hash is not in the cached_block_hash_to_id, the following block
\* hashes are not computed yet for sure" (find_longest_cache_hit): in whatever
\* order blocks are shared, freed and evicted, the parent of a cached block is
\* cached, so stopping at the first miss loses no hit.
THEOREM CacheIsPrefixClosed == Spec => []NoStrandedBlock
<1>1. Init => EvictionInv
  <2> SUFFICES ASSUME Init PROVE EvictionInv
    OBVIOUS
  <2>1. pool = InitPool /\ \A r \in Requests : NumCached(r) = 0
    BY DEF Init, NumCached
  <2>2. CachedPrefix
    BY <2>1, FullBlocks DEF CachedPrefix
  <2>3. \A b \in Range(pool.free) : pool.hash[b] = NoHash
    <3>1. FreeExact(pool)
      BY <2>1, InitPoolProperties
    <3> QED BY <2>1, <3>1 DEF FreeExact, InitPool
  <2>4. \A s \in Requests : \A i \in 2 .. NumHashes(s) : Hash(s, i) # NoHash
    <3> TAKE s \in Requests
    <3> TAKE i \in 2 .. NumHashes(s)
    <3>1. i \in 1 .. NumHashes(s)
      BY FullBlocks
    <3> QED BY <3>1, FullBlocks
  <2> QED BY <2>2, <2>3, <2>4 DEF EvictionInv, Anchored
<1>2. IInv /\ ContentsInv /\ EvictionInv /\ [Next]_vars => EvictionInv'
  BY NextEviction DEF ContentsInv
<1>3. IInv /\ ContentsInv /\ EvictionInv => NoStrandedBlock
  BY NotStranded DEF ContentsInv, EvictionInv
<1> QED BY <1>1, <1>2, <1>3, ContentsInvariance, PTL DEF Spec
=============================================================================
