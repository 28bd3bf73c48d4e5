------------------------ MODULE AsyncSchedulerProofs ------------------------
(***************************************************************************)
(* Steps in flight lose, repeat and misplace no token, for every number of *)
(* requests and blocks, every length of prompts and outputs and all the    *)
(* budgets: OutputExact, PlaceholdersExact and BlocksHeld hold in every    *)
(* reachable state of AsyncScheduler.                                      *)
(*                                                                         *)
(* None of them is inductive.  A token is the position of the step it was  *)
(* sampled in, which the scheduler computes from num_computed_tokens and   *)
(* the placeholders when it builds the step; it is right if it still is    *)
(* the next position when the output comes back.  So the invariant ties    *)
(* together, for each request, the tokens in the queue, what is computed   *)
(* and what is known of the text (RequestOK).  The hard case is a request  *)
(* preempted with a token in flight: nothing is computed of it any more,   *)
(* but the token is still the next one, because with it and the step that  *)
(* preempts the queue is full, and so the output is collected before the   *)
(* request can be scheduled again.                                         *)
(***************************************************************************)
EXTENDS AsyncScheduler, FiniteSetTheorems, SequenceTheorems, WellFoundedInduction, TLAPS

\* Two steps in flight without reset_prefix_cache, or one at a time.  With more
\* steps a preempted request may be resumed before its older step is collected,
\* and one flag cannot say how many tokens in flight a reset has to discard.
Supported ==
  \A c \in Configs : \/ c.batchQueueSize = 1
                     \/ c.batchQueueSize = 2 /\ c.maxResets = 0

Scheduling == phase \in {"running", "waiting", "dispatch"}
Left(r)    == status[r] = "finished"
Queued(r)  == status[r] \in {"waiting", "preempted"}

\* What the step that is being built computes of r.
Now(r) == IF Scheduling THEN scheduled[r] ELSE 0

\* The number of tokens the step at place i of the queue will deliver to r, and
\* those of all steps: there are two at most.
Token(i, r) == IF i <= Len(batchQueue) /\ batchQueue[i][r] > 0 THEN 1 ELSE 0
Tokens(r)   == Token(1, r) + Token(2, r)

Types ==
  /\ config \in Configs
  /\ phase \in {"idle", "running", "waiting", "dispatch", "collect"}
  /\ status \in [Requests -> {"new", "waiting", "preempted", "running", "finished"}]
  /\ numComputed \in [Requests -> 0 .. MaxModelLen]
  /\ output \in [Requests -> Seq(Nat)]
  /\ placeholders \in [Requests -> 0 .. BatchQueueSize]
  /\ discard \in [Requests -> BOOLEAN]
  /\ held \in [Requests -> Nat]
  /\ scheduled \in [Requests -> Nat]
  /\ batchQueue \in Seq([Requests -> Nat \cup {Absent}])
  /\ tokenBudget \in Nat /\ reqIndex \in Nat \ {0} /\ preempting \in BOOLEAN
  /\ resets \in 0 .. MaxResets

\* A request is in the list of its status, once.
Lists ==
  /\ waiting \in Seq(Requests) /\ IsInjective(waiting)
  /\ running \in Seq(Requests) /\ IsInjective(running)
  /\ \A r \in Requests : /\ status[r] = "running" <=> r \in Range(running)
                         /\ Queued(r) <=> r \in Range(waiting)

\* There is room for the step that is being built.
Queue ==
  /\ Len(batchQueue) <= BatchQueueSize
  /\ phase # "collect" => Len(batchQueue) < BatchQueueSize
  /\ phase = "collect" => Len(batchQueue) > 0
  /\ phase = "waiting" => ~preempting

\* The running loop has not come to the requests from reqIndex on.  A request is
\* scheduled up to the last token there is or will be and not past the end of the
\* model; with a token in flight, only if that is not the last one.
Step ==
  /\ phase = "running" => \A i \in DOMAIN running : i >= reqIndex => scheduled[running[i]] = 0
  /\ Scheduling => \A r \in Requests : scheduled[r] > 0 =>
       /\ status[r] = "running"
       /\ numComputed[r] + scheduled[r] <= numTokens(r) + placeholders[r]
       /\ numComputed[r] + scheduled[r] < MaxModelLen
       /\ Tokens(r) > 0 => AsyncScheduling /\ numComputed[r] + 1 < PromptLen[r] + MaxTokens[r]

\* The tokens in flight are the next ones of the text and are counted by the
\* placeholders.  A running request is computed up to the last of them; one that
\* was preempted with a token in flight will see it collected before it is
\* scheduled again.
RequestOK(r) ==
  /\ Len(output[r]) < MaxTokens[r] /\ numTokens(r) < MaxModelLen
  /\ Token(1, r) > 0 => batchQueue[1][r] = numTokens(r) + 1
  /\ Token(2, r) > 0 => batchQueue[2][r] = numTokens(r) + 1 + Token(1, r)
  /\ placeholders[r] = IF AsyncScheduling THEN Tokens(r) ELSE 0
  /\ AsyncScheduling => ~discard[r]
  /\ status[r] = "new" => Tokens(r) = 0
  /\ status[r] = "running" =>
       IF Tokens(r) = 0 THEN numComputed[r] < numTokens(r)
       ELSE numComputed[r] + 1 = numTokens(r) + Tokens(r)
  /\ status[r] # "running" => numComputed[r] = 0 /\ Token(2, r) = 0
  /\ Queued(r) /\ Tokens(r) > 0 =>
        phase = "collect" \/ (phase \in {"running", "dispatch"} /\ preempting)

RequestsOK == \A r \in Requests : Left(r) \/ RequestOK(r)

\* The second part of PlaceholdersExact.
Bounds ==
  \A r \in Requests : \A i \in DOMAIN batchQueue :
    batchQueue[i][r] <= Smaller(PromptLen[r] + MaxTokens[r], MaxModelLen)

\* The blocks of a running request are enough for the step that is being built.
Held ==
  /\ FreeBlocks >= 0
  /\ \A r \in Requests :
       /\ status[r] = "running" => held[r] >= BlocksFor(numComputed[r] + Now(r))
       /\ status[r] # "running" => held[r] = 0

IInv == /\ Types /\ Lists /\ Queue /\ Step /\ OutputExact /\ Bounds /\ Held
        /\ RequestsOK /\ Supported

-----------------------------------------------------------------------------
(* Numbers and sequences                                                   *)

\* A set of natural numbers that is not empty has a least element.
LEMMA LeastElement ==
  ASSUME NEW S \in SUBSET Nat, S # {}
  PROVE  \E x \in S : \A y \in S : x <= y
<1> DEFINE R == OpToRel(<, Nat)
<1>1. IsWellFoundedOn(R, Nat)
  BY NatLessThanWellFounded
<1>2. \A x, y \in Nat : y < x => <<y, x>> \in R
  BY DEF OpToRel
<1> HIDE DEF R
<1>3. PICK x \in S : \A y \in S : ~(<<y, x>> \in R)
  BY <1>1, WFMin
<1>4. ASSUME NEW y \in S PROVE x <= y
  <2>1. x \in Nat /\ y \in Nat
    OBVIOUS
  <2>2. ~(y < x)
    BY <2>1, <1>2, <1>3, Zenon
  <2> QED BY <2>1, <2>2
<1> QED BY <1>4

\* Division by a positive number, characterised.
LEMMA DivBounds ==
  ASSUME NEW x \in Nat, NEW b \in Nat \ {0}
  PROVE  x \div b \in Nat /\ b * (x \div b) <= x /\ x < b * (x \div b) + b
OBVIOUS

\* Division by a positive number is monotonic.
LEMMA DivMonotonic ==
  ASSUME NEW x \in Nat, NEW y \in Nat, x <= y, NEW b \in Nat \ {0}
  PROVE  x \div b <= y \div b
<1> DEFINE p == x \div b
           q == y \div b
           bp == b * p
           bq == b * q
<1>1. p \in Nat /\ bp <= x /\ q \in Nat /\ y < bq + b
  BY DivBounds
<1>2. bp \in Int /\ bq \in Int
  BY <1>1
<1> HIDE DEF p, q
<1>3. q < p => bq + b <= bp
  BY <1>1
<1> HIDE DEF bp, bq
<1>4. ~(q < p)
  BY <1>1, <1>2, <1>3
<1> QED BY <1>1, <1>4 DEF p, q

\* What is left of a list without the elements of S: a list of the others, without
\* duplicates if it had none (remove_all).
LEMMA WithoutProperties ==
  ASSUME NEW T, NEW s \in Seq(T), NEW S
  PROVE  /\ Without(s, S) \in Seq(T)
         /\ Range(Without(s, S)) = Range(s) \ S
         /\ IsInjective(s) => IsInjective(Without(s, S))
<1> DEFINE I == {i \in DOMAIN s : s[i] \notin S}
           n == Cardinality(I)
           f == [i \in I |-> Rank(I, i)]
           g == [k \in 1 .. n |-> CHOOSE i \in I : Rank(I, i) = k]
<1>1. I \subseteq 1 .. Len(s) /\ Len(s) \in Nat
  BY LenProperties
<1>2. IsFiniteSet(I) /\ n \in Nat
  <2>1. IsFiniteSet(1 .. Len(s))
    BY <1>1, FS_Interval
  <2>2. IsFiniteSet(I)
    BY <1>1, <2>1, FS_Subset
  <2> QED BY <2>2, FS_CardinalityType
<1>3. ASSUME NEW i \in I PROVE Rank(I, i) \in 1 .. n
  <2> DEFINE J == {j \in I : j <= i}
  <2>1. i \in J /\ J \subseteq I
    BY <1>1
  <2>2. IsFiniteSet(J) /\ Cardinality(J) \in Nat /\ Cardinality(J) <= n /\ Cardinality(J) # 0
    BY <1>2, <2>1, FS_Subset, FS_EmptySet, FS_CardinalityType
  <2> QED BY <2>2, <1>2 DEF Rank
<1>4. ASSUME NEW i \in I, NEW j \in I, i < j PROVE Rank(I, i) < Rank(I, j)
  <2> DEFINE Ji == {k \in I : k <= i}
             Jj == {k \in I : k <= j}
  <2>1. Ji \subseteq Jj /\ j \in Jj /\ j \notin Ji /\ Jj \subseteq I
    BY <1>1, <1>4
  <2>2. IsFiniteSet(Jj)
    BY <1>2, <2>1, FS_Subset
  <2>3. Cardinality(Ji) < Cardinality(Jj)
    BY <2>1, <2>2, FS_Subset, FS_CardinalityType
  <2> QED BY <2>3 DEF Rank
<1>5. f \in Injection(I, 1 .. n)
  <2>1. f \in [I -> 1 .. n]
    BY <1>3
  <2>2. ASSUME NEW i \in I, NEW j \in I, f[i] = f[j] PROVE i = j
    <3>1. i \in Int /\ j \in Int
      BY <1>1
    <3>2. i = j \/ i < j \/ j < i
      BY <3>1
    <3>3. Rank(I, i) = Rank(I, j) /\ Rank(I, i) \in Nat
      BY <2>2, <1>3
    <3> QED BY <3>2, <3>3, <1>4
  <2> QED BY <2>1, <2>2 DEF Injection, IsInjective
<1>6. f \in Surjection(I, 1 .. n)
  <2>1. IsFiniteSet(1 .. n) /\ Cardinality(1 .. n) = n
    BY <1>2, FS_Interval
  <2> QED BY <2>1, <1>5, FS_Injection
<1>7. \A k \in 1 .. n : g[k] \in I /\ Rank(I, g[k]) = k
  <2> TAKE k \in 1 .. n
  <2>1. PICK i \in I : f[i] = k
    BY <1>6 DEF Surjection
  <2> QED BY <2>1
<1>8. \A i \in I : g[Rank(I, i)] = i
  <2> TAKE i \in I
  <2>1. Rank(I, i) \in 1 .. n
    BY <1>3
  <2>2. g[Rank(I, i)] \in I /\ Rank(I, g[Rank(I, i)]) = Rank(I, i)
    BY <2>1, <1>7
  <2> QED BY <2>2, <1>5 DEF Injection, IsInjective
<1>9. Without(s, S) = [k \in 1 .. n |-> s[g[k]]]
  BY DEF Without
<1> HIDE DEF n, g
<1>10. Without(s, S) \in Seq(T)
  <2>1. \A k \in 1 .. n : s[g[k]] \in T
    BY <1>7, <1>1, ElementOfSeq
  <2> QED BY <1>2, <1>9, <2>1, IsASeq
<1>11. Range(Without(s, S)) = Range(s) \ S
  <2>1. ASSUME NEW x \in Range(Without(s, S)) PROVE x \in Range(s) \ S
    <3>1. PICK k \in 1 .. n : x = s[g[k]]
      BY <1>9 DEF Range
    <3>2. g[k] \in DOMAIN s /\ s[g[k]] \notin S
      BY <1>7
    <3> QED BY <3>1, <3>2 DEF Range
  <2>2. ASSUME NEW x \in Range(s) \ S PROVE x \in Range(Without(s, S))
    <3>1. PICK i \in DOMAIN s : s[i] = x
      BY DEF Range
    <3>2. i \in I
      BY <3>1
    <3>3. Rank(I, i) \in 1 .. n /\ g[Rank(I, i)] = i
      BY <3>2, <1>3, <1>8
    <3>4. \E k \in 1 .. n : Without(s, S)[k] = x
      BY <3>1, <3>3, <1>9
    <3> QED BY <3>4, <1>9 DEF Range
  <2> QED BY <2>1, <2>2
<1>12. ASSUME IsInjective(s) PROVE IsInjective(Without(s, S))
  <2> SUFFICES ASSUME NEW k \in 1 .. n, NEW l \in 1 .. n, s[g[k]] = s[g[l]]
               PROVE  k = l
    BY <1>9 DEF IsInjective
  <2>1. g[k] \in DOMAIN s /\ g[l] \in DOMAIN s
    BY <1>7
  <2>2. g[k] = g[l]
    BY <2>1, <1>12 DEF IsInjective
  <2> QED BY <2>2, <1>7
<1> QED BY <1>10, <1>11, <1>12

\* Concatenation: elements, and no duplicates when the parts are disjoint.
LEMMA ConcatRange ==
  ASSUME NEW T, NEW s \in Seq(T), NEW t \in Seq(T)
  PROVE  /\ s \o t \in Seq(T)
         /\ Range(s \o t) = Range(s) \cup Range(t)
         /\ IsInjective(s) /\ IsInjective(t) /\ Range(s) \cap Range(t) = {}
              => IsInjective(s \o t)
<1>1. /\ s \o t \in Seq(T)
      /\ Len(s \o t) = Len(s) + Len(t)
      /\ \A i \in 1 .. Len(s) + Len(t) :
           (s \o t)[i] = IF i <= Len(s) THEN s[i] ELSE t[i - Len(s)]
  BY ConcatProperties
<1>2. Range(s \o t) = Range(s) \cup Range(t)
  BY RangeConcatenation
<1>3. /\ Len(s) \in Nat /\ DOMAIN s = 1 .. Len(s)
      /\ Len(t) \in Nat /\ DOMAIN t = 1 .. Len(t)
      /\ DOMAIN (s \o t) = 1 .. Len(s) + Len(t)
  BY <1>1, LenProperties
<1>4. ASSUME IsInjective(s), IsInjective(t), Range(s) \cap Range(t) = {}
      PROVE  IsInjective(s \o t)
  <2> SUFFICES ASSUME NEW i \in 1 .. Len(s) + Len(t), NEW j \in 1 .. Len(s) + Len(t),
                      (s \o t)[i] = (s \o t)[j]
               PROVE  i = j
    BY <1>3 DEF IsInjective
  <2>1. \A k \in 1 .. Len(s), l \in 1 .. Len(t) : s[k] # t[l]
    BY <1>3, <1>4 DEF Range
  <2>2. CASE i <= Len(s) /\ j <= Len(s)
    BY <2>2, <1>1, <1>3, <1>4 DEF IsInjective
  <2>3. CASE i > Len(s) /\ j > Len(s)
    <3>1. /\ i - Len(s) \in DOMAIN t
          /\ j - Len(s) \in DOMAIN t
          /\ t[i - Len(s)] = t[j - Len(s)]
      BY <2>3, <1>1, <1>3
    <3>2. i - Len(s) = j - Len(s)
      BY <3>1, <1>4 DEF IsInjective
    <3> QED BY <3>2, <1>3
  <2>4. CASE i <= Len(s) /\ j > Len(s)
    <3>1. i \in 1 .. Len(s) /\ j - Len(s) \in 1 .. Len(t) /\ s[i] = t[j - Len(s)]
      BY <2>4, <1>1, <1>3
    <3> QED BY <3>1, <2>1
  <2>5. CASE i > Len(s) /\ j <= Len(s)
    <3>1. j \in 1 .. Len(s) /\ i - Len(s) \in 1 .. Len(t) /\ s[j] = t[i - Len(s)]
      BY <2>5, <1>1, <1>3
    <3> QED BY <3>1, <2>1
  <2> QED BY <2>2, <2>3, <2>4, <2>5, <1>3
<1> QED BY <1>1, <1>2, <1>4

\* Lists of different requests.
LEMMA AppendFacts ==
  ASSUME NEW q \in Seq(Requests), IsInjective(q), NEW x \in Requests, x \notin Range(q)
  PROVE  /\ Append(q, x) \in Seq(Requests) /\ IsInjective(Append(q, x))
         /\ Range(Append(q, x)) = Range(q) \cup {x}
<1> DEFINE t == Append(q, x)
<1>1. /\ t \in Seq(Requests) /\ Len(t) = Len(q) + 1 /\ t[Len(q) + 1] = x
      /\ \A i \in 1 .. Len(q) : t[i] = q[i]
  BY AppendProperties
<1>2. /\ Len(q) \in Nat /\ DOMAIN q = 1 .. Len(q) /\ DOMAIN t = 1 .. Len(q) + 1
  BY <1>1, LenProperties
<1> HIDE DEF t
<1>3. \A i \in 1 .. Len(q) + 1 : i \in 1 .. Len(q) \/ i = Len(q) + 1
  BY <1>2
<1>4. \A i \in 1 .. Len(q) : i \in 1 .. Len(q) + 1
  BY <1>2
<1>5. \A i \in 1 .. Len(q) : q[i] # x
  BY <1>2 DEF Range
<1>6. IsInjective(t)
  BY <1>1, <1>2, <1>3, <1>5 DEF IsInjective
<1>7. Len(q) + 1 \in 1 .. Len(q) + 1
  BY <1>2
<1>8. Range(t) = Range(q) \cup {x}
  BY <1>1, <1>2, <1>3, <1>4, <1>7 DEF Range
<1> QED BY <1>1, <1>6, <1>8 DEF t

LEMMA PrependFacts ==
  ASSUME NEW q \in Seq(Requests), IsInjective(q), NEW x \in Requests, x \notin Range(q)
  PROVE  /\ <<x>> \o q \in Seq(Requests) /\ IsInjective(<<x>> \o q)
         /\ Range(<<x>> \o q) = Range(q) \cup {x}
<1> DEFINE s == <<x>>
<1>1. s \in Seq(Requests) /\ IsInjective(s) /\ Range(s) = {x}
  BY DEF IsInjective, Range
<1> HIDE DEF s
<1>2. Range(s) \cap Range(q) = {}
  BY <1>1
<1>3. /\ s \o q \in Seq(Requests) /\ IsInjective(s \o q)
      /\ Range(s \o q) = Range(s) \cup Range(q)
  BY <1>1, <1>2, ConcatRange
<1>4. Range(s \o q) = Range(q) \cup {x}
  BY <1>1, <1>3
<1> QED BY <1>3, <1>4 DEF s

LEMMA FrontFacts ==
  ASSUME NEW q \in Seq(Requests), IsInjective(q), Len(q) > 0
  PROVE  /\ Front(q) \in Seq(Requests) /\ IsInjective(Front(q))
         /\ Last(q) \in Range(q) /\ Range(Front(q)) = Range(q) \ {Last(q)}
         /\ Len(Front(q)) = Len(q) - 1
         /\ \A i \in DOMAIN Front(q) : i \in DOMAIN q /\ Front(q)[i] = q[i]
<1> DEFINE n == Len(q)
           t == SubSeq(q, 1, n - 1)
<1>1. n \in Nat /\ DOMAIN q = 1 .. n /\ n \in 1 .. n
  BY LenProperties
<1>2. \A i \in 1 .. n - 1 : i \in 1 .. n /\ q[i] \in Requests
  BY <1>1, ElementOfSeq
<1>3. /\ t \in Seq(Requests) /\ Len(t) = IF 1 <= n - 1 THEN n - 1 - 1 + 1 ELSE 0
      /\ \A i \in 1 .. n - 1 - 1 + 1 : t[i] = q[1 + i - 1]
  BY <1>1, <1>2, SubSeqProperties
<1>4. Len(t) = n - 1 /\ \A i \in 1 .. n - 1 : t[i] = q[i]
  BY <1>1, <1>3
<1>5. DOMAIN t = 1 .. n - 1
  BY <1>3, <1>4, LenProperties
<1>6. Front(q) = t /\ Last(q) = q[n]
  BY DEF Front, Last
<1> HIDE DEF t
<1>7. IsInjective(t)
  BY <1>1, <1>2, <1>4, <1>5 DEF IsInjective
<1>8. Range(t) = Range(q) \ {q[n]}
  <2> HIDE DEF n
  <2>1. \A i \in 1 .. n : i \in 1 .. n - 1 \/ i = n
    BY <1>1
  <2>2. \A i \in 1 .. n - 1 : i \in 1 .. n /\ i # n
    BY <1>1
  <2>3. \A i \in 1 .. n - 1 : q[i] # q[n]
    BY <1>1, <2>2 DEF IsInjective
  <2> QED BY <1>1, <1>4, <1>5, <2>1, <2>2, <2>3 DEF Range
<1>9. q[n] \in Range(q)
  BY <1>1 DEF Range
<1> QED BY <1>1, <1>2, <1>3, <1>4, <1>5, <1>6, <1>7, <1>8, <1>9

LEMMA TailFacts ==
  ASSUME NEW q \in Seq(Requests), IsInjective(q), q # << >>
  PROVE  /\ Tail(q) \in Seq(Requests) /\ IsInjective(Tail(q))
         /\ Head(q) \in Range(q) /\ Range(Tail(q)) = Range(q) \ {Head(q)}
<1> DEFINE n == Len(q)
           t == Tail(q)
<1>1. n \in Nat /\ n # 0 /\ DOMAIN q = 1 .. n /\ 1 \in 1 .. n /\ Head(q) = q[1]
  BY LenProperties, EmptySeq
<1>2. t \in Seq(Requests) /\ Len(t) = n - 1 /\ \A i \in 1 .. n - 1 : t[i] = q[i + 1]
  BY HeadTailProperties
<1>3. DOMAIN t = 1 .. n - 1
  BY <1>2, LenProperties
<1> HIDE DEF t
<1>4. \A i \in 1 .. n - 1 : i + 1 \in 1 .. n /\ i + 1 # 1
  BY <1>1
<1>5. \A i \in 1 .. n : i = 1 \/ (i - 1 \in 1 .. n - 1 /\ (i - 1) + 1 = i)
  BY <1>1
<1>6. IsInjective(t)
  <2> SUFFICES ASSUME NEW i \in 1 .. n - 1, NEW j \in 1 .. n - 1, t[i] = t[j] PROVE i = j
    BY <1>3 DEF IsInjective
  <2>1. q[i + 1] = q[j + 1]
    BY <1>2
  <2>2. i + 1 = j + 1
    BY <1>1, <1>4, <2>1 DEF IsInjective
  <2> QED BY <1>1, <2>2
<1>7. Range(t) = Range(q) \ {q[1]}
  <2>1. ASSUME NEW i \in 1 .. n - 1 PROVE t[i] \in Range(q) /\ t[i] # q[1]
    <3>1. t[i] = q[i + 1] /\ i + 1 \in 1 .. n /\ i + 1 # 1
      BY <1>2, <1>4
    <3> QED BY <1>1, <3>1 DEF IsInjective, Range
  <2>2. ASSUME NEW i \in 1 .. n, q[i] # q[1] PROVE q[i] \in Range(t)
    <3>1. i - 1 \in 1 .. n - 1 /\ (i - 1) + 1 = i
      BY <1>5, <2>2
    <3>2. t[i - 1] = q[i]
      BY <1>2, <3>1
    <3> HIDE DEF n
    <3> QED BY <1>3, <3>1, <3>2 DEF Range
  <2> HIDE DEF n
  <2> QED BY <1>1, <1>3, <2>1, <2>2 DEF Range
<1> QED BY <1>1, <1>2, <1>6, <1>7 DEF Range, t

-----------------------------------------------------------------------------
(* Sums over the requests                                                  *)

LEMMA FiniteRequests == IsFiniteSet(Requests)
BY AsyncAssumption

\* The recursion of the sum: the value at s from those at smaller sets.
Pick(s) == CHOOSE x \in s : TRUE
SumAt(f, v, s) == IF s = {} THEN 0 ELSE f[Pick(s)] + v[s \ {Pick(s)}]
Sums(f, v) == \A s \in SUBSET Requests : v[s] = SumAt(f, v, s)
SumOf(f) == CHOOSE v : v = [s \in SUBSET Requests |-> SumAt(f, v, s)]

LEMMA SumDef == ASSUME NEW f
  PROVE  MapThenSumSet(LAMBDA r : f[r], Requests) = SumOf(f)[Requests]
BY DEF MapThenSumSet, MapThenFoldSet, SumOf, SumAt, Pick

\* What a set has after one of its elements is removed.
LEMMA PickFacts ==
  ASSUME NEW s \in SUBSET Requests
  PROVE  /\ Cardinality(s) \in Nat
         /\ s # {} => /\ Pick(s) \in s /\ s \ {Pick(s)} \in SUBSET Requests
                      /\ Cardinality(s \ {Pick(s)}) = Cardinality(s) - 1
                      /\ Cardinality(s) # 0
<1>1. IsFiniteSet(s)
  BY FiniteRequests, FS_Subset
<1>2. Cardinality(s) \in Nat /\ (Cardinality(s) = 0 <=> s = {})
  BY <1>1, FS_CardinalityType, FS_EmptySet
<1>3. s # {} => Pick(s) \in s
  BY DEF Pick
<1> HIDE DEF Pick
<1>4. ASSUME s # {} PROVE Cardinality(s \ {Pick(s)}) = Cardinality(s) - 1
  BY <1>1, <1>3, <1>4, FS_RemoveElement
<1> QED BY <1>2, <1>3, <1>4

\* The recursion has a solution: there is one up to every cardinality.
LEMMA SumExists == ASSUME NEW f PROVE Sums(f, SumOf(f))
<1> DEFINE UpTo(n, v) == \A s \in SUBSET Requests : Cardinality(s) <= n => v[s] = SumAt(f, v, s)
           Bad == {n \in Nat : ~ \E v : UpTo(n, v)}
           Extend(v) == [s \in SUBSET Requests |-> SumAt(f, v, s)]
<1>1. Bad = {}
  <2> SUFFICES ASSUME Bad # {} PROVE FALSE
    OBVIOUS
  <2>1. PICK n \in Bad : \A m \in Bad : n <= m
    BY LeastElement
  <2>2. CASE n = 0
    <3>1. UpTo(0, Extend(f))
      <4> SUFFICES ASSUME NEW s \in SUBSET Requests, Cardinality(s) <= 0
                   PROVE  Extend(f)[s] = SumAt(f, Extend(f), s)
        OBVIOUS
      <4>1. Cardinality(s) \in Nat /\ (s # {} => Cardinality(s) # 0)
        BY PickFacts
      <4>2. s = {}
        BY <4>1
      <4> QED BY <4>2 DEF SumAt
    <3> QED BY <2>2, <3>1
  <2>3. CASE n # 0
    <3>1. n - 1 \in Nat /\ n - 1 \notin Bad
      BY <2>1, <2>3
    <3>2. PICK v : UpTo(n - 1, v)
      BY <3>1
    <3>3. ASSUME NEW s \in SUBSET Requests, Cardinality(s) <= n
          PROVE  Extend(v)[s] = SumAt(f, Extend(v), s)
      <4>1. CASE s = {}
        BY <4>1 DEF SumAt
      <4>2. CASE s # {}
        <5> DEFINE t == s \ {Pick(s)}
        <5>1. t \in SUBSET Requests /\ Cardinality(t) <= n - 1
          BY <3>3, <4>2, PickFacts
        <5>2. v[t] = SumAt(f, v, t)
          BY <5>1, <3>2
        <5>3. Extend(v)[t] = v[t]
          BY <5>1, <5>2
        <5>4. SumAt(f, v, s) = SumAt(f, Extend(v), s)
          BY <4>2, <5>3 DEF SumAt
        <5> QED BY <5>4
      <4> QED BY <4>1, <4>2
    <3>4. UpTo(n, Extend(v))
      BY <3>3
    <3> QED BY <3>4, <2>1
  <2> QED BY <2>2, <2>3
<1>2. Cardinality(Requests) \in Nat
  BY PickFacts
<1>3. PICK v : UpTo(Cardinality(Requests), v)
  BY <1>1, <1>2
<1>4. \A s \in SUBSET Requests : v[s] = SumAt(f, v, s)
  <2> SUFFICES ASSUME NEW s \in SUBSET Requests PROVE v[s] = SumAt(f, v, s)
    OBVIOUS
  <2>1. Cardinality(s) <= Cardinality(Requests)
    BY FiniteRequests, FS_Subset
  <2> QED BY <2>1, <1>3
<1>5. \A s \in SUBSET Requests : Extend(v)[s] = v[s]
  BY <1>4
<1>6. ASSUME NEW s \in SUBSET Requests PROVE SumAt(f, v, s) = SumAt(f, Extend(v), s)
  <2>1. s # {} => s \ {Pick(s)} \in SUBSET Requests
    OBVIOUS
  <2> QED BY <2>1, <1>5 DEF SumAt
<1>7. Extend(v) = [s \in SUBSET Requests |-> SumAt(f, Extend(v), s)]
  BY <1>6
<1>8. SumOf(f) = [s \in SUBSET Requests |-> SumAt(f, SumOf(f), s)]
  BY <1>7 DEF SumOf
<1> QED BY <1>8 DEF Sums

\* A sum of natural numbers is one, and is zero if all of them are.
LEMMA SumType ==
  ASSUME NEW f \in [Requests -> Nat]
  PROVE  /\ \A s \in SUBSET Requests : SumOf(f)[s] \in Nat
         /\ (\A r \in Requests : f[r] = 0) => SumOf(f)[Requests] = 0
<1> DEFINE Zero == \A r \in Requests : f[r] = 0
           Good(s) == SumOf(f)[s] \in Nat /\ (Zero => SumOf(f)[s] = 0)
           Bad == {Cardinality(s) : s \in {t \in SUBSET Requests : ~Good(t)}}
<1>1. Bad = {}
  <2> SUFFICES ASSUME Bad # {} PROVE FALSE
    OBVIOUS
  <2>1. Bad \in SUBSET Nat
    BY PickFacts
  <2>2. PICK n \in Bad : \A m \in Bad : n <= m
    BY <2>1, LeastElement
  <2>3. PICK s \in SUBSET Requests : ~Good(s) /\ Cardinality(s) = n
    OBVIOUS
  <2>4. SumOf(f)[s] = SumAt(f, SumOf(f), s)
    BY SumExists DEF Sums
  <2>5. CASE s = {}
    BY <2>3, <2>4, <2>5 DEF SumAt
  <2>6. CASE s # {}
    <3> DEFINE t == s \ {Pick(s)}
    <3>1. /\ t \in SUBSET Requests /\ Cardinality(t) = Cardinality(s) - 1
          /\ Cardinality(s) \in Nat /\ Pick(s) \in Requests
      BY <2>6, PickFacts
    <3>2. Good(t)
      <4>1. Cardinality(t) \notin Bad
        BY <3>1, <2>2, <2>3
      <4> QED BY <3>1, <4>1
    <3>3. SumOf(f)[s] = f[Pick(s)] + SumOf(f)[t]
      BY <2>4, <2>6 DEF SumAt
    <3>4. f[Pick(s)] \in Nat
      BY <3>1
    <3> HIDE DEF t
    <3> QED BY <3>1, <3>2, <3>3, <3>4, <2>3
  <2> QED BY <2>5, <2>6
<1>2. \A s \in SUBSET Requests : Good(s)
  BY <1>1
<1> QED BY <1>2

\* The sum changes by as much as the one number that changes.
LEMMA SumChange ==
  ASSUME NEW f \in [Requests -> Nat], NEW x \in Requests, NEW k \in Nat
  PROVE  SumOf([f EXCEPT ![x] = k])[Requests] = SumOf(f)[Requests] + k - f[x]
<1> DEFINE g == [f EXCEPT ![x] = k]
           Good(s) == SumOf(g)[s] = SumOf(f)[s] + (IF x \in s THEN k - f[x] ELSE 0)
           Bad == {Cardinality(s) : s \in {t \in SUBSET Requests : ~Good(t)}}
<1>1. g \in [Requests -> Nat] /\ g[x] = k /\ \A r \in Requests \ {x} : g[r] = f[r]
  OBVIOUS
<1> HIDE DEF g
<1>2. Bad = {}
  <2> SUFFICES ASSUME Bad # {} PROVE FALSE
    OBVIOUS
  <2>1. Bad \in SUBSET Nat
    BY PickFacts
  <2>2. PICK n \in Bad : \A m \in Bad : n <= m
    BY <2>1, LeastElement
  <2>3. PICK s \in SUBSET Requests : ~Good(s) /\ Cardinality(s) = n
    OBVIOUS
  <2>4. SumOf(f)[s] = SumAt(f, SumOf(f), s) /\ SumOf(g)[s] = SumAt(g, SumOf(g), s)
    BY SumExists DEF Sums
  <2>5. CASE s = {}
    BY <2>3, <2>4, <2>5 DEF SumAt
  <2>6. CASE s # {}
    <3> DEFINE t == s \ {Pick(s)}
    <3>1. /\ t \in SUBSET Requests /\ Cardinality(t) = Cardinality(s) - 1
          /\ Cardinality(s) \in Nat /\ Pick(s) \in Requests /\ Pick(s) \in s
      BY <2>6, PickFacts
    <3>2. Good(t)
      <4>1. Cardinality(t) \notin Bad
        BY <3>1, <2>2, <2>3
      <4> QED BY <3>1, <4>1
    <3>3. /\ SumOf(f)[s] = f[Pick(s)] + SumOf(f)[t]
          /\ SumOf(g)[s] = g[Pick(s)] + SumOf(g)[t]
      BY <2>4, <2>6 DEF SumAt
    <3>4. /\ f[Pick(s)] \in Nat /\ g[Pick(s)] \in Nat /\ f[x] \in Nat
          /\ SumOf(f)[t] \in Nat /\ SumOf(g)[t] \in Nat
      BY <1>1, <3>1, SumType
    <3>5. CASE Pick(s) = x
      <4>1. x \in s /\ x \notin t
        BY <3>1, <3>5
      <4> HIDE DEF t
      <4> QED BY <1>1, <2>3, <3>2, <3>3, <3>4, <3>5, <4>1
    <3>6. CASE Pick(s) # x
      <4>1. x \in s <=> x \in t
        BY <3>1, <3>6
      <4>2. g[Pick(s)] = f[Pick(s)]
        BY <1>1, <3>1, <3>6
      <4> HIDE DEF t
      <4> QED BY <2>3, <3>2, <3>3, <3>4, <4>1, <4>2
    <3> QED BY <3>5, <3>6
  <2> QED BY <2>5, <2>6
<1>3. Good(Requests)
  BY <1>2
<1>4. SumOf(f)[Requests] \in Nat /\ f[x] \in Nat
  BY SumType
<1> QED BY <1>3, <1>4 DEF g


\* Fewer blocks of each request are fewer blocks.
LEMMA SumLeq ==
  ASSUME NEW f \in [Requests -> Nat], NEW g \in [Requests -> Nat],
         \A r \in Requests : f[r] <= g[r]
  PROVE  SumOf(f)[Requests] <= SumOf(g)[Requests]
<1> DEFINE Good(s) == SumOf(f)[s] <= SumOf(g)[s]
           Bad == {Cardinality(s) : s \in {t \in SUBSET Requests : ~Good(t)}}
<1>1. Bad = {}
  <2> SUFFICES ASSUME Bad # {} PROVE FALSE
    OBVIOUS
  <2>1. Bad \in SUBSET Nat
    BY PickFacts
  <2>2. PICK n \in Bad : \A m \in Bad : n <= m
    BY <2>1, LeastElement
  <2>3. PICK s \in SUBSET Requests : ~Good(s) /\ Cardinality(s) = n
    OBVIOUS
  <2>4. SumOf(f)[s] = SumAt(f, SumOf(f), s) /\ SumOf(g)[s] = SumAt(g, SumOf(g), s)
    BY SumExists DEF Sums
  <2>5. CASE s = {}
    BY <2>3, <2>4, <2>5 DEF SumAt
  <2>6. CASE s # {}
    <3> DEFINE t == s \ {Pick(s)}
    <3>1. /\ t \in SUBSET Requests /\ Cardinality(t) = Cardinality(s) - 1
          /\ Cardinality(s) \in Nat /\ Pick(s) \in Requests
      BY <2>6, PickFacts
    <3>2. Good(t)
      <4>1. Cardinality(t) \notin Bad
        BY <3>1, <2>2, <2>3
      <4> QED BY <3>1, <4>1
    <3>3. /\ SumOf(f)[s] = f[Pick(s)] + SumOf(f)[t]
          /\ SumOf(g)[s] = g[Pick(s)] + SumOf(g)[t]
      BY <2>4, <2>6 DEF SumAt
    <3>4. /\ f[Pick(s)] \in Nat /\ g[Pick(s)] \in Nat /\ f[Pick(s)] <= g[Pick(s)]
          /\ SumOf(f)[t] \in Nat /\ SumOf(g)[t] \in Nat
      BY <3>1, SumType
    <3> HIDE DEF t
    <3> QED BY <2>3, <3>2, <3>3, <3>4
  <2> QED BY <2>5, <2>6
<1> QED BY <1>1

\* No request has more blocks than all of them.
LEMMA SumElement ==
  ASSUME NEW f \in [Requests -> Nat], NEW x \in Requests
  PROVE  f[x] <= SumOf(f)[Requests]
<1> DEFINE z == [r \in Requests |-> 0]
           g == [z EXCEPT ![x] = f[x]]
<1>1. z \in [Requests -> Nat] /\ z[x] = 0 /\ \A r \in Requests : z[r] = 0
  OBVIOUS
<1>2. g \in [Requests -> Nat] /\ \A r \in Requests : g[r] <= f[r]
  OBVIOUS
<1>3. SumOf(z)[Requests] = 0
  BY <1>1, SumType
<1>4. SumOf(g)[Requests] = SumOf(z)[Requests] + f[x] - z[x]
  BY <1>1, SumChange
<1>5. SumOf(g)[Requests] <= SumOf(f)[Requests]
  BY <1>2, SumLeq
<1> HIDE DEF z, g
<1>6. f[x] \in Nat
  OBVIOUS
<1> QED BY <1>1, <1>3, <1>4, <1>5, <1>6

-----------------------------------------------------------------------------
(* What the invariant says of a state                                      *)

LEMMA ConstantFacts ==
  /\ NumBlocks \in Nat /\ BlockSize \in Nat \ {0} /\ MaxModelLen \in Nat
  /\ MaxScheduledTokens \in Nat
  /\ \A r \in Requests : /\ PromptLen[r] \in Nat \ {0} /\ MaxTokens[r] \in Nat \ {0}
                         /\ PromptLen[r] < MaxModelLen
BY AsyncAssumption

LEMMA StateFacts ==
  ASSUME IInv
  PROVE  /\ BatchQueueSize \in {1, 2} /\ AsyncScheduling \in BOOLEAN /\ MaxResets \in Nat
         /\ AsyncScheduling => BatchQueueSize = 2
         /\ BatchQueueSize = 2 => MaxResets = 0
         /\ Len(batchQueue) \in {0, 1, 2}
         /\ phase # "collect" => Len(batchQueue) \in {0, 1}
<1>1. config \in Configs
  BY DEF IInv, Types
<1>2. /\ config.batchQueueSize \in {1, 2} /\ config.asyncScheduling \in BOOLEAN
      /\ config.maxResets \in Nat
      /\ config.asyncScheduling => config.batchQueueSize = 2
      /\ config.batchQueueSize = 2 => config.maxResets = 0
  BY <1>1, AsyncAssumption DEF IInv, Supported
<1>3. Len(batchQueue) \in Nat
  BY LenProperties DEF IInv, Types
<1>4. /\ Len(batchQueue) <= BatchQueueSize
      /\ phase # "collect" => Len(batchQueue) < BatchQueueSize
  BY DEF IInv, Queue
<1>5. /\ BatchQueueSize = config.batchQueueSize /\ AsyncScheduling = config.asyncScheduling
      /\ MaxResets = config.maxResets
  BY DEF BatchQueueSize, AsyncScheduling, MaxResets
<1>6. BatchQueueSize \in {1, 2}
  BY <1>2, <1>5
<1>7. ASSUME NEW n \in Nat, NEW b \in {1, 2}
      PROVE  (n <= b => n \in {0, 1, 2}) /\ (n < b => n \in {0, 1})
  <2>1. b = 1 \/ b = 2
    OBVIOUS
  <2> QED BY <2>1
<1>8. /\ Len(batchQueue) \in {0, 1, 2}
      /\ phase # "collect" => Len(batchQueue) \in {0, 1}
  BY <1>3, <1>4, <1>6, <1>7
<1> QED BY <1>2, <1>5, <1>8

LEMMA TokenFacts ==
  ASSUME NEW r \in Requests
  PROVE  /\ Token(1, r) \in {0, 1} /\ Token(2, r) \in {0, 1}
         /\ Tokens(r) = Token(1, r) + Token(2, r) /\ Tokens(r) \in 0 .. 2
<1>1. Token(1, r) \in {0, 1} /\ Token(2, r) \in {0, 1}
  BY DEF Token
<1> QED BY <1>1 DEF Tokens

LEMMA QueueTokens ==
  ASSUME IInv, NEW r \in Requests
  PROVE  /\ Len(batchQueue) = 0 => Token(1, r) = 0 /\ Token(2, r) = 0
         /\ Len(batchQueue) = 1 => Token(2, r) = 0
         /\ \A i \in DOMAIN batchQueue : batchQueue[i][r] \in Nat \cup {Absent}
<1>1. \A i \in DOMAIN batchQueue : batchQueue[i] \in [Requests -> Nat \cup {Absent}]
  BY ElementOfSeq, LenProperties DEF IInv, Types
<1> QED BY <1>1 DEF Token

LEMMA RequestFacts ==
  ASSUME IInv, NEW r \in Requests
  PROVE  /\ PromptLen[r] \in Nat \ {0} /\ MaxTokens[r] \in Nat \ {0}
         /\ Len(output[r]) \in Nat /\ numTokens(r) \in Nat \ {0}
         /\ numTokens(r) = PromptLen[r] + Len(output[r])
         /\ numComputed[r] \in Nat /\ numComputed[r] <= MaxModelLen /\ MaxModelLen \in Nat
         /\ placeholders[r] \in Nat /\ placeholders[r] <= BatchQueueSize
         /\ scheduled[r] \in Nat /\ held[r] \in Nat
         /\ output[r] \in Seq(Nat)
         /\ DOMAIN output[r] = 1 .. Len(output[r])
<1>1. output[r] \in Seq(Nat) /\ numComputed[r] \in 0 .. MaxModelLen
      /\ placeholders[r] \in 0 .. BatchQueueSize /\ scheduled[r] \in Nat /\ held[r] \in Nat
  BY DEF IInv, Types
<1>2. Len(output[r]) \in Nat /\ DOMAIN output[r] = 1 .. Len(output[r])
  BY <1>1, LenProperties
<1>3. MaxModelLen \in Nat /\ BatchQueueSize \in Nat
  BY StateFacts, ConstantFacts
<1>4. PromptLen[r] \in Nat \ {0} /\ MaxTokens[r] \in Nat \ {0}
  BY ConstantFacts
<1>5. numTokens(r) = PromptLen[r] + Len(output[r]) /\ numTokens(r) \in Nat \ {0}
  BY <1>2, <1>4 DEF numTokens
<1> QED BY <1>1, <1>2, <1>3, <1>4, <1>5

LEMMA NotLeft ==
  ASSUME IInv, NEW r \in Requests, status[r] # "finished"
  PROVE  RequestOK(r)
BY DEF IInv, RequestsOK, Left

LEMMA SumHeld ==
  ASSUME IInv
  PROVE  /\ FreeBlocks = NumBlocks - SumOf(held)[Requests]
         /\ SumOf(held)[Requests] \in Nat /\ SumOf(held)[Requests] <= NumBlocks
         /\ held \in [Requests -> Nat]
<1>1. held \in [Requests -> Nat]
  BY DEF IInv, Types
<1>2. FreeBlocks = NumBlocks - SumOf(held)[Requests]
  BY SumDef DEF FreeBlocks
<1>3. SumOf(held)[Requests] \in Nat
  BY <1>1, SumType
<1>4. FreeBlocks >= 0
  BY DEF IInv, Held
<1> QED BY <1>1, <1>2, <1>3, <1>4, ConstantFacts

LEMMA FreeNext == FreeBlocks' = NumBlocks - SumOf(held')[Requests]
BY DEF FreeBlocks, MapThenSumSet, MapThenFoldSet, SumOf, SumAt, Pick

\* A step that moves no block leaves as many free.
LEMMA SameFree ==
  ASSUME IInv, held' = held
  PROVE  FreeBlocks' >= 0
<1>1. FreeBlocks' = FreeBlocks
  BY FreeNext, SumHeld
<1> QED BY <1>1 DEF IInv, Held

\* Fewer blocks are still not too many.
LEMMA FewerHeld ==
  ASSUME IInv, held' \in [Requests -> Nat], \A r \in Requests : held'[r] <= held[r]
  PROVE  FreeBlocks' >= 0
<1>1. SumOf(held')[Requests] <= SumOf(held)[Requests] /\ SumOf(held')[Requests] \in Nat
  BY SumHeld, SumLeq, SumType
<1>2. FreeBlocks' = NumBlocks - SumOf(held')[Requests]
  BY FreeNext
<1> QED BY <1>1, <1>2, SumHeld, ConstantFacts

LEMMA BlocksForFacts ==
  ASSUME NEW x \in Nat, NEW y \in Nat, x <= y
  PROVE  BlocksFor(x) \in Nat /\ BlocksFor(x) <= BlocksFor(y)
<1>1. /\ x + BlockSize - 1 \in Nat /\ y + BlockSize - 1 \in Nat
      /\ x + BlockSize - 1 <= y + BlockSize - 1
  BY ConstantFacts
<1> QED BY <1>1, DivBounds, DivMonotonic, ConstantFacts DEF BlocksFor

\* The blocks that allocate_slots takes are there.
LEMMA AllocatedHeld ==
  ASSUME IInv, NEW r \in Requests, NEW n \in Nat, CanAllocateSlots(r, n),
         held' = [held EXCEPT ![r] = BlocksFor(numComputed[r] + n)]
  PROVE  FreeBlocks' >= 0 /\ held' \in [Requests -> Nat]
<1> DEFINE k == BlocksFor(numComputed[r] + n)
<1>1. numComputed[r] + n \in Nat
  BY RequestFacts
<1>2. k \in Nat
  BY <1>1, BlocksForFacts
<1>3. k - held[r] <= FreeBlocks
  BY DEF CanAllocateSlots
<1> HIDE DEF k
<1>4. held' = [held EXCEPT ![r] = k]
  BY DEF k
<1>5. SumOf([held EXCEPT ![r] = k])[Requests] = SumOf(held)[Requests] + k - held[r]
  BY <1>2, SumHeld, SumChange
<1>6. FreeBlocks' = NumBlocks - SumOf([held EXCEPT ![r] = k])[Requests]
  BY <1>4, FreeNext
<1>7. held' \in [Requests -> Nat]
  BY <1>2, <1>4, SumHeld
<1>8. FreeBlocks' >= 0
  BY <1>2, <1>3, <1>5, <1>6, SumHeld, RequestFacts, ConstantFacts
<1> QED BY <1>7, <1>8

-----------------------------------------------------------------------------
(* What a step leaves alone                                                *)

\* A request that nothing happens to stays as it should be.
LEMMA SameRequest ==
  ASSUME NEW r \in Requests, RequestOK(r), config' = config, batchQueue' = batchQueue,
         status'[r] = status[r], numComputed'[r] = numComputed[r], output'[r] = output[r],
         placeholders'[r] = placeholders[r], discard'[r] = discard[r],
         Queued(r) /\ Tokens(r) > 0 =>
           phase' = "collect" \/ (phase' \in {"running", "dispatch"} /\ preempting')
  PROVE  RequestOK(r)'
BY DEF RequestOK, Queued, Tokens, Token, numTokens, AsyncScheduling

\* Without a token on its way a request in a queue may be started.
LEMMA NothingInFlight ==
  ASSUME IInv, NEW r \in Requests, Queued(r),
         phase \in {"idle", "waiting"} \/ (phase # "collect" /\ ~preempting)
  PROVE  Tokens(r) = 0
<1>1. RequestOK(r)
  BY NotLeft DEF Queued
<1>2. ~(Tokens(r) > 0)
  BY <1>1 DEF RequestOK, IInv, Queue
<1> QED BY <1>2, TokenFacts

\* A step that only moves on in the schedule.
LEMMA SameState ==
  ASSUME IInv, UNCHANGED <<requestVars, batchQueue, config, resets>>, UNCHANGED queueVars
  PROVE  /\ Lists' /\ OutputExact' /\ Bounds'
         /\ phase' = phase /\ (preempting => preempting') => RequestsOK'
<1>1. Lists'
  BY DEF IInv, Lists, Queued, requestVars, queueVars
<1>2. OutputExact'
  BY DEF IInv, OutputExact, requestVars
<1>3. Bounds'
  BY DEF IInv, Bounds
<1>4. ASSUME phase' = phase, preempting => preempting', NEW r \in Requests
      PROVE  (Left(r) \/ RequestOK(r))'
  <2>1. CASE Left(r)
    BY <2>1 DEF Left, requestVars
  <2>2. CASE RequestOK(r)
    <3>1. Queued(r) /\ Tokens(r) > 0 =>
            phase' = "collect" \/ (phase' \in {"running", "dispatch"} /\ preempting')
      BY <1>4, <2>2 DEF RequestOK
    <3> QED BY <2>2, <3>1, SameRequest DEF requestVars
  <2> QED BY <2>1, <2>2 DEF IInv, RequestsOK
<1> QED BY <1>1, <1>2, <1>3, <1>4 DEF RequestsOK

LEMMA InitIInv == Supported /\ Init => IInv
<1> SUFFICES ASSUME Supported, Init PROVE IInv
  OBVIOUS
<1>1. Len(batchQueue) = 0 /\ DOMAIN batchQueue = {} /\ config \in Configs
  BY DEF Init
<1>2. BatchQueueSize \in Nat \ {0} /\ MaxResets \in Nat
  BY <1>1, AsyncAssumption DEF BatchQueueSize, MaxResets
<1>3. Types
  <2>1. /\ output \in [Requests -> Seq(Nat)] /\ batchQueue \in Seq([Requests -> Nat \cup {Absent}])
    BY EmptySeq DEF Init
  <2>2. /\ numComputed \in [Requests -> 0 .. MaxModelLen]
        /\ placeholders \in [Requests -> 0 .. BatchQueueSize]
        /\ resets \in 0 .. MaxResets
    BY <1>2, ConstantFacts DEF Init
  <2>3. /\ status \in [Requests -> {"new", "waiting", "preempted", "running", "finished"}]
        /\ phase \in {"idle", "running", "waiting", "dispatch", "collect"}
    BY DEF Init
  <2>4. /\ held \in [Requests -> Nat] /\ scheduled \in [Requests -> Nat]
        /\ tokenBudget \in Nat /\ reqIndex \in Nat \ {0}
    BY DEF Init
  <2>5. discard \in [Requests -> BOOLEAN] /\ preempting \in BOOLEAN
    BY Zenon DEF Init
  <2> QED BY <1>1, <2>1, <2>2, <2>3, <2>4, <2>5 DEF Types
<1>4. Lists
  <2>1. waiting \in Seq(Requests) /\ running \in Seq(Requests)
    BY EmptySeq DEF Init
  <2>2. DOMAIN waiting = {} /\ DOMAIN running = {}
    BY DEF Init
  <2> QED BY <2>1, <2>2 DEF Init, Lists, Queued, IsInjective, Range
<1>5. Queue
  BY <1>1, <1>2 DEF Init, Queue
<1>6. Step
  BY DEF Init, Step, Scheduling
<1>7. OutputExact
  BY DEF Init, OutputExact
<1>8. Bounds
  BY <1>1 DEF Bounds
<1>9. Held
  <2>1. held \in [Requests -> Nat] /\ \A r \in Requests : held[r] = 0
    BY DEF Init
  <2>2. FreeBlocks = NumBlocks - SumOf(held)[Requests]
    BY SumDef DEF FreeBlocks
  <2>3. FreeBlocks >= 0
    BY <2>1, <2>2, SumType, ConstantFacts
  <2> QED BY <2>1, <2>3 DEF Init, Held
<1>10. RequestsOK
  <2> SUFFICES ASSUME NEW r \in Requests PROVE RequestOK(r)
    BY DEF RequestsOK
  <2>1. Len(output[r]) = 0 /\ numTokens(r) = PromptLen[r]
    BY ConstantFacts DEF Init, numTokens
  <2>2. Token(1, r) = 0 /\ Token(2, r) = 0 /\ Tokens(r) = 0
    BY <1>1 DEF Token, Tokens
  <2> QED BY <2>1, <2>2, ConstantFacts DEF Init, RequestOK, Queued
<1> QED BY <1>3, <1>4, <1>5, <1>6, <1>7, <1>8, <1>9, <1>10 DEF IInv

LEMMA AddRequestPreserves ==
  ASSUME IInv, NEW a \in Requests, AddRequest(a) PROVE IInv'
<1> USE DEF AddRequest, stepVars
<1>1. Types'
  BY AppendProperties DEF IInv, Types, BatchQueueSize, MaxResets
<1>2. Lists'
  <2>1. a \notin Range(waiting) /\ waiting \in Seq(Requests) /\ IsInjective(waiting)
    BY DEF IInv, Lists, Queued
  <2>2. /\ waiting' \in Seq(Requests) /\ IsInjective(waiting')
        /\ Range(waiting') = Range(waiting) \cup {a}
    BY <2>1, AppendFacts
  <2> QED BY <2>2 DEF IInv, Lists, Queued, Types
<1>3. Queue' /\ Step' /\ OutputExact' /\ Bounds'
  BY DEF IInv, Queue, Step, Scheduling, OutputExact, Bounds, BatchQueueSize
<1>4. RequestsOK'
  <2> SUFFICES ASSUME NEW r \in Requests PROVE (Left(r) \/ RequestOK(r))'
    BY DEF RequestsOK
  <2>1. CASE r = a
    <3>1. RequestOK(a)
      BY NotLeft
    <3>2. status'[a] = "waiting"
      BY DEF IInv, Types
    <3> QED BY <2>1, <3>1, <3>2, TokenFacts
         DEF RequestOK, Queued, Tokens, Token, numTokens, AsyncScheduling
  <2>2. CASE r # a
    <3>1. status'[r] = status[r]
      BY <2>2 DEF IInv, Types
    <3>2. CASE Left(r)
      BY <3>1, <3>2 DEF Left
    <3>3. CASE RequestOK(r)
      <4>1. ~(Queued(r) /\ Tokens(r) > 0)
        BY <3>3, NothingInFlight, TokenFacts
      <4> QED BY <3>1, <3>3, <4>1, SameRequest
    <3> QED BY <3>2, <3>3 DEF IInv, RequestsOK
  <2> QED BY <2>1, <2>2
<1>5. Held'
  <2>1. FreeBlocks' >= 0
    BY SameFree
  <2> QED BY <2>1 DEF IInv, Types, Held, Now, Scheduling, BlocksFor
<1> QED BY <1>1, <1>2, <1>3, <1>4, <1>5 DEF IInv, Supported

LEMMA AbortPreserves ==
  ASSUME IInv, NEW a \in Requests, Abort(a) PROVE IInv'
<1> USE DEF Abort, stepVars
<1>1. Types'
  BY DEF IInv, Types, BatchQueueSize, MaxResets
<1>2. Lists'
  <2>1. /\ waiting \in Seq(Requests) /\ IsInjective(waiting)
        /\ running \in Seq(Requests) /\ IsInjective(running)
    BY DEF IInv, Lists
  <2>2. /\ waiting' \in Seq(Requests) /\ IsInjective(waiting')
        /\ Range(waiting') = Range(waiting) \ {a}
    BY <2>1, WithoutProperties
  <2>3. /\ running' \in Seq(Requests) /\ IsInjective(running')
        /\ Range(running') = Range(running) \ {a}
    BY <2>1, WithoutProperties
  <2> QED BY <2>2, <2>3 DEF IInv, Lists, Queued, Types
<1>3. Queue' /\ Step' /\ OutputExact' /\ Bounds'
  BY DEF IInv, Queue, Step, Scheduling, OutputExact, Bounds, BatchQueueSize
<1>4. RequestsOK'
  <2> SUFFICES ASSUME NEW r \in Requests PROVE (Left(r) \/ RequestOK(r))'
    BY DEF RequestsOK
  <2>1. CASE r = a
    BY <2>1 DEF Left, IInv, Types
  <2>2. CASE r # a
    <3>1. status'[r] = status[r]
      BY <2>2 DEF IInv, Types
    <3>2. CASE Left(r)
      BY <3>1, <3>2 DEF Left
    <3>3. CASE RequestOK(r)
      <4>1. Queued(r) /\ Tokens(r) > 0 => phase' = "collect"
        BY <3>3 DEF RequestOK
      <4> QED BY <3>1, <3>3, <4>1, SameRequest
    <3> QED BY <3>2, <3>3 DEF IInv, RequestsOK
  <2> QED BY <2>1, <2>2
<1>5. Held'
  <2>1. held \in [Requests -> Nat] /\ held' \in [Requests -> Nat]
    BY DEF IInv, Types
  <2>2. ASSUME NEW r \in Requests PROVE held'[r] <= held[r]
    <3>1. held[r] \in Nat /\ (held'[r] = held[r] \/ held'[r] = 0)
      BY <2>1
    <3> QED BY <3>1
  <2>3. FreeBlocks' >= 0
    BY <2>1, <2>2, FewerHeld
  <2> QED BY <2>3 DEF IInv, Types, Held, Now, Scheduling, BlocksFor
<1> QED BY <1>1, <1>2, <1>3, <1>4, <1>5 DEF IInv, Supported

-----------------------------------------------------------------------------
(* schedule()                                                              *)

LEMMA StartPreserves ==
  ASSUME IInv, StartSchedule PROVE IInv'
<1> USE DEF StartSchedule, requestVars, queueVars
<1>1. Types'
  <2>1. scheduled' \in [Requests -> Nat] /\ reqIndex' \in Nat \ {0} /\ tokenBudget' \in Nat
    BY ConstantFacts
  <2> QED BY <2>1 DEF IInv, Types, BatchQueueSize, MaxResets
<1>2. Lists' /\ OutputExact' /\ Bounds'
  BY SameState
<1>3. Queue' /\ Step'
  BY DEF IInv, Lists, Queue, Step, Scheduling, BatchQueueSize
<1>4. RequestsOK'
  <2> SUFFICES ASSUME NEW r \in Requests PROVE (Left(r) \/ RequestOK(r))'
    BY DEF RequestsOK
  <2>1. CASE Left(r)
    BY <2>1 DEF Left
  <2>2. CASE RequestOK(r)
    <3>1. ~(Queued(r) /\ Tokens(r) > 0)
      BY NothingInFlight, TokenFacts
    <3> QED BY <2>2, <3>1, SameRequest
  <2> QED BY <2>1, <2>2 DEF IInv, RequestsOK
<1>5. Held'
  <2>1. FreeBlocks' >= 0
    BY SameFree
  <2>2. ASSUME NEW r \in Requests PROVE Now(r)' = Now(r)
    BY DEF Now, Scheduling
  <2> QED BY <2>1, <2>2 DEF IInv, Held, BlocksFor
<1> QED BY <1>1, <1>2, <1>3, <1>4, <1>5 DEF IInv, Supported

\* The blocks of a state in which the requests have and need what they did.
LEMMA SameHeld ==
  ASSUME IInv, UNCHANGED requestVars, \A r \in Requests : Now(r)' = Now(r)
  PROVE  Held'
<1>1. FreeBlocks' >= 0
  BY SameFree DEF requestVars
<1> QED BY <1>1 DEF IInv, Held, BlocksFor, requestVars

LEMMA SkipPreserves ==
  ASSUME IInv, SkipRunning PROVE IInv'
<1> USE DEF SkipRunning, InRunningLoop
<1>1. Types'
  BY DEF IInv, Types, BatchQueueSize, MaxResets, requestVars, queueVars
<1>2. Lists' /\ OutputExact' /\ Bounds' /\ RequestsOK'
  BY SameState
<1>3. Queue'
  BY DEF IInv, Queue, BatchQueueSize
<1>4. Step'
  <2>1. \A i \in DOMAIN running : i >= reqIndex + 1 => scheduled[running[i]] = 0
    <3>1. reqIndex \in Nat /\ DOMAIN running \subseteq Nat
      <4>1. running \in Seq(Requests) /\ reqIndex \in Nat
        BY DEF IInv, Types, Lists
      <4>2. DOMAIN running = 1 .. Len(running) /\ Len(running) \in Nat
        BY <4>1, LenProperties
      <4> QED BY <4>1, <4>2
    <3>2. \A i \in DOMAIN running : i >= reqIndex => scheduled[running[i]] = 0
      BY DEF IInv, Step
    <3> QED BY <3>1, <3>2
  <2> QED BY <2>1 DEF IInv, Step, Scheduling, Tokens, Token, numTokens, AsyncScheduling,
                      requestVars, queueVars
<1>5. Held'
  <2>1. ASSUME NEW r \in Requests PROVE Now(r)' = Now(r)
    BY DEF Now, Scheduling
  <2> QED BY <2>1, SameHeld
<1> QED BY <1>1, <1>2, <1>3, <1>4, <1>5 DEF IInv, Supported

LEMMA EndRunningPreserves ==
  ASSUME IInv, EndRunning PROVE IInv'
<1> USE DEF EndRunning, stepVars
<1>1. Types'
  BY DEF IInv, Types, BatchQueueSize, MaxResets, requestVars, queueVars
<1>2. Lists' /\ OutputExact' /\ Bounds'
  BY SameState
<1>3. Queue' /\ Step'
  BY DEF IInv, Queue, BatchQueueSize, Step, Scheduling, Tokens, Token, numTokens,
         AsyncScheduling, requestVars
<1>4. RequestsOK'
  <2> SUFFICES ASSUME NEW r \in Requests PROVE (Left(r) \/ RequestOK(r))'
    BY DEF RequestsOK
  <2>1. CASE Left(r)
    BY <2>1 DEF Left, requestVars
  <2>2. CASE RequestOK(r)
    <3>1. Queued(r) /\ Tokens(r) > 0 => phase' = "dispatch" /\ preempting'
      BY <2>2 DEF RequestOK
    <3> QED BY <2>2, <3>1, SameRequest DEF requestVars
  <2> QED BY <2>1, <2>2 DEF IInv, RequestsOK
<1>5. Held'
  <2>1. ASSUME NEW r \in Requests PROVE Now(r)' = Now(r)
    BY DEF Now, Scheduling
  <2> QED BY <2>1, SameHeld
<1> QED BY <1>1, <1>2, <1>3, <1>4, <1>5 DEF IInv, Supported

LEMMA EndWaitingPreserves ==
  ASSUME IInv, EndWaiting PROVE IInv'
<1> USE DEF EndWaiting, stepVars
<1>1. Types'
  BY DEF IInv, Types, BatchQueueSize, MaxResets, requestVars, queueVars
<1>2. Lists' /\ OutputExact' /\ Bounds'
  BY SameState
<1>3. Queue' /\ Step'
  BY DEF IInv, Queue, BatchQueueSize, Step, Scheduling, Tokens, Token, numTokens,
         AsyncScheduling, requestVars
<1>4. RequestsOK'
  <2> SUFFICES ASSUME NEW r \in Requests PROVE (Left(r) \/ RequestOK(r))'
    BY DEF RequestsOK
  <2>1. CASE Left(r)
    BY <2>1 DEF Left, requestVars
  <2>2. CASE RequestOK(r)
    <3>1. ~(Queued(r) /\ Tokens(r) > 0)
      BY NothingInFlight, TokenFacts
    <3> QED BY <2>2, <3>1, SameRequest DEF requestVars
  <2> QED BY <2>1, <2>2 DEF IInv, RequestsOK
<1>5. Held'
  <2>1. ASSUME NEW r \in Requests PROVE Now(r)' = Now(r)
    BY DEF Now, Scheduling
  <2> QED BY <2>1, SameHeld
<1> QED BY <1>1, <1>2, <1>3, <1>4, <1>5 DEF IInv, Supported

LEMMA OnlyCollectPreserves ==
  ASSUME IInv, OnlyCollect PROVE IInv'
<1> USE DEF OnlyCollect, stepVars
<1>1. Types'
  BY DEF IInv, Types, BatchQueueSize, MaxResets, requestVars, queueVars
<1>2. Lists' /\ OutputExact' /\ Bounds'
  BY SameState
<1>3. Queue'
  <2>1. Len(batchQueue) > 0
    BY EmptySeq, LenProperties DEF IInv, Types
  <2> QED BY <2>1 DEF IInv, Queue, BatchQueueSize
<1>4. Step'
  BY DEF Step, Scheduling
<1>5. RequestsOK'
  <2> SUFFICES ASSUME NEW r \in Requests PROVE (Left(r) \/ RequestOK(r))'
    BY DEF RequestsOK
  <2>1. CASE Left(r)
    BY <2>1 DEF Left, requestVars
  <2>2. CASE RequestOK(r)
    BY <2>2, SameRequest DEF requestVars
  <2> QED BY <2>1, <2>2 DEF IInv, RequestsOK
<1>6. Held'
  <2>1. ASSUME NEW r \in Requests PROVE Now(r)' = Now(r)
    BY DEF Now, Scheduling
  <2> QED BY <2>1, SameHeld
<1> QED BY <1>1, <1>2, <1>3, <1>4, <1>5, <1>6 DEF IInv, Supported

\* What a running request is scheduled for, at most.
LEMMA NumNewTokensFacts ==
  ASSUME IInv, NEW r \in Requests
  PROVE  /\ NumNewTokens(r) \in Int
         /\ numComputed[r] + NumNewTokens(r) <= numTokens(r) + placeholders[r]
         /\ NumNewTokens(r) <= tokenBudget
         /\ numComputed[r] + NumNewTokens(r) < MaxModelLen
<1>1. ASSUME NEW n \in Int, NEW p \in Int, NEW c \in Int, NEW b \in Int, NEW m \in Int
      PROVE  LET k == Smaller(Smaller(n + p - c, b), m - 1 - c)
             IN  k \in Int /\ c + k <= n + p /\ k <= b /\ c + k < m
  BY DEF Smaller
<1>2. tokenBudget \in Int
  BY DEF IInv, Types
<1>3. /\ numTokens(r) \in Int /\ placeholders[r] \in Int /\ numComputed[r] \in Int
      /\ MaxModelLen \in Int
  BY RequestFacts
<1> QED BY <1>1, <1>2, <1>3 DEF NumNewTokens

\* The request that is looked at is running and not scheduled yet, nor is the last
\* one of the list.
LEMMA NextRunning ==
  ASSUME IInv, InRunningLoop
  PROVE  LET r == running[reqIndex] IN
         /\ r \in Requests /\ status[r] = "running" /\ scheduled[r] = 0
         /\ reqIndex \in DOMAIN running /\ DOMAIN running = 1 .. Len(running)
         /\ Len(running) \in Nat /\ Len(running) > 0
         /\ Last(running) \in Requests /\ status[Last(running)] = "running"
         /\ scheduled[Last(running)] = 0
         /\ running \in Seq(Requests) /\ IsInjective(running)
<1>1. running \in Seq(Requests) /\ IsInjective(running) /\ reqIndex \in Nat \ {0}
  BY DEF IInv, Types, Lists
<1>2. Len(running) \in Nat /\ DOMAIN running = 1 .. Len(running)
  BY <1>1, LenProperties
<1>3. reqIndex <= Len(running) /\ phase = "running"
  BY DEF InRunningLoop
<1>4. reqIndex \in DOMAIN running /\ Len(running) \in DOMAIN running /\ Len(running) > 0
  BY <1>1, <1>2, <1>3
<1>5. ASSUME NEW i \in DOMAIN running, i >= reqIndex
      PROVE  running[i] \in Requests /\ status[running[i]] = "running" /\ scheduled[running[i]] = 0
  <2>1. running[i] \in Requests
    BY <1>1, <1>2, ElementOfSeq
  <2>2. running[i] \in Range(running)
    BY DEF Range
  <2> QED BY <1>3, <1>5, <2>1, <2>2 DEF IInv, Lists, Step
<1>6. reqIndex >= reqIndex /\ Len(running) >= reqIndex
  BY <1>1, <1>2, <1>3
<1>7. Last(running) = running[Len(running)]
  BY DEF Last
<1> QED BY <1>1, <1>2, <1>4, <1>5, <1>6, <1>7

\* A running request that may be scheduled has no token in flight, or it has one,
\* under async scheduling, that is not the last.
LEMMA MayContinue ==
  ASSUME IInv, NEW r \in Requests, status[r] = "running", phase # "collect",
         ~SureToStop(r), NumNewTokens(r) > 0, Tokens(r) > 0
  PROVE  AsyncScheduling /\ numComputed[r] + 1 < PromptLen[r] + MaxTokens[r]
<1>1. RequestOK(r)
  BY NotLeft
<1>2. Tokens(r) = 1
  BY StateFacts, TokenFacts, QueueTokens
<1>3. numComputed[r] + 1 = numTokens(r) + Tokens(r)
  BY <1>1, <1>2 DEF RequestOK
<1>4. AsyncScheduling
  <2> SUFFICES ASSUME ~AsyncScheduling PROVE FALSE
    OBVIOUS
  <2>1. placeholders[r] = 0
    BY <1>1 DEF RequestOK
  <2> QED BY <1>2, <1>3, <2>1, NumNewTokensFacts, RequestFacts
<1>5. placeholders[r] = 1
  BY <1>1, <1>2, <1>4 DEF RequestOK
<1>6. ~(numComputed[r] + 2 - 1 >= PromptLen[r] + MaxTokens[r])
  BY <1>5 DEF SureToStop
<1> QED BY <1>4, <1>6, RequestFacts

LEMMA ScheduleRunningPreserves ==
  ASSUME IInv, ScheduleRunning PROVE IInv'
<1> DEFINE r == running[reqIndex]
           n == NumNewTokens(r)
<1>1. /\ InRunningLoop /\ ~SureToStop(r) /\ n > 0 /\ CanAllocateSlots(r, n)
      /\ held' = [held EXCEPT ![r] = BlocksFor(numComputed[r] + n)]
      /\ scheduled' = [scheduled EXCEPT ![r] = n]
      /\ tokenBudget' = tokenBudget - n /\ reqIndex' = reqIndex + 1
      /\ UNCHANGED <<phase, status, numComputed, output, placeholders, discard,
                     queueVars, preempting, batchQueue, toldFinished, resets, config>>
  BY DEF ScheduleRunning
<1>2. /\ r \in Requests /\ status[r] = "running" /\ scheduled[r] = 0
      /\ reqIndex \in DOMAIN running /\ DOMAIN running = 1 .. Len(running)
      /\ Len(running) \in Nat /\ IsInjective(running)
  BY <1>1, NextRunning
<1> HIDE DEF r
<1>3. /\ n \in Nat \ {0} /\ n <= tokenBudget
      /\ numComputed[r] + n <= numTokens(r) + placeholders[r]
      /\ numComputed[r] + n < MaxModelLen
  BY <1>1, <1>2, NumNewTokensFacts
<1>4. phase = "running"
  BY <1>1 DEF InRunningLoop
<1>5. Tokens(r) > 0 => AsyncScheduling /\ numComputed[r] + 1 < PromptLen[r] + MaxTokens[r]
  BY <1>1, <1>2, <1>4, MayContinue
<1>6. FreeBlocks' >= 0 /\ held' \in [Requests -> Nat]
  BY <1>1, <1>2, <1>3, AllocatedHeld
<1> HIDE DEF n
<1>7. /\ scheduled' \in [Requests -> Nat] /\ scheduled'[r] = n
      /\ \A s \in Requests \ {r} : scheduled'[s] = scheduled[s] /\ held'[s] = held[s]
      /\ held'[r] = BlocksFor(numComputed[r] + n)
  BY <1>1, <1>2, <1>3 DEF IInv, Types
<1>8. Types'
  <2>1. tokenBudget' \in Nat /\ reqIndex' \in Nat \ {0}
    BY <1>1, <1>3 DEF IInv, Types
  <2> QED BY <1>1, <1>6, <1>7, <2>1 DEF IInv, Types, BatchQueueSize, MaxResets
<1>9. Lists' /\ OutputExact' /\ Bounds' /\ Queue'
  BY <1>1 DEF IInv, Lists, Queued, OutputExact, Bounds, Queue, BatchQueueSize, queueVars
<1>10. Step'
  <2>1. \A i \in DOMAIN running : i >= reqIndex + 1 => scheduled'[running[i]] = 0
    <3> SUFFICES ASSUME NEW i \in DOMAIN running, i >= reqIndex + 1
                 PROVE  scheduled'[running[i]] = 0
      OBVIOUS
    <3>1. i # reqIndex /\ i >= reqIndex
      BY <1>2
    <3>2. running[i] # r
      BY <1>2, <3>1 DEF IsInjective, r
    <3>3. running[i] \in Requests
      BY <1>2, ElementOfSeq DEF IInv, Lists
    <3> QED BY <1>4, <1>7, <3>1, <3>2, <3>3 DEF IInv, Step
  <2>2. ASSUME NEW s \in Requests, scheduled'[s] > 0
        PROVE  /\ status[s] = "running"
               /\ numComputed[s] + scheduled'[s] <= numTokens(s) + placeholders[s]
               /\ numComputed[s] + scheduled'[s] < MaxModelLen
               /\ Tokens(s) > 0 => /\ AsyncScheduling
                                   /\ numComputed[s] + 1 < PromptLen[s] + MaxTokens[s]
    <3>1. CASE s = r
      BY <1>2, <1>3, <1>5, <1>7, <3>1
    <3>2. CASE s # r
      BY <1>4, <1>7, <2>2, <3>2 DEF IInv, Step, Scheduling
    <3> QED BY <3>1, <3>2
  <2> QED BY <1>1, <2>1, <2>2
       DEF Step, Tokens, Token, numTokens, AsyncScheduling, queueVars
<1>11. RequestsOK'
  <2> SUFFICES ASSUME NEW s \in Requests PROVE (Left(s) \/ RequestOK(s))'
    BY DEF RequestsOK
  <2>1. CASE Left(s)
    BY <1>1, <2>1 DEF Left
  <2>2. CASE RequestOK(s)
    <3>1. Queued(s) /\ Tokens(s) > 0 => phase = "running" /\ preempting
      BY <1>4, <2>2 DEF RequestOK
    <3> QED BY <1>1, <2>2, <3>1, SameRequest
  <2> QED BY <2>1, <2>2 DEF IInv, RequestsOK
<1>12. Held'
  <2>1. ASSUME NEW s \in Requests
        PROVE  /\ status[s] = "running" => held'[s] >= BlocksFor(numComputed[s] + scheduled'[s])
               /\ status[s] # "running" => held'[s] = 0
    <3>1. CASE s = r
      <4>1. BlocksFor(numComputed[r] + n) \in Nat
        <5>1. numComputed[r] + n \in Nat
          BY <1>2, <1>3, RequestFacts
        <5> QED BY <5>1, BlocksForFacts
      <4> QED BY <1>2, <1>7, <3>1, <4>1
    <3>2. CASE s # r
      BY <1>4, <1>7, <3>2 DEF IInv, Held, Now, Scheduling
    <3> QED BY <3>1, <3>2
  <2>2. \A s \in Requests : Now(s)' = scheduled'[s]
    BY <1>1, <1>4 DEF Now, Scheduling
  <2> QED BY <1>1, <1>6, <2>1, <2>2 DEF Held, BlocksFor
<1> QED BY <1>8, <1>9, <1>10, <1>11, <1>12 DEF IInv, Supported

LEMMA PreemptPreserves ==
  ASSUME IInv, PreemptVictim PROVE IInv'
<1> DEFINE v == Last(running)
<1>1. /\ InRunningLoop
      /\ running' = Front(running)
      /\ held' = [held EXCEPT ![v] = 0]
      /\ status' = [status EXCEPT ![v] = "preempted"]
      /\ numComputed' = [numComputed EXCEPT ![v] = 0]
      /\ waiting' = <<v>> \o waiting
      /\ preempting' = TRUE
      /\ phase' \in {"running", "dispatch"}
      /\ UNCHANGED <<output, placeholders, discard, scheduled, reqIndex, tokenBudget,
                     batchQueue, toldFinished, resets, config>>
  BY DEF PreemptVictim, PreemptRequest
<1>2. /\ v \in Requests /\ status[v] = "running" /\ scheduled[v] = 0
      /\ running \in Seq(Requests) /\ IsInjective(running) /\ Len(running) > 0
  BY <1>1, NextRunning
<1>3. phase = "running"
  BY <1>1 DEF InRunningLoop
<1>4. /\ running' \in Seq(Requests) /\ IsInjective(running')
      /\ Range(running') = Range(running) \ {v}
      /\ \A i \in DOMAIN running' : i \in DOMAIN running /\ running'[i] = running[i]
  BY <1>1, <1>2, FrontFacts
<1> HIDE DEF v
<1>5. /\ status'[v] = "preempted" /\ numComputed'[v] = 0 /\ held'[v] = 0
      /\ \A s \in Requests \ {v} : /\ status'[s] = status[s] /\ held'[s] = held[s]
                                   /\ numComputed'[s] = numComputed[s]
      /\ held' \in [Requests -> Nat] /\ numComputed' \in [Requests -> 0 .. MaxModelLen]
      /\ status' \in [Requests -> {"new", "waiting", "preempted", "running", "finished"}]
  <2>1. 0 \in 0 .. MaxModelLen
    BY ConstantFacts
  <2> QED BY <1>1, <1>2, <2>1 DEF IInv, Types
<1>6. Types'
  BY <1>1, <1>5 DEF IInv, Types, BatchQueueSize, MaxResets
<1>7. Lists'
  <2>1. v \notin Range(waiting) /\ waiting \in Seq(Requests) /\ IsInjective(waiting)
    BY <1>2 DEF IInv, Lists, Queued
  <2>2. /\ waiting' \in Seq(Requests) /\ IsInjective(waiting')
        /\ Range(waiting') = Range(waiting) \cup {v}
    BY <1>1, <1>2, <2>1, PrependFacts
  <2> QED BY <1>4, <1>5, <2>2 DEF IInv, Lists, Queued
<1>8. OutputExact' /\ Bounds' /\ Queue'
  BY <1>1, <1>3 DEF IInv, OutputExact, Bounds, Queue, BatchQueueSize
<1>9. Step'
  <2>1. \A i \in DOMAIN running' : i >= reqIndex => scheduled[running'[i]] = 0
    BY <1>3, <1>4 DEF IInv, Step
  <2>2. ASSUME NEW s \in Requests, scheduled[s] > 0 PROVE s # v
    BY <1>2, <2>2
  <2> QED BY <1>1, <1>3, <1>5, <2>1, <2>2
       DEF IInv, Step, Scheduling, Tokens, Token, numTokens, AsyncScheduling
<1>10. RequestsOK'
  <2> SUFFICES ASSUME NEW s \in Requests PROVE (Left(s) \/ RequestOK(s))'
    BY DEF RequestsOK
  <2>1. CASE s = v
    <3>1. RequestOK(v)
      BY <1>2, NotLeft
    <3>2. Token(2, v) = 0
      BY <1>2, <1>3, StateFacts, QueueTokens
    <3> QED BY <1>1, <1>5, <2>1, <3>1, <3>2
         DEF RequestOK, Queued, Tokens, Token, numTokens, AsyncScheduling
  <2>2. CASE s # v
    <3>1. CASE Left(s)
      BY <1>5, <2>2, <3>1 DEF Left
    <3>2. CASE RequestOK(s)
      BY <1>1, <1>5, <2>2, <3>2, SameRequest
    <3> QED BY <3>1, <3>2 DEF IInv, RequestsOK
  <2> QED BY <2>1, <2>2
<1>11. Held'
  <2>1. ASSUME NEW s \in Requests PROVE held'[s] <= held[s]
    <3>1. held[s] \in Nat
      BY RequestFacts
    <3>2. s = v \/ held'[s] = held[s]
      BY <1>5
    <3> QED BY <1>5, <3>1, <3>2
  <2>2. FreeBlocks' >= 0
    BY <1>5, <2>1, FewerHeld
  <2>3. ASSUME NEW s \in Requests PROVE Now(s)' = Now(s)
    BY <1>1, <1>3 DEF Now, Scheduling
  <2> QED BY <1>1, <1>2, <1>5, <2>2, <2>3 DEF IInv, Held, BlocksFor
<1> QED BY <1>6, <1>7, <1>8, <1>9, <1>10, <1>11 DEF IInv, Supported

LEMMA ScheduleWaitingPreserves ==
  ASSUME IInv, ScheduleWaiting PROVE IInv'
<1> DEFINE r == Head(waiting)
           n == Smaller(numTokens(r), tokenBudget)
<1>1. /\ phase = "waiting" /\ waiting # << >> /\ tokenBudget > 0
      /\ CanAllocateSlots(r, n)
      /\ held' = [held EXCEPT ![r] = BlocksFor(n)]
      /\ scheduled' = [scheduled EXCEPT ![r] = n]
      /\ status' = [status EXCEPT ![r] = "running"]
      /\ waiting' = Tail(waiting) /\ running' = Append(running, r)
      /\ tokenBudget' = tokenBudget - n
      /\ UNCHANGED <<phase, numComputed, output, placeholders, discard, reqIndex,
                     preempting, batchQueue, toldFinished, resets, config>>
  BY DEF ScheduleWaiting, CanStart
<1>2. /\ waiting' \in Seq(Requests) /\ IsInjective(waiting') /\ r \in Range(waiting)
      /\ Range(waiting') = Range(waiting) \ {r}
  BY <1>1, TailFacts DEF IInv, Lists
<1>3. r \in Requests /\ Queued(r)
  <2>1. waiting \in Seq(Requests)
    BY DEF IInv, Lists
  <2>2. r \in Requests
    BY <1>1, <2>1, HeadTailProperties
  <2> QED BY <1>2, <2>2 DEF IInv, Lists
<1>4. /\ running' \in Seq(Requests) /\ IsInjective(running')
      /\ Range(running') = Range(running) \cup {r}
  <2>1. r \notin Range(running) /\ running \in Seq(Requests) /\ IsInjective(running)
    BY <1>3 DEF IInv, Lists, Queued
  <2> QED BY <1>1, <1>3, <2>1, AppendFacts
<1> HIDE DEF r
<1>5. /\ n \in Nat \ {0} /\ n <= tokenBudget /\ n <= numTokens(r)
  <2>1. numTokens(r) \in Nat \ {0} /\ tokenBudget \in Nat
    BY <1>3, RequestFacts DEF IInv, Types
  <2> QED BY <1>1, <2>1 DEF Smaller
<1> HIDE DEF n
<1>6. RequestOK(r) /\ Tokens(r) = 0 /\ numComputed[r] = 0
  <2>1. Tokens(r) = 0
    BY <1>1, <1>3, NothingInFlight
  <2>2. RequestOK(r)
    BY <1>3, NotLeft DEF Queued
  <2> QED BY <1>3, <2>1, <2>2 DEF RequestOK, Queued
<1>7. FreeBlocks' >= 0 /\ held' \in [Requests -> Nat]
  <2>1. held' = [held EXCEPT ![r] = BlocksFor(numComputed[r] + n)]
    BY <1>1, <1>5, <1>6
  <2> QED BY <1>1, <1>3, <1>5, <2>1, AllocatedHeld
<1>8. /\ status'[r] = "running" /\ held'[r] = BlocksFor(n) /\ scheduled'[r] = n
      /\ \A s \in Requests \ {r} : /\ status'[s] = status[s] /\ held'[s] = held[s]
                                   /\ scheduled'[s] = scheduled[s]
      /\ scheduled' \in [Requests -> Nat]
      /\ status' \in [Requests -> {"new", "waiting", "preempted", "running", "finished"}]
  BY <1>1, <1>3, <1>5 DEF IInv, Types
<1>9. Types'
  <2>1. tokenBudget' \in Nat
    BY <1>1, <1>5 DEF IInv, Types
  <2> QED BY <1>1, <1>7, <1>8, <2>1 DEF IInv, Types, BatchQueueSize, MaxResets
<1>10. Lists'
  BY <1>2, <1>3, <1>4, <1>8 DEF IInv, Lists, Queued
<1>11. OutputExact' /\ Bounds' /\ Queue'
  BY <1>1 DEF IInv, OutputExact, Bounds, Queue, BatchQueueSize
<1>12. Step'
  <2>1. ASSUME NEW s \in Requests, scheduled'[s] > 0
        PROVE  /\ status'[s] = "running"
               /\ numComputed[s] + scheduled'[s] <= numTokens(s) + placeholders[s]
               /\ numComputed[s] + scheduled'[s] < MaxModelLen
               /\ Tokens(s) > 0 => /\ AsyncScheduling
                                   /\ numComputed[s] + 1 < PromptLen[s] + MaxTokens[s]
    <3>1. CASE s = r
      <4>1. /\ numTokens(r) \in Nat /\ numTokens(r) < MaxModelLen /\ MaxModelLen \in Nat
            /\ placeholders[r] \in Nat
        BY <1>3, <1>6, RequestFacts DEF RequestOK
      <4> QED BY <1>5, <1>6, <1>8, <3>1, <4>1
    <3>2. CASE s # r
      BY <1>1, <1>8, <2>1, <3>2 DEF IInv, Step, Scheduling
    <3> QED BY <3>1, <3>2
  <2> QED BY <1>1, <2>1 DEF Step, Tokens, Token, numTokens, AsyncScheduling
<1>13. RequestsOK'
  <2> SUFFICES ASSUME NEW s \in Requests PROVE (Left(s) \/ RequestOK(s))'
    BY DEF RequestsOK
  <2>1. CASE s = r
    <3>1. /\ numTokens(s) \in Nat /\ 0 < numTokens(s) /\ RequestOK(s)
          /\ numComputed[s] = 0 /\ status'[s] = "running"
      BY <1>3, <1>6, <1>8, <2>1, RequestFacts
    <3>2. Token(1, s) = 0 /\ Token(2, s) = 0
      BY <1>6, <2>1, TokenFacts
    <3>3. Token(1, s)' = 0 /\ Token(2, s)' = 0
      BY <1>1, <3>2 DEF Token
    <3>4. Tokens(s)' = 0 /\ numTokens(s)' = numTokens(s) /\ AsyncScheduling' = AsyncScheduling
      BY <1>1, <3>3 DEF Tokens, numTokens, AsyncScheduling
    <3>5. status[s] \notin {"new", "running"}
      BY <1>3, <2>1 DEF Queued
    <3> QED BY <1>1, <1>6, <2>1, <3>1, <3>3, <3>4, <3>5 DEF RequestOK, Queued
  <2>2. CASE s # r
    <3>1. CASE Left(s)
      BY <1>8, <2>2, <3>1 DEF Left
    <3>2. CASE RequestOK(s)
      <4>1. ~(Queued(s) /\ Tokens(s) > 0)
        BY <1>1, NothingInFlight, TokenFacts
      <4> QED BY <1>1, <1>8, <2>2, <3>2, <4>1, SameRequest
    <3> QED BY <3>1, <3>2 DEF IInv, RequestsOK
  <2> QED BY <2>1, <2>2
<1>14. Held'
  <2>1. ASSUME NEW s \in Requests
        PROVE  /\ status'[s] = "running" => held'[s] >= BlocksFor(numComputed[s] + scheduled'[s])
               /\ status'[s] # "running" => held'[s] = 0
    <3>1. CASE s = r
      <4>1. BlocksFor(n) \in Nat /\ numComputed[r] + n = n
        BY <1>5, <1>6, BlocksForFacts
      <4> QED BY <1>8, <3>1, <4>1
    <3>2. CASE s # r
      BY <1>1, <1>8, <3>2 DEF IInv, Held, Now, Scheduling
    <3> QED BY <3>1, <3>2
  <2>2. \A s \in Requests : Now(s)' = scheduled'[s]
    BY <1>1 DEF Now, Scheduling
  <2> QED BY <1>1, <1>7, <2>1, <2>2 DEF Held, BlocksFor
<1> QED BY <1>9, <1>10, <1>11, <1>12, <1>13, <1>14 DEF IInv, Supported

-----------------------------------------------------------------------------
(* The step goes into the queue                                            *)

NewToken(r) == IF Batch[r] > 0 THEN 1 ELSE 0

LEMMA BatchType == ASSUME IInv PROVE Batch \in [Requests -> Nat \cup {Absent}]
<1>1. ASSUME NEW s \in Requests PROVE numComputed[s] + scheduled[s] + 1 \in Nat
  BY RequestFacts
<1> QED BY <1>1 DEF Batch, NoToken

\* What is in the new step for a request.
LEMMA BatchFacts ==
  ASSUME IInv, phase = "dispatch", NEW r \in Requests
  PROVE  /\ NewToken(r) \in {0, 1}
         /\ scheduled[r] = 0 => NewToken(r) = 0 /\ Batch[r] = Absent
         /\ scheduled[r] > 0 =>
              /\ status[r] = "running" /\ RequestOK(r)
              /\ NewToken(r) = 1 =>
                   /\ numComputed[r] + scheduled[r] = numTokens(r) + placeholders[r]
                   /\ Batch[r] = numTokens(r) + placeholders[r] + 1
              /\ NewToken(r) = 0 =>
                   /\ numComputed[r] + scheduled[r] < numTokens(r) + placeholders[r]
                   /\ Batch[r] = NoToken
         /\ NewToken(r) = 1 <=> r \in ScheduledReqs /\ Samples(r)
<1>1. ASSUME NEW s \in Requests
      PROVE  /\ scheduled[s] \in Nat /\ numComputed[s] \in Nat /\ placeholders[s] \in Nat
             /\ numTokens(s) \in Nat
  BY RequestFacts
<1>2. Batch[r] = IF ~(scheduled[r] > 0) THEN -1
                 ELSE IF numComputed[r] + scheduled[r] >= numTokens(r) + placeholders[r]
                 THEN numComputed[r] + scheduled[r] + 1 ELSE 0
  BY DEF Batch, ScheduledReqs, Samples, Absent, NoToken
<1>3. scheduled[r] > 0 =>
        /\ status[r] = "running"
        /\ numComputed[r] + scheduled[r] <= numTokens(r) + placeholders[r]
  BY DEF IInv, Step, Scheduling
<1>4. scheduled[r] > 0 => RequestOK(r)
  BY <1>3, NotLeft
<1>5. NewToken(r) = IF Batch[r] > 0 THEN 1 ELSE 0
  BY DEF NewToken
<1>6. r \in ScheduledReqs /\ Samples(r) <=>
        /\ scheduled[r] > 0
        /\ numComputed[r] + scheduled[r] >= numTokens(r) + placeholders[r]
  BY DEF ScheduledReqs, Samples
<1>7. ASSUME NEW s \in Nat, NEW c \in Nat, NEW p \in Nat, NEW n \in Nat, NEW b, NEW t,
             b = IF ~(s > 0) THEN -1 ELSE IF c + s >= n + p THEN c + s + 1 ELSE 0,
             t = IF b > 0 THEN 1 ELSE 0, s > 0 => c + s <= n + p
      PROVE  /\ t \in {0, 1} /\ (s = 0 => t = 0 /\ b = -1)
             /\ s > 0 => /\ t = 1 => c + s = n + p /\ b = n + p + 1
                         /\ t = 0 => c + s < n + p /\ b = 0
             /\ t = 1 <=> s > 0 /\ c + s >= n + p
  BY <1>7
<1>8. /\ NewToken(r) \in {0, 1} /\ (scheduled[r] = 0 => NewToken(r) = 0 /\ Batch[r] = -1)
      /\ scheduled[r] > 0 =>
           /\ NewToken(r) = 1 =>
                /\ numComputed[r] + scheduled[r] = numTokens(r) + placeholders[r]
                /\ Batch[r] = numTokens(r) + placeholders[r] + 1
           /\ NewToken(r) = 0 =>
                /\ numComputed[r] + scheduled[r] < numTokens(r) + placeholders[r]
                /\ Batch[r] = 0
      /\ NewToken(r) = 1 <=> /\ scheduled[r] > 0
                             /\ numComputed[r] + scheduled[r] >= numTokens(r) + placeholders[r]
  BY <1>1, <1>2, <1>3, <1>5, <1>7
<1> QED BY <1>3, <1>4, <1>6, <1>8 DEF Absent, NoToken

LEMMA DispatchTokens ==
  ASSUME IInv, Dispatch, NEW r \in Requests
  PROVE  /\ batchQueue' \in Seq([Requests -> Nat \cup {Absent}])
         /\ Len(batchQueue') = Len(batchQueue) + 1
         /\ \A i \in 1 .. Len(batchQueue) : batchQueue'[i] = batchQueue[i]
         /\ batchQueue'[Len(batchQueue) + 1] = Batch
         /\ Token(1, r)' = IF Len(batchQueue) = 0 THEN NewToken(r) ELSE Token(1, r)
         /\ Token(2, r)' = IF Len(batchQueue) = 0 THEN 0 ELSE NewToken(r)
         /\ Tokens(r)' = Tokens(r) + NewToken(r)
<1>1. phase = "dispatch" /\ batchQueue' = Append(batchQueue, Batch)
  BY DEF Dispatch
<1>2. Batch \in [Requests -> Nat \cup {Absent}] /\ NewToken(r) \in {0, 1}
  BY <1>1, BatchFacts, BatchType
<1>3. /\ batchQueue' \in Seq([Requests -> Nat \cup {Absent}])
      /\ Len(batchQueue') = Len(batchQueue) + 1
      /\ \A i \in 1 .. Len(batchQueue) : batchQueue'[i] = batchQueue[i]
      /\ batchQueue'[Len(batchQueue) + 1] = Batch
  BY <1>1, <1>2, AppendProperties DEF IInv, Types
<1>4. Len(batchQueue) \in {0, 1}
  BY <1>1, StateFacts
<1>5. CASE Len(batchQueue) = 0
  <2>1. Len(batchQueue') = 1 /\ batchQueue'[1] = Batch
    BY <1>3, <1>5
  <2>2. Token(1, r)' = NewToken(r) /\ Token(2, r)' = 0
    BY <2>1 DEF Token, NewToken
  <2>3. Token(1, r) = 0 /\ Token(2, r) = 0
    BY <1>5, QueueTokens
  <2> QED BY <1>2, <1>3, <1>5, <2>2, <2>3 DEF Tokens
<1>6. CASE Len(batchQueue) = 1
  <2>1. Len(batchQueue') = 2 /\ batchQueue'[1] = batchQueue[1] /\ batchQueue'[2] = Batch
    BY <1>3, <1>6
  <2>2. Token(1, r)' = Token(1, r) /\ Token(2, r)' = NewToken(r)
    BY <1>6, <2>1 DEF Token, NewToken
  <2>3. Token(1, r) \in {0, 1} /\ Token(2, r) = 0
    BY <1>6, QueueTokens, TokenFacts
  <2> QED BY <1>2, <1>3, <1>6, <2>2, <2>3 DEF Tokens
<1> QED BY <1>4, <1>5, <1>6

LEMMA DispatchPreserves ==
  ASSUME IInv, Dispatch PROVE IInv'
<1>1. /\ phase = "dispatch" /\ phase' \in {"collect", "idle"}
      /\ phase' = "idle" => MayReturn
      /\ batchQueue' = Append(batchQueue, Batch)
      /\ \A r \in Requests :
           /\ numComputed'[r] = numComputed[r] + scheduled[r]
           /\ placeholders'[r] = IF AsyncScheduling /\ r \in ScheduledReqs /\ Samples(r)
                                 THEN placeholders[r] + 1 ELSE placeholders[r]
      /\ DOMAIN numComputed' = Requests /\ DOMAIN placeholders' = Requests
      /\ numComputed' = [r \in Requests |-> numComputed'[r]]
      /\ placeholders' = [r \in Requests |-> placeholders'[r]]
      /\ UNCHANGED <<status, output, discard, held, queueVars, stepVars, resets, config>>
  BY DEF Dispatch
<1>2. Len(batchQueue) \in {0, 1} /\ Len(batchQueue) < BatchQueueSize /\ BatchQueueSize \in {1, 2}
  BY <1>1, StateFacts DEF IInv, Queue
<1>3. phase' = "idle" => Len(batchQueue) = 0 /\ BatchQueueSize = 2
  BY <1>1, <1>2 DEF MayReturn
<1>4. ASSUME NEW r \in Requests
      PROVE  placeholders'[r] = IF AsyncScheduling THEN placeholders[r] + NewToken(r)
                                ELSE placeholders[r]
  <2>1. NewToken(r) \in {0, 1} /\ (NewToken(r) = 1 <=> r \in ScheduledReqs /\ Samples(r))
    BY <1>1, BatchFacts
  <2>2. placeholders[r] \in Nat
    BY RequestFacts
  <2> QED BY <1>1, <2>1, <2>2
<1>5. ASSUME NEW r \in Requests, RequestOK(r) PROVE RequestOK(r)'
  <2>1. /\ Token(1, r)' = IF Len(batchQueue) = 0 THEN NewToken(r) ELSE Token(1, r)
        /\ Token(2, r)' = IF Len(batchQueue) = 0 THEN 0 ELSE NewToken(r)
        /\ Tokens(r)' = Tokens(r) + NewToken(r)
        /\ Len(batchQueue) = 0 => batchQueue'[1] = Batch
        /\ Len(batchQueue) = 1 => batchQueue'[1] = batchQueue[1] /\ batchQueue'[2] = Batch
    BY <1>2, DispatchTokens
  <2>2. /\ Token(1, r) \in {0, 1} /\ Token(2, r) = 0 /\ Tokens(r) = Token(1, r)
        /\ Len(batchQueue) = 0 => Token(1, r) = 0
    BY <1>2, TokenFacts, QueueTokens
  <2>3. /\ numTokens(r)' = numTokens(r) /\ output' = output /\ AsyncScheduling' = AsyncScheduling
        /\ status' = status /\ discard' = discard
    BY <1>1 DEF numTokens, AsyncScheduling
  <2>4. /\ numTokens(r) \in Nat /\ numComputed[r] \in Nat /\ placeholders[r] \in Nat
        /\ scheduled[r] \in Nat
    BY RequestFacts
  <2>5. /\ numComputed'[r] = numComputed[r] + scheduled[r]
        /\ placeholders'[r] = IF AsyncScheduling THEN placeholders[r] + NewToken(r)
                              ELSE placeholders[r]
    BY <1>1, <1>4
  <2>6. /\ Len(output[r]) < MaxTokens[r] /\ numTokens(r) < MaxModelLen
        /\ Token(1, r) > 0 => batchQueue[1][r] = numTokens(r) + 1
        /\ placeholders[r] = IF AsyncScheduling THEN Tokens(r) ELSE 0
        /\ AsyncScheduling => ~discard[r]
        /\ status[r] = "new" => Tokens(r) = 0
        /\ status[r] = "running" =>
             IF Tokens(r) = 0 THEN numComputed[r] < numTokens(r)
             ELSE numComputed[r] + 1 = numTokens(r) + Tokens(r)
        /\ status[r] # "running" => numComputed[r] = 0
    BY <1>5 DEF RequestOK
  <2>7. CASE scheduled[r] = 0
    <3>1. NewToken(r) = 0 /\ Batch[r] = Absent
      BY <1>1, <2>7, BatchFacts
    <3>2. /\ Token(1, r)' = Token(1, r) /\ Token(2, r)' = 0 /\ Tokens(r)' = Tokens(r)
          /\ numComputed'[r] = numComputed[r] /\ placeholders'[r] = placeholders[r]
      BY <1>2, <2>1, <2>2, <2>4, <2>5, <2>7, <3>1
    <3>3. Token(1, r)' > 0 => batchQueue'[1][r] = numTokens(r) + 1
      BY <1>2, <2>1, <2>2, <2>6, <3>2
    <3>4. Tokens(r) > 0 => phase' = "collect"
      BY <1>1, <1>3, <2>2
    <3> QED BY <2>2, <2>3, <2>6, <3>2, <3>3, <3>4 DEF RequestOK, Queued
  <2>8. CASE scheduled[r] > 0
    <3>1. /\ status[r] = "running"
          /\ Tokens(r) > 0 => AsyncScheduling
      BY <1>1, <2>8 DEF IInv, Step, Scheduling
    <3>2. placeholders[r] = Tokens(r)
      BY <2>2, <2>6, <3>1
    <3>3. CASE NewToken(r) = 1
      <4>1. /\ numComputed[r] + scheduled[r] = numTokens(r) + placeholders[r]
            /\ Batch[r] = numTokens(r) + placeholders[r] + 1
        BY <1>1, <2>8, <3>3, BatchFacts
      <4>2. Token(1, r)' > 0 => batchQueue'[1][r] = numTokens(r) + 1
        <5>1. CASE Len(batchQueue) = 0
          <6>1. Tokens(r) = 0 /\ placeholders[r] = 0 /\ batchQueue'[1] = Batch
            BY <2>1, <2>2, <2>6, <3>2, <5>1
          <6> QED BY <2>4, <4>1, <6>1
        <5>2. CASE Len(batchQueue) = 1
          BY <2>1, <2>6, <5>2
        <5> QED BY <1>2, <5>1, <5>2
      <4>3. Token(2, r)' > 0 => batchQueue'[2][r] = numTokens(r) + 1 + Token(1, r)'
        <5>1. CASE Len(batchQueue) = 0
          BY <2>1, <5>1
        <5>2. CASE Len(batchQueue) = 1
          <6>1. /\ batchQueue'[2] = Batch /\ Token(1, r)' = Token(1, r)
                /\ Tokens(r) = Token(1, r)
            BY <2>1, <2>2, <5>2
          <6>2. CASE AsyncScheduling
            <7>1. placeholders[r] = Token(1, r)
              BY <2>6, <6>1, <6>2
            <7> QED BY <2>2, <2>4, <4>1, <6>1, <7>1
          <6>3. CASE ~AsyncScheduling
            <7>1. placeholders[r] = 0 /\ Token(1, r) = 0
              BY <2>2, <2>6, <3>1, <6>1, <6>3
            <7> QED BY <2>4, <4>1, <6>1, <7>1
          <6> QED BY <6>2, <6>3
        <5> QED BY <1>2, <5>1, <5>2
      <4>4. /\ Tokens(r)' = Tokens(r) + 1 /\ Tokens(r)' # 0
            /\ numComputed'[r] + 1 = numTokens(r) + Tokens(r)'
            /\ placeholders'[r] = IF AsyncScheduling THEN Tokens(r)' ELSE 0
        BY <2>1, <2>2, <2>4, <2>5, <2>6, <3>2, <3>3, <4>1
      <4> QED BY <2>3, <2>6, <3>1, <4>2, <4>3, <4>4 DEF RequestOK, Queued
    <3>4. CASE NewToken(r) = 0
      <4>1. numComputed[r] + scheduled[r] < numTokens(r) + placeholders[r]
        BY <1>1, <2>8, <3>4, BatchFacts
      <4>2. Tokens(r) = 0
        BY <2>2, <2>4, <2>6, <2>8, <3>1, <3>2, <4>1
      <4>3. Token(1, r)' = 0 /\ Token(2, r)' = 0 /\ Tokens(r)' = 0
        BY <1>2, <2>1, <2>2, <3>4, <4>2
      <4>4. /\ numComputed'[r] < numTokens(r)
            /\ placeholders'[r] = IF AsyncScheduling THEN Tokens(r)' ELSE 0
        BY <2>4, <2>5, <2>6, <3>2, <3>4, <4>1, <4>2, <4>3
      <4> QED BY <2>3, <2>6, <3>1, <4>3, <4>4 DEF RequestOK, Queued
    <3> QED BY <1>1, <3>3, <3>4, BatchFacts
  <2> QED BY <2>4, <2>7, <2>8
<1>6. RequestsOK'
  <2> SUFFICES ASSUME NEW r \in Requests PROVE (Left(r) \/ RequestOK(r))'
    BY DEF RequestsOK
  <2>1. Left(r) => Left(r)'
    BY <1>1 DEF Left
  <2> QED BY <1>5, <2>1 DEF IInv, RequestsOK
<1>7. Types'
  <2>1. ASSUME NEW r \in Requests
        PROVE  numComputed'[r] \in 0 .. MaxModelLen /\ placeholders'[r] \in 0 .. BatchQueueSize
    <3>1. /\ numComputed[r] \in Nat /\ scheduled[r] \in Nat /\ MaxModelLen \in Nat
          /\ numComputed[r] <= MaxModelLen
          /\ placeholders[r] \in Nat /\ placeholders[r] <= BatchQueueSize
      BY RequestFacts
    <3>2. scheduled[r] = 0 \/ numComputed[r] + scheduled[r] < MaxModelLen
      BY <1>1, <3>1 DEF IInv, Step, Scheduling
    <3>3. numComputed'[r] \in 0 .. MaxModelLen
      BY <1>1, <3>1, <3>2
    <3>4. CASE placeholders'[r] = placeholders[r]
      BY <1>2, <3>1, <3>3, <3>4
    <3>5. CASE placeholders'[r] # placeholders[r]
      <4>1. NewToken(r) = 1 /\ AsyncScheduling /\ placeholders'[r] = placeholders[r] + 1
        BY <1>1, <1>4, <3>1, <3>5, BatchFacts
      <4>2. RequestOK(r)
        BY <1>1, <4>1, <3>1, BatchFacts
      <4>3. placeholders[r] = Tokens(r)
        BY <4>1, <4>2 DEF RequestOK
      <4>4. Tokens(r) \in {0, 1} /\ BatchQueueSize = 2
        BY <1>2, <4>1, StateFacts, QueueTokens, TokenFacts
      <4> QED BY <3>3, <4>1, <4>3, <4>4
    <3> QED BY <3>3, <3>4, <3>5
  <2>2. /\ numComputed' \in [Requests -> 0 .. MaxModelLen]
        /\ placeholders' \in [Requests -> 0 .. BatchQueueSize]
    BY <1>1, <2>1
  <2>3. batchQueue' \in Seq([Requests -> Nat \cup {Absent}])
    BY <1>1, BatchType, AppendProperties DEF IInv, Types
  <2> QED BY <1>1, <2>2, <2>3 DEF IInv, Types, BatchQueueSize, MaxResets, stepVars
<1>8. Lists' /\ OutputExact'
  BY <1>1 DEF IInv, Lists, Queued, OutputExact, queueVars
<1>9. Queue'
  <2>1. Len(batchQueue') = Len(batchQueue) + 1 /\ BatchQueueSize' = BatchQueueSize
    BY <1>1, BatchType, AppendProperties DEF IInv, Types, BatchQueueSize
  <2> QED BY <1>1, <1>2, <1>3, <2>1 DEF Queue
<1>10. Step'
  BY <1>1 DEF Step, Scheduling
<1>11. Bounds'
  <2> SUFFICES ASSUME NEW r \in Requests, NEW i \in DOMAIN batchQueue'
               PROVE  batchQueue'[i][r] <= Smaller(PromptLen[r] + MaxTokens[r], MaxModelLen)
    BY DEF Bounds
  <2>1. CASE i \in DOMAIN batchQueue
    <3>1. batchQueue'[i] = batchQueue[i]
      BY <2>1, DispatchTokens, LenProperties DEF IInv, Types, Dispatch
    <3> QED BY <2>1, <3>1 DEF IInv, Bounds
  <2>2. CASE i \notin DOMAIN batchQueue
    <3>1. batchQueue'[i] = Batch
      <4>1. /\ DOMAIN batchQueue' = 1 .. Len(batchQueue) + 1
            /\ DOMAIN batchQueue = 1 .. Len(batchQueue)
        BY DispatchTokens, LenProperties DEF IInv, Types
      <4>2. i = Len(batchQueue) + 1
        BY <1>2, <2>2, <4>1
      <4> QED BY <4>2, DispatchTokens
    <3>2. /\ numTokens(r) \in Nat /\ numTokens(r) = PromptLen[r] + Len(output[r])
          /\ numComputed[r] \in Nat /\ scheduled[r] \in Nat /\ placeholders[r] \in Nat
          /\ PromptLen[r] \in Nat /\ MaxTokens[r] \in Nat /\ MaxModelLen \in Nat
          /\ Len(output[r]) \in Nat
      BY RequestFacts
    <3>3. CASE scheduled[r] > 0 /\ NewToken(r) = 1
      <4>1. /\ numComputed[r] + scheduled[r] = numTokens(r) + placeholders[r]
            /\ Batch[r] = numTokens(r) + placeholders[r] + 1 /\ RequestOK(r)
        BY <1>1, <3>3, BatchFacts
      <4>2. /\ numComputed[r] + scheduled[r] < MaxModelLen
            /\ Tokens(r) > 0 => /\ AsyncScheduling
                                /\ numComputed[r] + 1 < PromptLen[r] + MaxTokens[r]
            /\ status[r] = "running"
        BY <1>1, <3>3 DEF IInv, Step, Scheduling
      <4>3. Tokens(r) \in {0, 1}
        BY <1>2, QueueTokens, TokenFacts
      <4>4. /\ Len(output[r]) < MaxTokens[r]
            /\ placeholders[r] = Tokens(r)
            /\ Tokens(r) = 1 => numComputed[r] + 1 = numTokens(r) + 1
        BY <4>1, <4>2, <4>3 DEF RequestOK
      <4>5. Batch[r] <= MaxModelLen
        BY <3>2, <4>1, <4>2
      <4>6. Batch[r] <= PromptLen[r] + MaxTokens[r]
        <5>1. CASE Tokens(r) = 0
          <6>1. Batch[r] = numTokens(r) + 1
            BY <3>2, <4>1, <4>4, <5>1
          <6> QED BY <3>2, <4>4, <6>1
        <5>2. CASE Tokens(r) = 1
          <6>1. placeholders[r] = 1 /\ numComputed[r] + 1 < PromptLen[r] + MaxTokens[r]
            BY <4>2, <4>4, <5>2
          <6>2. numComputed[r] = numTokens(r)
            <7>1. numComputed[r] + 1 = numTokens(r) + 1
              BY <4>4, <5>2
            <7> QED BY <3>2, <7>1
          <6>3. Batch[r] = numTokens(r) + 2
            BY <3>2, <4>1, <6>1
          <6> QED BY <3>2, <6>1, <6>2, <6>3
        <5> QED BY <4>3, <5>1, <5>2
      <4> QED BY <3>1, <4>5, <4>6 DEF Smaller
    <3>4. CASE ~(scheduled[r] > 0 /\ NewToken(r) = 1)
      <4>1. Batch[r] \in {-1, 0}
        BY <1>1, <3>2, <3>4, BatchFacts DEF Absent, NoToken
      <4> QED BY <3>1, <3>2, <4>1 DEF Smaller
    <3> QED BY <3>3, <3>4
  <2> QED BY <2>1, <2>2
<1>12. Held'
  <2>1. FreeBlocks' >= 0
    BY <1>1, SameFree
  <2>2. ASSUME NEW r \in Requests
        PROVE  (numComputed[r] + Now(r))' = numComputed[r] + Now(r)
    <3>1. Now(r) = scheduled[r] /\ Now(r)' = 0
      BY <1>1 DEF Now, Scheduling
    <3>2. numComputed[r] \in Nat /\ scheduled[r] \in Nat
      BY RequestFacts
    <3> QED BY <1>1, <3>1, <3>2
  <2> QED BY <1>1, <2>1, <2>2 DEF IInv, Held, BlocksFor
<1> QED BY <1>6, <1>7, <1>8, <1>9, <1>10, <1>11, <1>12 DEF IInv, Supported

-----------------------------------------------------------------------------
(* Outputs and resets                                                      *)

\* The oldest step and the rest of the queue.
LEMMA CollectTokens ==
  ASSUME IInv, Collect
  PROVE  /\ Len(batchQueue) \in {1, 2}
         /\ batchQueue' \in Seq([Requests -> Nat \cup {Absent}])
         /\ Len(batchQueue') = Len(batchQueue) - 1
         /\ \A i \in DOMAIN batchQueue' : /\ i + 1 \in DOMAIN batchQueue
                                           /\ batchQueue'[i] = batchQueue[i + 1]
         /\ Len(batchQueue) = 2 => batchQueue'[1] = batchQueue[2]
         /\ \A r \in Requests : /\ Token(1, r)' = Token(2, r) /\ Token(2, r)' = 0
                                /\ Tokens(r)' = Token(2, r)
                                /\ Head(batchQueue)[r] > 0 <=> Token(1, r) = 1
                                /\ Head(batchQueue)[r] = batchQueue[1][r]
<1>1. /\ phase = "collect" /\ batchQueue' = Tail(batchQueue)
      /\ batchQueue \in Seq([Requests -> Nat \cup {Absent}])
  BY DEF Collect, PopOldest, IInv, Types
<1>2. Len(batchQueue) \in {1, 2}
  BY <1>1, StateFacts DEF IInv, Queue
<1>3. batchQueue # << >>
  BY <1>2, EmptySeq
<1>4. /\ batchQueue' \in Seq([Requests -> Nat \cup {Absent}])
      /\ Len(batchQueue') = Len(batchQueue) - 1
      /\ \A i \in 1 .. Len(batchQueue') : batchQueue'[i] = batchQueue[i + 1]
  BY <1>1, <1>3, HeadTailProperties
<1>5. DOMAIN batchQueue' = 1 .. Len(batchQueue') /\ DOMAIN batchQueue = 1 .. Len(batchQueue)
  BY <1>1, <1>4, LenProperties
<1>6. \A i \in DOMAIN batchQueue' : /\ i + 1 \in DOMAIN batchQueue
                                     /\ batchQueue'[i] = batchQueue[i + 1]
  BY <1>2, <1>4, <1>5
<1>7. Len(batchQueue) = 2 => batchQueue'[1] = batchQueue[2]
  BY <1>4
<1>8. ASSUME NEW r \in Requests
      PROVE  /\ Token(1, r)' = Token(2, r) /\ Token(2, r)' = 0 /\ Tokens(r)' = Token(2, r)
             /\ Head(batchQueue)[r] > 0 <=> Token(1, r) = 1
             /\ Head(batchQueue)[r] = batchQueue[1][r]
  <2>1. Head(batchQueue) = batchQueue[1]
    OBVIOUS
  <2>2. Token(1, r) = IF batchQueue[1][r] > 0 THEN 1 ELSE 0
    BY <1>2 DEF Token
  <2>3. Token(1, r)' = Token(2, r)
    <3>1. CASE Len(batchQueue) = 1
      <4>1. Len(batchQueue') = 0
        BY <1>4, <3>1
      <4> QED BY <3>1, <4>1 DEF Token
    <3>2. CASE Len(batchQueue) = 2
      <4>1. Len(batchQueue') = 1
        BY <1>4, <3>2
      <4> QED BY <1>7, <3>2, <4>1 DEF Token
    <3> QED BY <1>2, <3>1, <3>2
  <2>4. Token(2, r)' = 0
    <3>1. \A n \in {1, 2} : ~(2 <= n - 1)
      OBVIOUS
    <3>2. ~(2 <= Len(batchQueue) - 1)
      BY <1>2, <3>1
    <3>3. ~(2 <= Len(batchQueue'))
      BY <1>4, <3>2
    <3> QED BY <3>3 DEF Token
  <2>5. Token(2, r) \in {0, 1}
    BY TokenFacts
  <2> QED BY <2>1, <2>2, <2>3, <2>4, <2>5 DEF Tokens
<1> QED BY <1>2, <1>4, <1>6, <1>7, <1>8

LEMMA CollectPreserves ==
  ASSUME IInv, Collect PROVE IInv'
<1> DEFINE batch    == Head(batchQueue)
           accepted == Accepted(batch)
           stopped  == {r \in accepted : Stops(r, batch[r])}
<1>1. /\ phase = "collect" /\ phase' = "idle"
      /\ output' = [r \in Requests |-> IF r \in accepted THEN Append(output[r], batch[r])
                                       ELSE output[r]]
      /\ placeholders' = [r \in Requests |->
           IF AsyncScheduling /\ r \in accepted THEN placeholders[r] - 1 ELSE placeholders[r]]
      /\ discard' = [r \in Requests |-> discard[r] /\ ~(AsyncScheduling /\ r \in Sampled(batch))]
      /\ status' = [r \in Requests |-> IF r \in stopped THEN "finished" ELSE status[r]]
      /\ held' = [r \in Requests |-> IF r \in stopped THEN 0 ELSE held[r]]
      /\ running' = Without(running, stopped) /\ waiting' = Without(waiting, stopped)
      /\ UNCHANGED <<numComputed, stepVars, resets, config>>
  BY DEF Collect, PopOldest
<1>2. ASSUME NEW r \in Requests
      PROVE  r \in accepted <=> status[r] # "finished" /\ Token(1, r) = 1
  <2>1. r \in accepted <=> /\ batch[r] > 0 /\ status[r] # "finished"
                           /\ ~(AsyncScheduling /\ discard[r])
    BY DEF Accepted, Sampled
  <2>2. batch[r] > 0 <=> Token(1, r) = 1
    BY CollectTokens
  <2>3. status[r] # "finished" => ~(AsyncScheduling /\ discard[r])
    BY NotLeft DEF RequestOK
  <2> QED BY <2>1, <2>2, <2>3
<1>3. ASSUME NEW r \in accepted
      PROVE  /\ r \in Requests /\ RequestOK(r) /\ Token(1, r) = 1
             /\ batch[r] = numTokens(r) + 1 /\ status[r] # "new"
             /\ ~(r \in stopped) => /\ numTokens(r) + 1 < MaxModelLen
                                    /\ Len(output[r]) + 1 < MaxTokens[r]
  <2>1. r \in Requests
    BY DEF Accepted, Sampled
  <2>2. RequestOK(r) /\ Token(1, r) = 1
    BY <1>2, <2>1, NotLeft
  <2>3. batch[r] = numTokens(r) + 1
    BY <2>1, <2>2, CollectTokens DEF RequestOK
  <2>4. status[r] # "new"
    BY <2>1, <2>2, TokenFacts DEF RequestOK
  <2>5. ~(r \in stopped) => /\ ~(numTokens(r) + 1 >= MaxModelLen)
                            /\ ~(Len(output[r]) + 1 >= MaxTokens[r])
    BY DEF Stops
  <2> QED BY <2>1, <2>2, <2>3, <2>4, <2>5, RequestFacts
<1>4. stopped \subseteq accepted
  OBVIOUS
<1> HIDE DEF stopped, accepted, batch
<1>5. ASSUME NEW r \in accepted
      PROVE  /\ output'[r] \in Seq(Nat) /\ Len(output'[r]) = Len(output[r]) + 1
             /\ \A i \in 1 .. Len(output[r]) : output'[r][i] = output[r][i]
             /\ output'[r][Len(output[r]) + 1] = numTokens(r) + 1
  <2>1. output'[r] = Append(output[r], numTokens(r) + 1)
    BY <1>1, <1>3
  <2>2. output[r] \in Seq(Nat) /\ numTokens(r) + 1 \in Nat
    BY <1>3, RequestFacts
  <2> QED BY <2>1, <2>2, AppendProperties
<1>6. \A r \in Requests \ accepted : /\ output'[r] = output[r] /\ status'[r] = status[r]
                                     /\ held'[r] = held[r] /\ placeholders'[r] = placeholders[r]
  BY <1>1, <1>4
<1>7. \A r \in Requests : discard'[r] => discard[r]
  BY <1>1
<1>8. ASSUME NEW r \in accepted
      PROVE  /\ placeholders'[r] = IF AsyncScheduling THEN placeholders[r] - 1 ELSE placeholders[r]
             /\ status'[r] = IF r \in stopped THEN "finished" ELSE status[r]
             /\ held'[r] = IF r \in stopped THEN 0 ELSE held[r]
  BY <1>1, <1>3
<1>9. Types'
  <2>1. ASSUME NEW r \in Requests
        PROVE  /\ output'[r] \in Seq(Nat) /\ placeholders'[r] \in 0 .. BatchQueueSize
               /\ status'[r] \in {"new", "waiting", "preempted", "running", "finished"}
               /\ held'[r] \in Nat
    <3>1. /\ output[r] \in Seq(Nat) /\ placeholders[r] \in 0 .. BatchQueueSize
          /\ status[r] \in {"new", "waiting", "preempted", "running", "finished"}
          /\ held[r] \in Nat
      BY DEF IInv, Types
    <3>2. CASE r \notin accepted
      BY <1>6, <3>1, <3>2
    <3>3. CASE r \in accepted
      <4>1. AsyncScheduling => placeholders[r] # 0
        <5>1. AsyncScheduling => placeholders[r] = Tokens(r)
          BY <1>3, <3>3 DEF RequestOK
        <5> QED BY <1>3, <3>3, <5>1, TokenFacts
      <4>2. BatchQueueSize \in {1, 2}
        BY StateFacts
      <4>3. placeholders'[r] \in 0 .. BatchQueueSize
        BY <1>8, <3>1, <3>3, <4>1, <4>2
      <4> QED BY <1>5, <1>8, <3>1, <3>3, <4>3
    <3> QED BY <3>2, <3>3
  <2>2. /\ output' = [r \in Requests |-> output'[r]]
        /\ placeholders' = [r \in Requests |-> placeholders'[r]]
        /\ status' = [r \in Requests |-> status'[r]] /\ held' = [r \in Requests |-> held'[r]]
    BY <1>1
  <2>3. /\ output' \in [Requests -> Seq(Nat)]
        /\ placeholders' \in [Requests -> 0 .. BatchQueueSize]
        /\ status' \in [Requests -> {"new", "waiting", "preempted", "running", "finished"}]
        /\ held' \in [Requests -> Nat]
    BY <2>1, <2>2
  <2>4. discard' \in [Requests -> BOOLEAN]
    BY <1>1, Zenon
  <2>5. batchQueue' \in Seq([Requests -> Nat \cup {Absent}])
    BY CollectTokens
  <2> QED BY <1>1, <2>3, <2>4, <2>5 DEF IInv, Types, BatchQueueSize, MaxResets, stepVars
<1>10. Lists'
  <2>1. /\ waiting \in Seq(Requests) /\ IsInjective(waiting)
        /\ running \in Seq(Requests) /\ IsInjective(running)
    BY DEF IInv, Lists
  <2>2. /\ waiting' \in Seq(Requests) /\ IsInjective(waiting')
        /\ Range(waiting') = Range(waiting) \ stopped
    BY <1>1, <2>1, WithoutProperties
  <2>3. /\ running' \in Seq(Requests) /\ IsInjective(running')
        /\ Range(running') = Range(running) \ stopped
    BY <1>1, <2>1, WithoutProperties
  <2>4. \A r \in Requests : status'[r] = IF r \in stopped THEN "finished" ELSE status[r]
    BY <1>1
  <2> QED BY <2>2, <2>3, <2>4 DEF IInv, Lists, Queued
<1>11. Queue'
  <2>1. /\ Len(batchQueue') \in Int /\ Len(batchQueue') = Len(batchQueue) - 1
        /\ Len(batchQueue) \in {1, 2} /\ Len(batchQueue) <= BatchQueueSize
        /\ BatchQueueSize \in {1, 2} /\ BatchQueueSize' = BatchQueueSize
    BY <1>1, CollectTokens, StateFacts DEF IInv, Queue, BatchQueueSize
  <2> QED BY <1>1, <2>1 DEF Queue
<1>12. Step'
  BY <1>1 DEF Step, Scheduling
<1>13. OutputExact'
  <2> SUFFICES ASSUME NEW r \in Requests, NEW i \in DOMAIN output'[r]
               PROVE  output'[r][i] = PromptLen[r] + i
    BY DEF OutputExact
  <2>1. CASE r \notin accepted
    BY <1>6, <2>1 DEF IInv, OutputExact
  <2>2. CASE r \in accepted
    <3>1. /\ DOMAIN output'[r] = 1 .. Len(output[r]) + 1 /\ Len(output[r]) \in Nat
          /\ DOMAIN output[r] = 1 .. Len(output[r])
      BY <1>5, <2>2, LenProperties, RequestFacts
    <3>2. CASE i \in 1 .. Len(output[r])
      BY <1>5, <2>2, <3>1, <3>2 DEF IInv, OutputExact
    <3>3. CASE i = Len(output[r]) + 1
      <4>1. numTokens(r) = PromptLen[r] + Len(output[r]) /\ PromptLen[r] \in Nat
        BY RequestFacts
      <4> QED BY <1>5, <2>2, <3>1, <3>3, <4>1
    <3> QED BY <3>1, <3>2, <3>3
  <2> QED BY <2>1, <2>2
<1>14. Bounds'
  BY CollectTokens DEF IInv, Bounds
<1>15. ASSUME NEW r \in Requests, RequestOK(r), r \notin stopped, status[r] # "finished"
       PROVE  RequestOK(r)'
  <2>1. /\ Token(1, r)' = Token(2, r) /\ Token(2, r)' = 0 /\ Tokens(r)' = Token(2, r)
        /\ Len(batchQueue) = 2 => batchQueue'[1] = batchQueue[2]
        /\ Token(1, r) \in {0, 1} /\ Token(2, r) \in {0, 1}
        /\ Tokens(r) = Token(1, r) + Token(2, r)
    BY CollectTokens, TokenFacts
  <2>2. Token(2, r) > 0 => Len(batchQueue) = 2
    BY CollectTokens, QueueTokens
  <2>3. /\ AsyncScheduling' = AsyncScheduling /\ numComputed' = numComputed
        /\ discard'[r] => discard[r]
        /\ status'[r] = status[r]
    BY <1>1, <1>7, <1>15 DEF AsyncScheduling
  <2>4. /\ Len(output[r]) < MaxTokens[r] /\ numTokens(r) < MaxModelLen
        /\ Token(2, r) > 0 => batchQueue[2][r] = numTokens(r) + 1 + Token(1, r)
        /\ placeholders[r] = IF AsyncScheduling THEN Tokens(r) ELSE 0
        /\ AsyncScheduling => ~discard[r]
        /\ status[r] = "new" => Tokens(r) = 0
        /\ status[r] = "running" =>
             IF Tokens(r) = 0 THEN numComputed[r] < numTokens(r)
             ELSE numComputed[r] + 1 = numTokens(r) + Tokens(r)
        /\ status[r] # "running" => numComputed[r] = 0 /\ Token(2, r) = 0
    BY <1>15 DEF RequestOK
  <2>5. numTokens(r) \in Nat /\ numComputed[r] \in Nat /\ placeholders[r] \in Nat
    BY RequestFacts
  <2>6. Queued(r)' => Tokens(r)' = 0
    BY <2>1, <2>3, <2>4 DEF Queued
  <2>7. CASE r \notin accepted
    <3>1. Token(1, r) = 0
      BY <1>2, <1>15, <2>1, <2>7
    <3>2. /\ output'[r] = output[r] /\ numTokens(r)' = numTokens(r)
          /\ placeholders'[r] = placeholders[r]
      BY <1>6, <2>7 DEF numTokens
    <3>3. Tokens(r)' = Tokens(r)
      BY <2>1, <3>1
    <3>4. Token(1, r)' > 0 => batchQueue'[1][r] = numTokens(r) + 1
      BY <2>1, <2>2, <2>4, <2>5, <3>1
    <3> QED BY <2>1, <2>3, <2>4, <2>6, <3>2, <3>3, <3>4 DEF RequestOK
  <2>8. CASE r \in accepted
    <3>1. Token(1, r) = 1 /\ numTokens(r) + 1 < MaxModelLen /\ Len(output[r]) + 1 < MaxTokens[r]
      BY <1>3, <1>15, <2>8
    <3>2. Len(output'[r]) = Len(output[r]) + 1
      BY <1>5, <2>8
    <3>3. numTokens(r)' = numTokens(r) + 1
      <4>1. numTokens(r)' = PromptLen[r] + Len(output'[r])
        BY DEF numTokens
      <4> QED BY <3>2, <4>1, RequestFacts
    <3>4. Token(1, r)' > 0 => batchQueue'[1][r] = numTokens(r)' + 1
      BY <2>1, <2>2, <2>4, <2>5, <3>1, <3>3
    <3>5. placeholders'[r] = IF AsyncScheduling THEN Tokens(r)' ELSE 0
      BY <1>8, <2>1, <2>4, <2>5, <2>8, <3>1
    <3>6. status[r] = "running" =>
             IF Tokens(r)' = 0 THEN numComputed[r] < numTokens(r)'
             ELSE numComputed[r] + 1 = numTokens(r)' + Tokens(r)'
      BY <2>1, <2>4, <2>5, <3>1, <3>3
    <3>7. status[r] # "new"
      BY <1>3, <2>8
    <3> QED BY <2>1, <2>3, <2>4, <2>6, <3>1, <3>2, <3>3, <3>4, <3>5, <3>6, <3>7 DEF RequestOK
  <2> QED BY <2>7, <2>8
<1>16. RequestsOK'
  <2> SUFFICES ASSUME NEW r \in Requests PROVE (Left(r) \/ RequestOK(r))'
    BY DEF RequestsOK
  <2>1. status'[r] = IF r \in stopped THEN "finished" ELSE status[r]
    BY <1>1
  <2>2. r \in stopped \/ status[r] = "finished" => Left(r)'
    BY <2>1 DEF Left
  <2> QED BY <1>15, <2>2, NotLeft
<1>17. Held'
  <2>1. ASSUME NEW r \in Requests PROVE held'[r] <= held[r] /\ held'[r] \in Nat
    <3>1. held[r] \in Nat
      BY RequestFacts
    <3> QED BY <1>1, <3>1
  <2>2. held' \in [Requests -> Nat]
    BY <1>9 DEF Types
  <2>3. FreeBlocks' >= 0
    BY <2>1, <2>2, FewerHeld
  <2>4. ASSUME NEW r \in Requests PROVE Now(r)' = Now(r)
    BY <1>1 DEF Now, Scheduling
  <2>5. \A r \in Requests : /\ held'[r] = IF r \in stopped THEN 0 ELSE held[r]
                            /\ status'[r] = IF r \in stopped THEN "finished" ELSE status[r]
    BY <1>1
  <2> QED BY <1>1, <2>3, <2>4, <2>5 DEF IInv, Held, BlocksFor
<1> QED BY <1>9, <1>10, <1>11, <1>12, <1>13, <1>14, <1>16, <1>17 DEF IInv, Supported

LEMMA ResetPreserves ==
  ASSUME IInv, Reset PROVE IInv'
<1> DEFINE S == Range(running)
<1>1. /\ phase = "idle" /\ resets < MaxResets /\ resets' = resets + 1
      /\ running' = << >> /\ waiting' = running \o waiting
      /\ status' = [r \in Requests |-> IF r \in S THEN "preempted" ELSE status[r]]
      /\ held' = [r \in Requests |-> IF r \in S THEN 0 ELSE held[r]]
      /\ numComputed' = [r \in Requests |-> IF r \in S THEN 0 ELSE numComputed[r]]
      /\ placeholders' = [r \in Requests |-> IF r \in S THEN 0 ELSE placeholders[r]]
      /\ discard' = [r \in Requests |-> discard[r] \/ r \in S]
      /\ UNCHANGED <<phase, output, stepVars, batchQueue, toldFinished, config>>
  BY DEF Reset
<1>2. BatchQueueSize = 1 /\ ~AsyncScheduling /\ Len(batchQueue) = 0
  <2>1. resets \in Nat /\ MaxResets # 0
    BY <1>1, StateFacts DEF IInv, Types
  <2>2. BatchQueueSize = 1
    BY <2>1, StateFacts
  <2> QED BY <1>1, <2>2, StateFacts DEF IInv, Queue
<1>3. S = {r \in Requests : status[r] = "running"}
  <2>1. running \in Seq(Requests)
    BY DEF IInv, Lists
  <2>2. S \subseteq Requests
    BY <2>1 DEF Range
  <2> QED BY <2>2 DEF IInv, Lists
<1> HIDE DEF S
<1>4. Types'
  <2>1. resets' \in 0 .. MaxResets
    BY <1>1, StateFacts DEF IInv, Types
  <2>2. 0 \in 0 .. MaxModelLen /\ 0 \in 0 .. BatchQueueSize
    BY <1>2, ConstantFacts
  <2>3. /\ numComputed' \in [Requests -> 0 .. MaxModelLen]
        /\ placeholders' \in [Requests -> 0 .. BatchQueueSize] /\ held' \in [Requests -> Nat]
        /\ status' \in [Requests -> {"new", "waiting", "preempted", "running", "finished"}]
    BY <1>1, <2>2 DEF IInv, Types
  <2>4. discard' \in [Requests -> BOOLEAN]
    BY <1>1, Zenon
  <2> QED BY <1>1, <2>1, <2>3, <2>4 DEF IInv, Types, BatchQueueSize, MaxResets, stepVars
<1>5. Lists'
  <2>1. /\ waiting \in Seq(Requests) /\ IsInjective(waiting)
        /\ running \in Seq(Requests) /\ IsInjective(running)
    BY DEF IInv, Lists
  <2>2. Range(running) \cap Range(waiting) = {}
    <3>1. ASSUME NEW x \in Range(running), x \in Range(waiting) PROVE FALSE
      <4>1. x \in Requests
        BY <2>1 DEF Range
      <4> QED BY <3>1, <4>1 DEF IInv, Lists, Queued
    <3> QED BY <3>1
  <2>3. /\ waiting' \in Seq(Requests) /\ IsInjective(waiting')
        /\ Range(waiting') = Range(running) \cup Range(waiting)
    BY <1>1, <2>1, <2>2, ConcatRange
  <2>4. running' \in Seq(Requests) /\ IsInjective(running') /\ Range(running') = {}
    BY <1>1, EmptySeq DEF IsInjective, Range
  <2> QED BY <1>1, <1>3, <2>3, <2>4 DEF IInv, Lists, Queued
<1>6. Queue' /\ Step' /\ OutputExact' /\ Bounds'
  BY <1>1 DEF IInv, Queue, Step, Scheduling, OutputExact, Bounds, BatchQueueSize, stepVars
<1>7. RequestsOK'
  <2> SUFFICES ASSUME NEW r \in Requests PROVE (Left(r) \/ RequestOK(r))'
    BY DEF RequestsOK
  <2>1. Token(1, r) = 0 /\ Token(2, r) = 0
    BY <1>2, QueueTokens
  <2>2. Token(1, r)' = 0 /\ Token(2, r)' = 0 /\ Tokens(r)' = 0
    BY <1>1, <2>1 DEF Token, Tokens
  <2>3. ~AsyncScheduling' /\ numTokens(r)' = numTokens(r)
    BY <1>1, <1>2 DEF AsyncScheduling, numTokens
  <2>4. CASE Left(r)
    <3>1. r \notin S
      BY <1>3, <2>4 DEF Left
    <3> QED BY <1>1, <2>4, <3>1 DEF Left
  <2>5. CASE RequestOK(r)
    <3>1. placeholders[r] = 0
      BY <1>2, <2>5 DEF RequestOK
    <3>2. status'[r] # "running" /\ numComputed'[r] = 0 /\ placeholders'[r] = 0
      BY <1>1, <1>3, <2>5, <3>1 DEF RequestOK
    <3> QED BY <1>1, <2>2, <2>3, <2>5, <3>2 DEF RequestOK
  <2> QED BY <2>4, <2>5 DEF IInv, RequestsOK
<1>8. Held'
  <2>1. ASSUME NEW r \in Requests PROVE held'[r] <= held[r] /\ held'[r] \in Nat
    <3>1. held[r] \in Nat
      BY RequestFacts
    <3> QED BY <1>1, <3>1
  <2>2. held' \in [Requests -> Nat]
    BY <1>4 DEF Types
  <2>3. FreeBlocks' >= 0
    BY <2>1, <2>2, FewerHeld
  <2>4. \A r \in Requests : status'[r] # "running" /\ held'[r] = 0
    BY <1>1, <1>3 DEF IInv, Held
  <2> QED BY <2>3, <2>4 DEF Held
<1> QED BY <1>4, <1>5, <1>6, <1>7, <1>8 DEF IInv, Supported

-----------------------------------------------------------------------------
(* The theorems                                                            *)

LEMMA NextIInv == IInv /\ [Next]_vars => IInv'
<1> SUFFICES ASSUME IInv, [Next]_vars PROVE IInv'
  OBVIOUS
<1>1. CASE UNCHANGED vars
  <2>1. UNCHANGED <<requestVars, queueVars, batchQueue, config, resets>> /\ UNCHANGED stepVars
        /\ phase' = phase
    BY <1>1 DEF vars
  <2>2. Lists' /\ OutputExact' /\ Bounds' /\ RequestsOK'
    BY <2>1, SameState DEF stepVars
  <2>3. Types' /\ Queue' /\ Step'
    BY <2>1 DEF IInv, Types, Queue, Step, Scheduling, Tokens, Token, numTokens, AsyncScheduling,
                BatchQueueSize, MaxResets, requestVars, queueVars, stepVars
  <2>4. ASSUME NEW r \in Requests PROVE Now(r)' = Now(r)
    BY <2>1 DEF Now, Scheduling, stepVars
  <2>5. Held'
    BY <2>1, <2>4, SameHeld
  <2> QED BY <2>2, <2>3, <2>5 DEF IInv, Supported
<1>2. CASE EngineLoop
  BY <1>2, StartPreserves, SkipPreserves, ScheduleRunningPreserves, PreemptPreserves,
     EndRunningPreserves, ScheduleWaitingPreserves, EndWaitingPreserves, DispatchPreserves,
     OnlyCollectPreserves, CollectPreserves DEF EngineLoop
<1>3. ASSUME NEW r \in Requests, AddRequest(r) \/ Abort(r) PROVE IInv'
  BY <1>3, AddRequestPreserves, AbortPreserves
<1>4. CASE Reset
  BY <1>4, ResetPreserves
<1>5. CASE WaitForWork
  BY <1>1, <1>5 DEF WaitForWork
<1> QED BY <1>1, <1>2, <1>3, <1>4, <1>5 DEF Next

\* The invariant of step_with_batch_queue: what is in flight for a request, what is
\* computed of it and what is known of its text go together.
THEOREM Invariance == ASSUME Supported PROVE Spec => []IInv
<1>1. Init => IInv
  BY InitIInv
<1>2. IInv /\ [Next]_vars => IInv'
  BY NextIInv
<1> QED BY <1>1, <1>2, PTL DEF Spec

\* Every request gets the positions of its text once and in order, however many
\* steps are in flight when it is preempted, resumed or aborted
\* (_update_request_with_output).
THEOREM OutputIsExact == ASSUME Supported PROVE Spec => []OutputExact
<1>1. IInv => OutputExact
  BY DEF IInv
<1> QED BY <1>1, Invariance, PTL

\* The steps in flight for a request, counted.
LEMMA InFlightCount ==
  ASSUME IInv, NEW r \in Requests
  PROVE  Cardinality(InFlight(r)) = Tokens(r)
<1>1. DOMAIN batchQueue = 1 .. Len(batchQueue) /\ Len(batchQueue) \in {0, 1, 2}
  BY StateFacts, LenProperties DEF IInv, Types
<1>2. \A i \in DOMAIN batchQueue : i \in {1, 2}
  BY <1>1
<1>3. \A i \in {1, 2} : i \in InFlight(r) <=> Token(i, r) = 1
  BY <1>1 DEF InFlight, Token
<1>4. InFlight(r) \subseteq {1, 2}
  BY <1>2 DEF InFlight
<1>5. Token(1, r) \in {0, 1} /\ Token(2, r) \in {0, 1} /\ Tokens(r) = Token(1, r) + Token(2, r)
  BY TokenFacts
<1>6. CASE Token(1, r) = 0 /\ Token(2, r) = 0
  <2>1. InFlight(r) = {}
    BY <1>3, <1>4, <1>6
  <2> QED BY <1>5, <1>6, <2>1, FS_EmptySet
<1>7. CASE Token(1, r) = 1 /\ Token(2, r) = 0
  <2>1. InFlight(r) = {1}
    BY <1>3, <1>4, <1>7
  <2> QED BY <1>5, <1>7, <2>1, FS_Singleton
<1>8. CASE Token(1, r) = 0 /\ Token(2, r) = 1
  <2>1. InFlight(r) = {2}
    BY <1>3, <1>4, <1>8
  <2> QED BY <1>5, <1>8, <2>1, FS_Singleton
<1>9. CASE Token(1, r) = 1 /\ Token(2, r) = 1
  <2>1. InFlight(r) = {1} \cup {2}
    BY <1>3, <1>4, <1>9
  <2>2. IsFiniteSet({1}) /\ Cardinality({1}) = 1
    BY FS_Singleton
  <2>3. 2 \notin {1}
    OBVIOUS
  <2>4. Cardinality({1} \cup {2}) = Cardinality({1}) + 1
    BY <2>2, <2>3, FS_AddElement
  <2> QED BY <1>5, <1>9, <2>1, <2>2, <2>4
<1> QED BY <1>5, <1>6, <1>7, <1>8, <1>9

\* num_output_placeholders is the number of tokens in flight, also of a request
\* that was preempted with one, and no step is scheduled for a token past
\* max_tokens or max_model_len.
THEOREM PlaceholdersAreExact == ASSUME Supported PROVE Spec => []PlaceholdersExact
<1>1. IInv => PlaceholdersExact
  <2> SUFFICES ASSUME IInv, NEW r \in Requests
               PROVE  /\ AsyncScheduling /\ status[r] # "finished" =>
                           placeholders[r] = Cardinality(InFlight(r))
                      /\ \A i \in InFlight(r) :
                           batchQueue[i][r] <= Smaller(PromptLen[r] + MaxTokens[r], MaxModelLen)
    BY DEF PlaceholdersExact
  <2>1. AsyncScheduling /\ status[r] # "finished" => placeholders[r] = Tokens(r)
    BY NotLeft DEF RequestOK
  <2>2. InFlight(r) \subseteq DOMAIN batchQueue
    BY DEF InFlight
  <2> QED BY <2>1, <2>2, InFlightCount DEF IInv, Bounds
<1> QED BY <1>1, Invariance, PTL

\* A running request has the blocks for what it has computed and has in flight, one
\* that waits or has finished has none, and together they have no more than there
\* are (allocate_slots, _preempt_request, _free_request).
THEOREM BlocksAreHeld == ASSUME Supported PROVE Spec => []BlocksHeld
<1>1. IInv => BlocksHeld
  <2> SUFFICES ASSUME IInv PROVE BlocksHeld
    OBVIOUS
  <2>1. ASSUME NEW r \in Requests PROVE held[r] \in 0 .. NumBlocks
    <3>1. held[r] <= SumOf(held)[Requests]
      BY SumHeld, SumElement
    <3> QED BY <3>1, SumHeld, RequestFacts, ConstantFacts
  <2>2. TypeOK
    <3>1. held \in [Requests -> 0 .. NumBlocks]
      BY <2>1 DEF IInv, Types
    <3>2. Len(batchQueue) \in 0 .. BatchQueueSize
      BY StateFacts DEF IInv, Queue
    <3>3. phase = "idle" => Len(batchQueue) < BatchQueueSize
      BY DEF IInv, Queue
    <3> QED BY <3>1, <3>2, <3>3 DEF IInv, Types, TypeOK
  <2>3. ASSUME NEW r \in Requests, status[r] = "running"
        PROVE  held[r] >= BlocksFor(numComputed[r])
    <3> DEFINE a == numComputed[r]
               b == numComputed[r] + Now(r)
    <3>1. a \in Nat /\ b \in Nat /\ a <= b
      <4>1. Now(r) \in Nat
        BY RequestFacts DEF Now
      <4> QED BY <4>1, RequestFacts
    <3>2. held[r] >= BlocksFor(b)
      BY <2>3 DEF IInv, Held
    <3> HIDE DEF a, b
    <3>3. BlocksFor(a) \in Nat /\ BlocksFor(b) \in Nat /\ BlocksFor(a) <= BlocksFor(b)
      BY <3>1, BlocksForFacts
    <3>4. held[r] >= BlocksFor(a)
      BY <3>2, <3>3, RequestFacts
    <3> QED BY <3>4 DEF a
  <2> QED BY <2>2, <2>3 DEF IInv, Held, Lists, Queued, BlocksHeld
<1> QED BY <1>1, Invariance, PTL
=============================================================================
